------------------------------- MODULE Asset --------------------------------
(***************************************************************************)
(* asset and extended_asset of core/uosio/asset.hpp: amounts of a token in *)
(* an int64_t, with checked arithmetic.  A contract computes with a few    *)
(* assets it has constructed or unpacked from its input.                   *)
(*                                                                         *)
(* amount is public and unpacking sets it without a check, so whether the  *)
(* checks after the arithmetic are enough depends on the contract asking   *)
(* is_valid() of what it unpacks.                                          *)
(***************************************************************************)
EXTENDS Integers

CONSTANTS MaxInt,        \* the largest int64_t, 2^63 - 1
          Symbols,       \* symbols, precision included
          ValidSymbols,  \* those for which symbol.is_valid() holds
          Contracts,     \* token contracts
          Vars,          \* the assets the contract computes with
          Inputs,        \* the amounts and factors it meets
          Validated      \* it asks is_valid() of the assets it unpacks

int64_t == -(MaxInt + 1) .. MaxInt
max_amount == (MaxInt - 1) \div 2

ASSUME AssetAssumption ==
  /\ MaxInt \in Nat \ {0}
  /\ ValidSymbols \subseteq Symbols /\ ValidSymbols # {} /\ Contracts # {}
  /\ Inputs \subseteq int64_t
  /\ Validated \in BOOLEAN

VARIABLES
  quantity,  \* the variables: [amount, symbol, contract]
  exact,     \* what each amount would be in unbounded integers (history)
  status     \* "ok", "aborted" by a check, "trapped" by the machine

vars == <<quantity, exact, status>>

\* Two's complement: what an int64_t holds after an operation.
Wrap(x) == ((x + MaxInt + 1) % (2 * (MaxInt + 1))) - (MaxInt + 1)

\* Division of C++ rounds towards zero.
Abs(x) == IF x < 0 THEN -x ELSE x
Quotient(x, d) ==
  IF (x < 0) = (d < 0) THEN Abs(x) \div Abs(d) ELSE -(Abs(x) \div Abs(d))

is_amount_within_range(amount) == -max_amount <= amount /\ amount <= max_amount

is_valid(amount, symbol) == is_amount_within_range(amount) /\ symbol \in ValidSymbols

Init ==
  /\ quantity \in [Vars -> [amount : {0}, symbol : ValidSymbols, contract : Contracts]]
  /\ exact = [r \in Vars |-> 0]
  /\ status = "ok"

-----------------------------------------------------------------------------
Stop(how) == status' = how /\ UNCHANGED <<quantity, exact>>

\* The operation leaves a in r, where x is exact, if all its checks hold.
Yield(ok, r, a, x) ==
  \/ /\ ok
     /\ quantity' = [quantity EXCEPT ![r] = a]
     /\ exact' = [exact EXCEPT ![r] = x]
     /\ UNCHANGED status
  \/ ~ok /\ Stop("aborted")

construct(r, amount, symbol, contract) ==
  Yield(is_valid(amount, symbol), r,
        [amount |-> amount, symbol |-> symbol, contract |-> contract], amount)

\* Unpacking stores what arrives; asking is_valid() is up to the contract.
unpack(r, amount, symbol, contract) ==
  Yield(Validated => is_valid(amount, symbol), r,
        [amount |-> amount, symbol |-> symbol, contract |-> contract], amount)

set_amount(r, amount) ==
  Yield(is_amount_within_range(amount), r,
        [quantity[r] EXCEPT !.amount = amount], amount)

\* r = -q.
negate(r, q) ==
  Yield(TRUE, r, [quantity[q] EXCEPT !.amount = Wrap(-@)], -exact[q])

\* Operands are of one symbol and, as extended assets, of one contract.
Compatible(extended, r, q) ==
  /\ extended => quantity[r].contract = quantity[q].contract
  /\ quantity[r].symbol = quantity[q].symbol

\* The checks after += and -=.  Mutant: the upper one is left out.
SumInRangeBelow(sum) == -max_amount <= sum
SumInRange(sum) == -max_amount <= sum /\ sum <= max_amount

\* r += q and r -= q; operator+ and operator- do this to a copy.
add(extended, r, q) ==
  LET sum == Wrap(quantity[r].amount + quantity[q].amount)
  IN  Yield(Compatible(extended, r, q) /\ SumInRange(sum), r,
            [quantity[r] EXCEPT !.amount = sum], exact[r] + exact[q])

subtract(extended, r, q) ==
  LET sum == Wrap(quantity[r].amount - quantity[q].amount)
  IN  Yield(Compatible(extended, r, q) /\ SumInRange(sum), r,
            [quantity[r] EXCEPT !.amount = sum], exact[r] - exact[q])

\* r *= n.  Any product of two int64_t is an int128_t.  Mutant: it is
\* computed in an int64_t.
ProductNarrow(r, n) == Wrap(quantity[r].amount * n)
Product(r, n) == quantity[r].amount * n

\* Mutant: the lower check is left out.
ProductInRangeAbove(product) == product <= max_amount
ProductInRange(product) == product <= max_amount /\ product >= -max_amount

multiply(r, n) ==
  Yield(ProductInRange(Product(r, n)), r,
        [quantity[r] EXCEPT !.amount = Product(r, n)], exact[r] * n)

\* r /= n.  Mutant: a divisor of zero is not refused.
DivisorOKAlways(r, n) == TRUE
DivisorOK(r, n) == n # 0 /\ ~(quantity[r].amount = -(MaxInt + 1) /\ n = -1)

\* A division that has no result traps.
Divides(x, n) == n # 0 /\ ~(x = -(MaxInt + 1) /\ n = -1)

divide(r, n) ==
  \/ ~DivisorOK(r, n) /\ Stop("aborted")
  \/ DivisorOK(r, n) /\ ~Divides(quantity[r].amount, n) /\ Stop("trapped")
  \/ /\ DivisorOK(r, n) /\ Divides(quantity[r].amount, n)
     /\ Yield(TRUE, r, [quantity[r] EXCEPT !.amount = Quotient(@, n)],
              Quotient(exact[r], n))

\* r / q, a number that changes nothing.  Here an overflow of the division is
\* not checked for.
ratio(r, q) ==
  LET ok == quantity[q].amount # 0 /\ quantity[r].symbol = quantity[q].symbol
  IN  \/ ~ok /\ Stop("aborted")
      \/ ok /\ ~Divides(quantity[r].amount, quantity[q].amount) /\ Stop("trapped")

\* r < q and the other comparisons: all but == of extended assets compare the
\* contracts, and all compare the symbols, before they compare amounts.  The
\* answer changes nothing.
compare(extended, r, q) == ~Compatible(extended, r, q) /\ Stop("aborted")

Next ==
  /\ status = "ok"
  /\ \E r \in Vars :
       \/ \E n \in Inputs :
            \/ \E s \in Symbols, c \in Contracts : construct(r, n, s, c) \/ unpack(r, n, s, c)
            \/ set_amount(r, n) \/ multiply(r, n) \/ divide(r, n)
       \/ \E q \in Vars :
            \/ negate(r, q) \/ ratio(r, q)
            \/ \E extended \in BOOLEAN :
                 add(extended, r, q) \/ subtract(extended, r, q) \/ compare(extended, r, q)

Spec == Init /\ [][Next]_vars

-----------------------------------------------------------------------------
(* Type invariant: every amount is one an int64_t can hold.                *)
TypeOK ==
  /\ quantity \in [Vars -> [amount : int64_t, symbol : Symbols, contract : Contracts]]
  /\ exact \in [Vars -> Int]
  /\ status \in {"ok", "aborted", "trapped"}

(* "Maximum amount possible for this asset. It's capped to 2^62 - 1": no   *)
(* sequence of operations leaves a larger amount, if the contract          *)
(* validates what it unpacks.                                              *)
AmountsInRange ==
  Validated => \A r \in Vars : is_amount_within_range(quantity[r].amount)

(* Every amount is the one unbounded arithmetic gives, although the checks *)
(* of += and -= look at a sum that may already have wrapped.  "The amount  *)
(* of this asset is added with the amount of asset a", says the            *)
(* documentation.  Without validation this is false.                       *)
ArithmeticExact == \A r \in Vars : quantity[r].amount = exact[r]

(* No division traps, though the quotient of two assets is not checked for *)
(* overflow, if the contract validates what it unpacks.                    *)
NoTrap == Validated => status # "trapped"
=============================================================================
