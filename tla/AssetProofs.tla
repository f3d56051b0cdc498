---------------------------- MODULE AssetProofs -----------------------------
(***************************************************************************)
(* The properties of Asset for an integer of any width, any number of      *)
(* variables and any inputs.                                               *)
(***************************************************************************)
EXTENDS Asset, TLAPS

(* A sum of two amounts is at most 2 * max_amount, which an int64_t holds. *)
LEMMA MaxAmount ==
  /\ max_amount \in Nat
  /\ 2 * max_amount + 1 <= MaxInt
BY AssetAssumption DEF max_amount

(* Wrapping gives an int64_t, and changes nothing that already is one.     *)
LEMMA WrapType == ASSUME NEW x \in Int PROVE Wrap(x) \in int64_t
BY AssetAssumption DEF Wrap, int64_t

LEMMA WrapSame == ASSUME NEW x \in int64_t PROVE Wrap(x) = x
BY AssetAssumption DEF Wrap, int64_t

(* Division by a natural number does not increase a natural number, and    *)
(* at least halves it unless the divisor is 1.                             *)
LEMMA DivBound ==
  ASSUME NEW x \in Nat, NEW d \in Nat \ {0}
  PROVE  /\ x \div d \in Nat
         /\ x \div d <= x
         /\ d > 1 => 2 * (x \div d) <= x
<1> DEFINE q == x \div d
<1>1. q \in Int /\ d * q <= x /\ x < d * q + d
  OBVIOUS
<1>2. q >= 0
  <2> SUFFICES ASSUME q <= -1 PROVE FALSE
    BY <1>1
  <2>1. d * q <= -d
    BY <1>1
  <2> QED BY <1>1, <2>1
<1>3. d * q >= q
  BY <1>1, <1>2
<1>4. d > 1 => d * q >= 2 * q
  BY <1>1, <1>2
<1> QED BY <1>1, <1>2, <1>3, <1>4

(* The quotient of an int64_t is an int64_t, unless it is -min.            *)
LEMMA QuotientType ==
  ASSUME NEW x \in int64_t, NEW d \in int64_t, Divides(x, d)
  PROVE  Quotient(x, d) \in int64_t
<1>1. d \in Int /\ d # 0 /\ x \in Int
  BY AssetAssumption DEF Divides, int64_t
<1>2. Abs(x) \in Nat /\ Abs(d) \in Nat \ {0} /\ Abs(x) <= MaxInt + 1
  BY <1>1, AssetAssumption DEF Abs, int64_t
<1>3. /\ Abs(x) \div Abs(d) \in Nat
      /\ Abs(x) \div Abs(d) <= Abs(x)
      /\ Abs(d) > 1 => 2 * (Abs(x) \div Abs(d)) <= Abs(x)
  BY <1>2, DivBound
<1>4. CASE (x < 0) # (d < 0)
  BY <1>2, <1>3, <1>4, AssetAssumption DEF Quotient, int64_t
<1>5. CASE (x < 0) = (d < 0) /\ Abs(d) > 1
  BY <1>2, <1>3, <1>5, AssetAssumption DEF Quotient, int64_t
<1>6. CASE (x < 0) = (d < 0) /\ Abs(d) = 1
  <2>1. Abs(x) <= MaxInt
    BY <1>1, <1>6, AssetAssumption DEF Abs, Divides, int64_t
  <2> QED BY <1>2, <1>3, <1>6, <2>1, AssetAssumption DEF Quotient, int64_t
<1> QED BY <1>2, <1>4, <1>5, <1>6

(* The quotient of an amount in range is in range.                         *)
LEMMA QuotientRange ==
  ASSUME NEW x \in Int, NEW d \in Int \ {0}, is_amount_within_range(x)
  PROVE  is_amount_within_range(Quotient(x, d))
<1>1. Abs(x) \in Nat /\ Abs(d) \in Nat \ {0} /\ Abs(x) <= max_amount
  BY MaxAmount DEF Abs, is_amount_within_range
<1>2. Abs(x) \div Abs(d) \in Nat /\ Abs(x) \div Abs(d) <= Abs(x)
  BY <1>1, DivBound
<1> QED BY <1>1, <1>2, MaxAmount DEF Quotient, is_amount_within_range

-----------------------------------------------------------------------------
Quantity == [amount : int64_t, symbol : Symbols, contract : Contracts]

(* The part of TypeOK that an operation has to establish.                  *)
LEMMA YieldType ==
  ASSUME TypeOK, NEW ok \in BOOLEAN, NEW r \in Vars, NEW a, NEW x \in Int,
         ok => a \in Quantity, Yield(ok, r, a, x)
  PROVE  TypeOK'
BY DEF TypeOK, Yield, Stop, Quantity

LEMMA StopType ==
  ASSUME TypeOK, NEW how \in {"aborted", "trapped"}, Stop(how)
  PROVE  TypeOK'
BY DEF TypeOK, Stop

(* A checked amount is an int64_t.                                         *)
LEMMA RangeType ==
  ASSUME NEW x \in Int, is_amount_within_range(x) PROVE x \in int64_t
BY MaxAmount, AssetAssumption DEF is_amount_within_range, int64_t

(* An asset whose amount is replaced by an int64_t is an asset.            *)
LEMMA WithAmount ==
  ASSUME NEW a \in Quantity, NEW x \in int64_t
  PROVE  [a EXCEPT !.amount = x] \in Quantity
BY DEF Quantity

(* Each operation keeps the types.                                         *)
LEMMA TypeStep ==
  ASSUME TypeOK, [Next]_vars PROVE TypeOK'
<1>0. CASE UNCHANGED vars
  BY <1>0 DEF TypeOK, vars
<1> SUFFICES ASSUME Next PROVE TypeOK'
  BY <1>0
<1> PICK r \in Vars :
       \/ \E n \in Inputs :
            \/ \E s \in Symbols, c \in Contracts : construct(r, n, s, c) \/ unpack(r, n, s, c)
            \/ set_amount(r, n) \/ multiply(r, n) \/ divide(r, n)
       \/ \E q \in Vars :
            \/ negate(r, q) \/ ratio(r, q)
            \/ \E extended \in BOOLEAN :
                 add(extended, r, q) \/ subtract(extended, r, q) \/ compare(extended, r, q)
  BY DEF Next
<1>t. \A q \in Vars : /\ quantity[q] \in Quantity /\ quantity[q].amount \in int64_t
                      /\ quantity[q].amount \in Int /\ exact[q] \in Int
  BY AssetAssumption DEF TypeOK, Quantity, int64_t
<1>i. Inputs \subseteq int64_t /\ Inputs \subseteq Int
  BY AssetAssumption DEF int64_t
<1>1. ASSUME NEW n \in Inputs, NEW s \in Symbols, NEW c \in Contracts,
             construct(r, n, s, c) \/ unpack(r, n, s, c)
      PROVE  TypeOK'
  <2> DEFINE a == [amount |-> n, symbol |-> s, contract |-> c]
  <2>1. a \in Quantity /\ n \in Int
    BY <1>i DEF Quantity
  <2>2. is_valid(n, s) \in BOOLEAN /\ (Validated => is_valid(n, s)) \in BOOLEAN
    BY DEF is_valid, is_amount_within_range
  <2> QED BY <1>1, <2>1, <2>2, YieldType DEF construct, unpack
<1>2. ASSUME NEW n \in Inputs, set_amount(r, n) PROVE TypeOK'
  <2>1. [quantity[r] EXCEPT !.amount = n] \in Quantity /\ n \in Int
    BY <1>i, <1>t, WithAmount
  <2>2. is_amount_within_range(n) \in BOOLEAN
    BY DEF is_amount_within_range
  <2> QED BY <1>2, <2>1, <2>2, YieldType DEF set_amount
<1>3. ASSUME NEW n \in Inputs, multiply(r, n) PROVE TypeOK'
  <2> DEFINE p == Product(r, n)
  <2>1. p \in Int /\ exact[r] * n \in Int
    BY <1>i, <1>t DEF Product
  <2>2. ProductInRange(p) => [quantity[r] EXCEPT !.amount = p] \in Quantity
    <3> SUFFICES ASSUME ProductInRange(p) PROVE p \in int64_t
      BY <1>t, WithAmount
    <3> QED BY <2>1, RangeType, MaxAmount DEF ProductInRange, is_amount_within_range
  <2>3. ProductInRange(p) \in BOOLEAN
    BY DEF ProductInRange
  <2> QED BY <1>3, <2>1, <2>2, <2>3, YieldType DEF multiply
<1>4. ASSUME NEW n \in Inputs, divide(r, n) PROVE TypeOK'
  <2>1. CASE Stop("aborted") \/ Stop("trapped")
    BY <2>1, StopType
  <2>2. CASE /\ Divides(quantity[r].amount, n)
             /\ Yield(TRUE, r, [quantity[r] EXCEPT !.amount = Quotient(@, n)],
                      Quotient(exact[r], n))
    <3>1. Quotient(quantity[r].amount, n) \in int64_t
      BY <1>i, <1>t, <2>2, QuotientType
    <3>2. [quantity[r] EXCEPT !.amount = Quotient(@, n)]
            = [quantity[r] EXCEPT !.amount = Quotient(quantity[r].amount, n)]
      OBVIOUS
    <3>3. [quantity[r] EXCEPT !.amount = Quotient(quantity[r].amount, n)] \in Quantity
      BY <1>t, <3>1, WithAmount
    <3>4. Quotient(exact[r], n) \in Int
      <4>1. Abs(exact[r]) \in Nat /\ Abs(n) \in Nat \ {0}
        BY <1>i, <1>t, <2>2 DEF Abs, Divides
      <4>2. Abs(exact[r]) \div Abs(n) \in Nat
        BY <4>1, DivBound
      <4> QED BY <4>2 DEF Quotient
    <3> QED BY <2>2, <3>2, <3>3, <3>4, YieldType
  <2> QED BY <1>4, <2>1, <2>2 DEF divide
<1>5. ASSUME NEW q \in Vars, negate(r, q) PROVE TypeOK'
  <2>1. Wrap(-quantity[q].amount) \in int64_t /\ -exact[q] \in Int
    BY <1>t, WrapType
  <2>2. [quantity[q] EXCEPT !.amount = Wrap(-@)]
          = [quantity[q] EXCEPT !.amount = Wrap(-quantity[q].amount)]
    OBVIOUS
  <2>3. [quantity[q] EXCEPT !.amount = Wrap(-quantity[q].amount)] \in Quantity
    BY <1>t, <2>1, WithAmount
  <2> QED BY <1>5, <2>1, <2>2, <2>3, YieldType DEF negate
<1>6. ASSUME NEW q \in Vars, ratio(r, q) PROVE TypeOK'
  BY <1>6, StopType DEF ratio
<1>7. ASSUME NEW q \in Vars, NEW e \in BOOLEAN, add(e, r, q) \/ subtract(e, r, q)
      PROVE  TypeOK'
  <2> DEFINE sum == Wrap(quantity[r].amount + quantity[q].amount)
             dif == Wrap(quantity[r].amount - quantity[q].amount)
  <2>1. sum \in int64_t /\ dif \in int64_t
    BY <1>t, WrapType
  <2>2. /\ [quantity[r] EXCEPT !.amount = sum] \in Quantity
        /\ [quantity[r] EXCEPT !.amount = dif] \in Quantity
    BY <1>t, <2>1, WithAmount
  <2>3. exact[r] + exact[q] \in Int /\ exact[r] - exact[q] \in Int
    BY <1>t
  <2>4. /\ (Compatible(e, r, q) /\ SumInRange(sum)) \in BOOLEAN
        /\ (Compatible(e, r, q) /\ SumInRange(dif)) \in BOOLEAN
    OBVIOUS
  <2> HIDE DEF sum, dif
  <2>5. CASE add(e, r, q)
    BY <2>2, <2>3, <2>4, <2>5, YieldType DEF add, sum
  <2>6. CASE subtract(e, r, q)
    BY <2>2, <2>3, <2>4, <2>6, YieldType DEF subtract, dif
  <2> QED BY <1>7, <2>5, <2>6
<1>8. ASSUME NEW q \in Vars, NEW e \in BOOLEAN, compare(e, r, q) PROVE TypeOK'
  BY <1>8, StopType DEF compare
<1> QED BY <1>1, <1>2, <1>3, <1>4, <1>5, <1>6, <1>7, <1>8

(* The operations keep every amount an int64_t, whatever was unpacked.     *)
THEOREM TypeCorrect == Spec => []TypeOK
<1>1. Init => TypeOK
  BY AssetAssumption DEF Init, TypeOK, int64_t
<1>2. TypeOK /\ [Next]_vars => TypeOK'
  BY TypeStep
<1> QED BY <1>1, <1>2, PTL DEF Spec

-----------------------------------------------------------------------------
(* With validated input all amounts are in range and exact, and nothing    *)
(* traps.  Each part needs the others: a sum is exact because its operands *)
(* are in range, and in range because the sum that is checked is exact.    *)
Sound ==
  /\ \A r \in Vars : is_amount_within_range(quantity[r].amount)
  /\ ArithmeticExact
  /\ NoTrap

LEMMA YieldSound ==
  ASSUME TypeOK, Sound, NEW ok \in BOOLEAN, NEW r \in Vars, NEW a, NEW x,
         ok => is_amount_within_range(a.amount) /\ a.amount = x,
         Yield(ok, r, a, x)
  PROVE  Sound'
<1>1. CASE ok
  BY <1>1 DEF TypeOK, Sound, Yield, Stop, ArithmeticExact, NoTrap
<1>2. CASE ~ok
  BY <1>2 DEF TypeOK, Sound, Yield, Stop, ArithmeticExact, NoTrap
<1> QED BY <1>1, <1>2

LEMMA AbortSound == ASSUME Sound, Stop("aborted") PROVE Sound'
BY DEF Sound, Stop, ArithmeticExact, NoTrap

LEMMA SoundStep ==
  ASSUME Validated, TypeOK, Sound, [Next]_vars PROVE Sound'
<1>0. CASE UNCHANGED vars
  BY <1>0 DEF Sound, vars, ArithmeticExact, NoTrap
<1> SUFFICES ASSUME Next PROVE Sound'
  BY <1>0
<1> PICK r \in Vars :
       \/ \E n \in Inputs :
            \/ \E s \in Symbols, c \in Contracts : construct(r, n, s, c) \/ unpack(r, n, s, c)
            \/ set_amount(r, n) \/ multiply(r, n) \/ divide(r, n)
       \/ \E q \in Vars :
            \/ negate(r, q) \/ ratio(r, q)
            \/ \E extended \in BOOLEAN :
                 add(extended, r, q) \/ subtract(extended, r, q) \/ compare(extended, r, q)
  BY DEF Next
<1>t. \A q \in Vars :
        /\ quantity[q] \in Quantity /\ quantity[q].amount \in Int
        /\ is_amount_within_range(quantity[q].amount)
        /\ quantity[q].amount = exact[q]
  BY AssetAssumption DEF TypeOK, Quantity, int64_t, Sound, ArithmeticExact
<1>i. Inputs \subseteq Int
  BY AssetAssumption DEF int64_t
<1>w. \A a \in Quantity : \A x : [a EXCEPT !.amount = x].amount = x
  BY DEF Quantity
<1>1. ASSUME NEW n \in Inputs, NEW s \in Symbols, NEW c \in Contracts,
             construct(r, n, s, c) \/ unpack(r, n, s, c)
      PROVE  Sound'
  <2> DEFINE a == [amount |-> n, symbol |-> s, contract |-> c]
  <2>1. a.amount = n /\ (is_valid(n, s) => is_amount_within_range(n))
    BY DEF is_valid
  <2>2. is_valid(n, s) \in BOOLEAN /\ (Validated => is_valid(n, s)) \in BOOLEAN
    BY DEF is_valid, is_amount_within_range
  <2> HIDE DEF a
  <2>3. CASE construct(r, n, s, c)
    BY <2>1, <2>2, <2>3, YieldSound DEF construct, a
  <2>4. CASE unpack(r, n, s, c)
    BY <2>1, <2>2, <2>4, YieldSound DEF unpack, a
  <2> QED BY <1>1, <2>3, <2>4
<1>2. ASSUME NEW n \in Inputs, set_amount(r, n) PROVE Sound'
  <2>1. is_amount_within_range(n) \in BOOLEAN
    BY DEF is_amount_within_range
  <2> QED BY <1>2, <1>t, <1>w, <2>1, YieldSound DEF set_amount
<1>3. ASSUME NEW n \in Inputs, multiply(r, n) PROVE Sound'
  <2> DEFINE p == Product(r, n)
             a == [quantity[r] EXCEPT !.amount = p]
  <2>1. a.amount = p /\ p = exact[r] * n
    BY <1>t, <1>w DEF Product
  <2>2. ProductInRange(p) \in BOOLEAN /\ (ProductInRange(p) => is_amount_within_range(p))
    BY <1>t, <1>i, MaxAmount DEF ProductInRange, is_amount_within_range, Product
  <2> HIDE DEF a
  <2> QED BY <1>3, <2>1, <2>2, YieldSound DEF multiply, a
<1>4. ASSUME NEW n \in Inputs, divide(r, n) PROVE Sound'
  <2>1. CASE Stop("aborted")
    BY <2>1, AbortSound
  <2>2. DivisorOK(r, n) <=> Divides(quantity[r].amount, n)
    BY DEF DivisorOK, Divides
  <2>3. CASE /\ Divides(quantity[r].amount, n)
             /\ Yield(TRUE, r, [quantity[r] EXCEPT !.amount = Quotient(@, n)],
                      Quotient(exact[r], n))
    <3> DEFINE a == [quantity[r] EXCEPT !.amount = Quotient(@, n)]
    <3>1. a.amount = Quotient(exact[r], n)
      BY <1>t, <1>w
    <3>2. is_amount_within_range(Quotient(exact[r], n))
      BY <1>t, <1>i, <2>3, QuotientRange DEF Divides
    <3> HIDE DEF a
    <3> QED BY <2>3, <3>1, <3>2, YieldSound DEF a
  <2> QED BY <1>4, <2>1, <2>2, <2>3 DEF divide
<1>5. ASSUME NEW q \in Vars, negate(r, q) PROVE Sound'
  <2> DEFINE a == [quantity[q] EXCEPT !.amount = Wrap(-@)]
  <2>1. is_amount_within_range(-quantity[q].amount) /\ -quantity[q].amount \in Int
    BY <1>t, MaxAmount DEF is_amount_within_range
  <2>2. Wrap(-quantity[q].amount) = -quantity[q].amount
    BY <2>1, RangeType, WrapSame
  <2>3. a.amount = -exact[q] /\ is_amount_within_range(a.amount)
    BY <1>t, <1>w, <2>1, <2>2
  <2> HIDE DEF a
  <2> QED BY <1>5, <2>3, YieldSound DEF negate, a
<1>6. ASSUME NEW q \in Vars, ratio(r, q) PROVE Sound'
  <2>1. quantity[q].amount # 0 => Divides(quantity[r].amount, quantity[q].amount)
    BY <1>t, MaxAmount, AssetAssumption DEF Divides, is_amount_within_range
  <2> QED BY <1>6, <2>1, AbortSound DEF ratio
<1>7. ASSUME NEW q \in Vars, NEW e \in BOOLEAN, add(e, r, q) PROVE Sound'
  <2> DEFINE sum == Wrap(quantity[r].amount + quantity[q].amount)
             a == [quantity[r] EXCEPT !.amount = sum]
  <2>1. quantity[r].amount + quantity[q].amount \in int64_t
    BY <1>t, MaxAmount, AssetAssumption DEF is_amount_within_range, int64_t
  <2>2. sum = exact[r] + exact[q]
    BY <1>t, <2>1, WrapSame
  <2>3. a.amount = sum
    BY <1>t, <1>w
  <2> HIDE DEF sum, a
  <2>4. SumInRange(sum) => is_amount_within_range(sum)
    BY DEF SumInRange, is_amount_within_range
  <2>5. (Compatible(e, r, q) /\ SumInRange(sum)) \in BOOLEAN
    OBVIOUS
  <2> QED BY <1>7, <2>2, <2>3, <2>4, <2>5, YieldSound DEF add, sum, a
<1>8. ASSUME NEW q \in Vars, NEW e \in BOOLEAN, subtract(e, r, q) PROVE Sound'
  <2> DEFINE sum == Wrap(quantity[r].amount - quantity[q].amount)
             a == [quantity[r] EXCEPT !.amount = sum]
  <2>1. quantity[r].amount - quantity[q].amount \in int64_t
    BY <1>t, MaxAmount, AssetAssumption DEF is_amount_within_range, int64_t
  <2>2. sum = exact[r] - exact[q]
    BY <1>t, <2>1, WrapSame
  <2>3. a.amount = sum
    BY <1>t, <1>w
  <2> HIDE DEF sum, a
  <2>4. SumInRange(sum) => is_amount_within_range(sum)
    BY DEF SumInRange, is_amount_within_range
  <2>5. (Compatible(e, r, q) /\ SumInRange(sum)) \in BOOLEAN
    OBVIOUS
  <2> QED BY <1>8, <2>2, <2>3, <2>4, <2>5, YieldSound DEF subtract, sum, a
<1>9. ASSUME NEW q \in Vars, NEW e \in BOOLEAN, compare(e, r, q) PROVE Sound'
  BY <1>9, AbortSound DEF compare
<1> QED BY <1>1, <1>2, <1>3, <1>4, <1>5, <1>6, <1>7, <1>8, <1>9

LEMMA SoundAlways == ASSUME Validated PROVE Spec => []Sound
<1>1. Init => Sound
  BY MaxAmount DEF Init, Sound, is_amount_within_range, ArithmeticExact, NoTrap
<1>2. TypeOK /\ Sound /\ [Next]_vars => Sound'
  BY SoundStep
<1> QED BY <1>1, <1>2, TypeCorrect, PTL DEF Spec

(* No sequence of operations on validated input leaves an amount above the *)
(* cap of asset.hpp.                                                       *)
THEOREM Capped == Spec => []AmountsInRange
<1>1. CASE Validated
  <2>1. Sound => AmountsInRange
    BY DEF Sound, AmountsInRange
  <2>2. Spec => []Sound
    BY <1>1, SoundAlways
  <2> QED BY <2>1, <2>2, PTL
<1>2. CASE ~Validated
  <2>1. AmountsInRange
    BY <1>2 DEF AmountsInRange
  <2> QED BY <2>1, PTL
<1> QED BY <1>1, <1>2

(* On validated input the arithmetic of asset is that of the integers.     *)
THEOREM Exactness == ASSUME Validated PROVE Spec => []ArithmeticExact
<1>1. Sound => ArithmeticExact
  BY DEF Sound
<1>2. Spec => []Sound
  BY SoundAlways
<1> QED BY <1>1, <1>2, PTL

(* On validated input no division traps.                                   *)
THEOREM DivisionsDefined == ASSUME Validated PROVE Spec => []NoTrap
<1>1. Sound => NoTrap
  BY DEF Sound
<1>2. Spec => []Sound
  BY SoundAlways
<1> QED BY <1>1, <1>2, PTL
=============================================================================
