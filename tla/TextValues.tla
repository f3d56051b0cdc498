----------------------------- MODULE TextValues -----------------------------
(***************************************************************************)
(* What a contract that uses uosio::rope may rely on: strings as values.   *)
(* The tests compare every rope with a std::string that went through the   *)
(* same operations; these are those strings.                               *)
(***************************************************************************)
EXTENDS Sequences

CONSTANTS Ropes,    \* the rope objects of the contract
          Pieces    \* the strings it builds them from

VARIABLE text       \* the value of each rope

Init == text = [r \in Ropes |-> <<>>]

Assign(r, s) == text' = [text EXCEPT ![r] = s]

Next ==
  \E r \in Ropes :
    \/ \E s \in Pieces : Assign(r, s) \/ Assign(r, text[r] \o s)
    \/ \E q \in Ropes : Assign(r, text[q]) \/ Assign(r, text[r] \o text[q])

Spec == Init /\ [][Next]_text
=============================================================================
