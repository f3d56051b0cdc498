---------------------------- MODULE OrderedTable ----------------------------
(***************************************************************************)
(* What a contract may rely on when it uses one multi_index object: a      *)
(* table of rows with unique primary keys, walked in the order of the      *)
(* primary key and in the order of <<secondary key, primary key>>.  A row  *)
(* is abstracted to its secondary key.  There are no caches, no iterator   *)
(* handles and no second table for the index here.                         *)
(*                                                                         *)
(* call is the last call and res its answer: <<>> for the end iterator and *)
(* <<primary key, secondary key>> for an iterator to a row.  A failed      *)
(* check aborts the action, and the host then drops what the action did.   *)
(***************************************************************************)
EXTENDS Integers, Sequences

CONSTANTS Keys,  \* the primary keys clients use
          Secs,  \* the secondary keys clients use
          MaxU   \* the largest uint64_t

VARIABLES rows, own, call, res, aborted

vars == <<rows, own, call, res, aborted>>

PkBefore(a, b) == a < b

SecBefore(a, b) == rows[a] < rows[b] \/ (rows[a] = rows[b] /\ a < b)

\* k is the element of S that comes first in the order Before.
IsFirst(k, S, Before(_, _)) == k \in S /\ \A j \in S : j = k \/ Before(k, j)

IsLast(k, S, Before(_, _)) == k \in S /\ \A j \in S : j = k \/ Before(j, k)

Called(op, arg) == call' = [op |-> op, arg |-> arg]

Answer(r) == res' = r /\ UNCHANGED <<own, aborted>>

\* A query: it answers and leaves the rows alone.
Tell(r) == Answer(r) /\ UNCHANGED rows

Fail == aborted' = TRUE /\ res' = <<>> /\ UNCHANGED <<rows, own>>

Row(k) == <<k, rows[k]>>

\* The first (last) row of S in an order, or the end iterator (a failed check).
TellFirst(S, Before(_, _)) ==
  \/ S = {} /\ Tell(<<>>)
  \/ \E k \in S : IsFirst(k, S, Before) /\ Tell(Row(k))

TellLast(S, Before(_, _)) ==
  \/ S = {} /\ Fail
  \/ \E k \in S : IsLast(k, S, Before) /\ Tell(Row(k))

-----------------------------------------------------------------------------
All == DOMAIN rows

Following(pk, Before(_, _)) == {k \in All : Before(pk, k)}

Preceding(pk, Before(_, _)) == {k \in All : Before(k, pk)}

Emplace(pk, s) ==
  /\ Called("emplace", <<pk, s>>)
  /\ \/ /\ own /\ pk \notin All
        /\ rows' = [k \in All \cup {pk} |-> IF k = pk THEN s ELSE rows[k]]
        /\ Answer(<<pk, s>>)
     \/ (~own \/ pk \in All) /\ Fail

\* The row's primary key cannot change; a modification of an existing row in a
\* table of one's own never fails.
Modify(pk, s) ==
  /\ Called("modify", <<pk, s>>)
  /\ \/ own /\ rows' = [rows EXCEPT ![pk] = s] /\ Answer(<<pk, s>>)
     \/ ~own /\ Fail

ModifyKey(pk) == Called("modify_key", <<pk>>) /\ Fail

Without(pk) == [k \in All \ {pk} |-> rows[k]]

EraseObject(pk) ==
  /\ Called("erase_object", <<pk>>)
  /\ \/ own /\ rows' = Without(pk) /\ Answer(<<>>)
     \/ ~own /\ Fail

\* erase(itr) answers with the row that followed in the order of the iterator.
EraseIn(pk, Before(_, _)) ==
  LET S == Following(pk, Before) IN
  \/ /\ own /\ rows' = Without(pk)
     /\ \/ S = {} /\ Answer(<<>>)
        \/ \E k \in S : IsFirst(k, S, Before) /\ Answer(Row(k))
  \/ ~own /\ Fail

Erase(pk) == Called("erase", <<pk>>) /\ EraseIn(pk, PkBefore)

EraseSec(pk) == Called("idx_erase", <<pk>>) /\ EraseIn(pk, SecBefore)

Find(pk) == Called("find", <<pk>>) /\ TellFirst(All \cap {pk}, PkBefore)

RequireFind(pk) ==
  Called("require_find", <<pk>>) /\ TellLast(All \cap {pk}, PkBefore)

LowerBound(pk) ==
  Called("lower_bound", <<pk>>) /\ TellFirst({k \in All : k >= pk}, PkBefore)

UpperBound(pk) ==
  Called("upper_bound", <<pk>>) /\ TellFirst({k \in All : k > pk}, PkBefore)

Increment(pk) == Called("next", <<pk>>) /\ TellFirst(Following(pk, PkBefore), PkBefore)

Decrement(pk) == Called("prev", <<pk>>) /\ TellLast(Preceding(pk, PkBefore), PkBefore)

DecrementEnd == Called("prev", <<>>) /\ TellLast(All, PkBefore)

\* A key above every row, or the table appears to be full.
AvailablePrimaryKey ==
  /\ Called("available_primary_key", <<>>)
  /\ \/ \E k \in 0 .. MaxU - 2 : (\A j \in All : j < k) /\ Tell(<<k>>)
     \/ Fail

SecLowerBound(s) ==
  Called("idx_lower_bound", <<s>>) /\ TellFirst({k \in All : rows[k] >= s}, SecBefore)

SecUpperBound(s) ==
  Called("idx_upper_bound", <<s>>) /\ TellFirst({k \in All : rows[k] > s}, SecBefore)

SecFind(s) ==
  Called("idx_find", <<s>>) /\ TellFirst({k \in All : rows[k] = s}, SecBefore)

SecRequireFind(s) ==
  LET S == {k \in All : rows[k] = s} IN
  /\ Called("idx_require_find", <<s>>)
  /\ \/ S = {} /\ Fail
     \/ \E k \in S : IsFirst(k, S, SecBefore) /\ Tell(Row(k))

SecIteratorTo(pk) == Called("idx_iterator_to", <<pk>>) /\ Tell(Row(pk))

SecIncrement(pk) ==
  Called("idx_next", <<pk>>) /\ TellFirst(Following(pk, SecBefore), SecBefore)

SecDecrement(pk) ==
  Called("idx_prev", <<pk>>) /\ TellLast(Preceding(pk, SecBefore), SecBefore)

SecDecrementEnd == Called("idx_prev", <<>>) /\ TellLast(All, SecBefore)

\* The action ends and another one starts, maybe on another contract's table.
Commit ==
  /\ Called("commit", <<>>)
  /\ res' = <<>>
  /\ own' \in BOOLEAN
  /\ UNCHANGED <<rows, aborted>>

-----------------------------------------------------------------------------
Init ==
  /\ rows \in UNION {[D -> Secs] : D \in SUBSET Keys}
  /\ own \in BOOLEAN
  /\ call = [op |-> "commit", arg |-> <<>>]
  /\ res = <<>>
  /\ aborted = FALSE

\* Calls on a row are made through an iterator or a reference to it.
OnRow(pk) ==
  \/ Erase(pk) \/ EraseObject(pk) \/ EraseSec(pk) \/ ModifyKey(pk)
  \/ Increment(pk) \/ Decrement(pk)
  \/ SecIncrement(pk) \/ SecDecrement(pk) \/ SecIteratorTo(pk)
  \/ \E s \in Secs : Modify(pk, s)

Step ==
  \/ \E pk \in Keys :
       \/ Find(pk) \/ RequireFind(pk) \/ LowerBound(pk) \/ UpperBound(pk)
       \/ \E s \in Secs : Emplace(pk, s)
       \/ OnRow(pk) /\ pk \in All
  \/ \E s \in Secs : \/ SecLowerBound(s) \/ SecUpperBound(s)
                     \/ SecFind(s) \/ SecRequireFind(s)
  \/ DecrementEnd \/ SecDecrementEnd \/ AvailablePrimaryKey \/ Commit

Next == ~aborted /\ Step

Spec == Init /\ [][Next]_vars
=============================================================================
