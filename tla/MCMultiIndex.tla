---------------------------- MODULE MCMultiIndex ----------------------------
(***************************************************************************)
(* Instances of MultiIndex for TLC.  A uint64_t has 4 or 5 values, and the *)
(* two largest are the tags of _next_primary_key; the keys clients use     *)
(* include a tag.  Instances are interchangeable.                          *)
(***************************************************************************)
EXTENDS MultiIndex, TLC

InstanceSymmetry == Permutations(Instances)

\* No step depends on the last call and its answer, nor does the step of the
\* ordered table, which only sets them: states that differ in nothing else
\* have the same future.
StateView == <<prim, idx, gen, own, items, next_pk, aborted>>
=============================================================================
