---------------------------- MODULE MCMallocHeap ----------------------------
(***************************************************************************)
(* MallocHeap with pages of 32 bytes, of which the instance has two and    *)
(* may get two more: room for a static heap of three small buffers and a   *)
(* second heap that is expanded once.  The sizes asked for become buffers  *)
(* of 12, 28 and 52 bytes: two small ones merge into a middle one, and a   *)
(* large one needs memory to grow twice.                                   *)
(***************************************************************************)
EXTENDS MallocHeap

MCCallocArgs == {<<5, 5>>}
=============================================================================
