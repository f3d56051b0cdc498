----------------------------- MODULE MCDsMalloc -----------------------------
(***************************************************************************)
(* DsMalloc in an address space of 16 pages, of which the host grants 3.   *)
(* The sizes stand for: nothing, a fraction of a page, the last size that  *)
(* stays within a page once aligned, a whole page, and two that wrap the   *)
(* pointer computation; two of the calloc products wrap around.            *)
(***************************************************************************)
EXTENDS DsMalloc

MCAddrPages == 16
MCMaxPages == 3
MCInitPages == 1
MCHeapBase == 8197
MCSizes == {0, 40001, 65529, 65536, 16 * 65536 - 65536, 16 * 65536 - 8}
MCCallocArgs == {<<5, 9000>>, <<65536, 16>>, <<68036, 16>>}
=============================================================================
