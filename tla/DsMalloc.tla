------------------------------ MODULE DsMalloc ------------------------------
(***************************************************************************)
(* The contract allocator of libraries/uosiolib/simple_malloc.cpp: a bump  *)
(* pointer over WebAssembly linear memory, linked by default (-luosio_dsm).*)
(* One block is handed out per call, free() does nothing, and memory is    *)
(* grown by whole pages just before the call returns.  A failed check ends *)
(* the action: the instance, and its heap with it, is discarded.           *)
(*                                                                         *)
(* size_t is 32 bits wide in the WASM build.  The width is the parameter   *)
(* AddrPages, the number of pages the address space holds (65536 there),   *)
(* so that arithmetic wraps at AddrPages * PageSize.                       *)
(***************************************************************************)
EXTENDS Integers

CONSTANTS AddrPages,   \* pages in the address space of a size_t
          MaxPages,    \* pages the host lets one instance have
          InitPages,   \* pages at instantiation
          HeapBase,    \* the word the linker leaves at address 0
          Sizes,       \* the sizes clients ask malloc and realloc for
          CallocArgs   \* the <<count, size>> pairs clients pass to calloc

PageSize == 65536

Align(p) == ((p + 7) \div 8) * 8

SizeMod == AddrPages * PageSize

\* Initial data and stack fit in the initial memory, and the host's limit is
\* more than a page below the address space (a chain allows 33 MiB of 4 GiB).
ASSUME DsMallocAssumption ==
  /\ AddrPages \in Nat /\ MaxPages \in Nat /\ InitPages \in Nat
  /\ InitPages <= MaxPages /\ MaxPages + 1 < AddrPages
  /\ HeapBase \in Nat /\ HeapBase <= InitPages * PageSize
  /\ Sizes \subseteq 0 .. SizeMod - 1
  /\ CallocArgs \subseteq (Nat \X Nat)

VARIABLES
  last_ptr,   \* dsmalloc::last_ptr
  next_page,  \* dsmalloc::next_page
  mem,        \* pages of linear memory the instance has (host)
  blocks,     \* the blocks handed out that their clients still hold
  aborted     \* "failed to allocate pages" ended the action

vars == <<last_ptr, next_page, mem, blocks, aborted>>

Block == [addr : Nat, len : Nat]

Size_t(x) == x % SizeMod

Init ==
  /\ last_ptr = Align(HeapBase)
  /\ next_page = InitPages
  /\ mem = InitPages
  /\ blocks = {}
  /\ aborted = FALSE

-----------------------------------------------------------------------------
(* dsmalloc::operator().  The pointer and the page count move first, and    *)
(* only then is the host asked for the pages.                               *)

\* Mutant: the pointer is not aligned.
NewPtrUnaligned(sz) == Size_t(last_ptr + sz)
NewPtr(sz) == Size_t(Align(last_ptr + sz))

WholePages(sz) == sz \div PageSize

\* The one page more that the request may need beside its whole pages.
\* Mutants: it is never asked for; it is asked for every time.
ExtraPageNever(sz) == 0
ExtraPageAlways(sz) == 1
ExtraPage(sz) ==
  IF Size_t((next_page + WholePages(sz)) * PageSize) <= NewPtr(sz) THEN 1 ELSE 0

PagesToAlloc(sz) == WholePages(sz) + ExtraPage(sz)

\* __builtin_wasm_grow_memory: all the pages or none.  Mutants: the check of
\* its answer is dropped; the host's limit is.
GrowMemoryUnchecked(pages, ok) ==
  /\ ok = TRUE
  /\ mem' = IF mem + pages <= MaxPages THEN mem + pages ELSE mem
GrowMemoryUnlimited(pages, ok) ==
  /\ ok = TRUE
  /\ mem' = mem + pages
GrowMemory(pages, ok) ==
  /\ ok = (mem + pages <= MaxPages)
  /\ mem' = IF ok THEN mem + pages ELSE mem

Allocate(sz, kept) ==
  \/ /\ sz = 0
     /\ blocks' = kept
     /\ UNCHANGED <<last_ptr, next_page, mem, aborted>>
  \/ /\ sz # 0
     /\ last_ptr' = NewPtr(sz)
     /\ next_page' = next_page + PagesToAlloc(sz)
     /\ \E ok \in BOOLEAN :
          /\ GrowMemory(PagesToAlloc(sz), ok)
          /\ aborted' = ~ok
          /\ blocks' = IF ok THEN kept \cup {[addr |-> last_ptr, len |-> sz]}
                             ELSE {}

Malloc(sz) == ~aborted /\ Allocate(sz, blocks)

\* count*size is a size_t product; memset touches the block that results.
Calloc(count, size) == ~aborted /\ Allocate(Size_t(count * size), blocks)

\* A fresh block; the old one is neither read nor reused.
Realloc(b, sz) == ~aborted /\ Allocate(sz, blocks \ {b})

Free(b) ==
  /\ ~aborted
  /\ blocks' = blocks \ {b}
  /\ UNCHANGED <<last_ptr, next_page, mem, aborted>>

Next ==
  \/ \E sz \in Sizes : Malloc(sz)
  \/ \E a \in CallocArgs : Calloc(a[1], a[2])
  \/ \E b \in blocks, sz \in Sizes : Realloc(b, sz)
  \/ \E b \in blocks : Free(b)

Spec == Init /\ [][Next]_vars

-----------------------------------------------------------------------------
(* Type invariant: the allocator's words stay in their ranges.             *)
TypeOK ==
  /\ last_ptr \in 0 .. SizeMod - 1
  /\ next_page \in Nat
  /\ mem \in InitPages .. MaxPages
  /\ blocks \subseteq Block
  /\ aborted \in BOOLEAN

End(b) == b.addr + b.len

Disjoint(b, c) == End(b) <= c.addr \/ End(c) <= b.addr

(* Whatever sequence of calls was made, with sizes up to the whole address *)
(* space, every block a client holds lies inside the memory the host has   *)
(* really granted: one page beside the whole pages of the request is       *)
(* always enough, even though last_ptr + sz may wrap around.               *)
BlocksInMemory ==
  \A b \in blocks : HeapBase <= b.addr /\ End(b) <= mem * PageSize

(* Blocks never overlap, and each is aligned to 8 bytes, also after        *)
(* realloc and free.                                                       *)
BlocksDisjoint ==
  /\ \A b \in blocks : b.addr % 8 = 0
  /\ \A b, c \in blocks : b # c => Disjoint(b, c)

(* The page count that the allocator keeps for itself never drifts from    *)
(* the host's as long as the action lives, and neither runs ahead: what is *)
(* granted beyond last_ptr is at most the slack at start-up or one page.   *)
WasteBounded ==
  ~aborted =>
    /\ next_page = mem
    /\ \/ mem * PageSize - last_ptr <= PageSize
       \/ mem * PageSize - last_ptr <= InitPages * PageSize - Align(HeapBase)

(* A call that returns never moves the bump pointer back: a request that   *)
(* wraps the address computation is refused by the host every time.        *)
PointerMonotonic == [][~aborted' => last_ptr' >= last_ptr]_vars

=============================================================================
