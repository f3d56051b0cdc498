--------------------------- MODULE DsMallocProofs ---------------------------
(***************************************************************************)
(* What DsMalloc guarantees for every page limit, heap base and set of     *)
(* request sizes.  The argument is arithmetic: while the action lives the  *)
(* bump pointer is inside the granted memory, so a request the host grants *)
(* cannot have wrapped, and then one page beside the whole pages suffices. *)
(***************************************************************************)
EXTENDS DsMalloc, TLAPS

\* The strengthening: blocks lie below the bump pointer, which is aligned and
\* inside the memory the host granted.
PointerOK ==
  ~aborted => /\ last_ptr % 8 = 0
              /\ HeapBase <= last_ptr
              /\ last_ptr <= mem * PageSize

BlocksBelowPointer ==
  /\ aborted => blocks = {}
  /\ \A b \in blocks : b.addr % 8 = 0 /\ HeapBase <= b.addr /\ End(b) <= last_ptr

IInv == TypeOK /\ PointerOK /\ BlocksBelowPointer /\ BlocksDisjoint /\ WasteBounded

-----------------------------------------------------------------------------
\* A size_t keeps a value that fits (the conversion in operator()).
LEMMA SizeFits == \A x \in Nat : x < SizeMod => Size_t(x) = x
  BY DsMallocAssumption DEF Size_t, SizeMod, PageSize

\* Every size_t is below the modulus.
LEMMA SizeRange == \A x \in Nat : Size_t(x) \in 0 .. SizeMod - 1
  BY DsMallocAssumption DEF Size_t, SizeMod, PageSize

\* align() rounds up to a multiple of 8 by less than 8.
LEMMA AlignUp ==
  \A x \in Nat : /\ Align(x) \in Nat /\ Align(x) % 8 = 0
                 /\ x <= Align(x) /\ Align(x) < x + 8
  BY DEF Align

\* The call of operator() that the host grants: nothing wraps, the new pointer
\* covers the block, and the slack is within its bound.
LEMMA GrantedRequest ==
  ASSUME TypeOK, ~aborted, PointerOK, WasteBounded,
         NEW sz \in 1 .. SizeMod - 1,
         mem + PagesToAlloc(sz) <= MaxPages
  PROVE  /\ PagesToAlloc(sz) \in Nat
         /\ NewPtr(sz) \in Nat
         /\ NewPtr(sz) % 8 = 0
         /\ last_ptr + sz <= NewPtr(sz)
         /\ NewPtr(sz) <= (mem + PagesToAlloc(sz)) * PageSize
         /\ \/ (mem + PagesToAlloc(sz)) * PageSize - NewPtr(sz) <= PageSize
            \/ (mem + PagesToAlloc(sz)) * PageSize - NewPtr(sz)
                  <= InitPages * PageSize - Align(HeapBase)
<1> DEFINE q == WholePages(sz)
           e == ExtraPage(sz)
           a == Align(last_ptr + sz)
<1>1. /\ last_ptr \in Nat /\ mem \in Nat /\ sz \in Nat /\ next_page = mem
      /\ last_ptr <= mem * 65536 /\ last_ptr % 8 = 0
  BY DsMallocAssumption DEF TypeOK, PointerOK, WasteBounded, PageSize, SizeMod
<1>2. /\ q \in Nat /\ q * 65536 <= sz /\ sz < q * 65536 + 65536
  BY <1>1 DEF WholePages, PageSize
<1>3. e \in {0, 1} /\ mem + q + e <= MaxPages /\ PagesToAlloc(sz) = q + e
  BY <1>1, <1>2 DEF ExtraPage, PagesToAlloc
<1>4. /\ a \in Nat /\ a % 8 = 0 /\ last_ptr + sz <= a /\ a < last_ptr + sz + 8
  BY <1>1, AlignUp, SMTT(30)
<1>5. a <= (mem + q + 1) * 65536
  BY <1>1, <1>2, <1>4
<1>6. /\ (mem + q) * 65536 \in Nat /\ (mem + q) * 65536 < SizeMod /\ a < SizeMod
  <2>1. mem + q + 1 < AddrPages
    BY <1>1, <1>2, <1>3, DsMallocAssumption
  <2> QED BY <2>1, <1>1, <1>2, <1>4, <1>5, DsMallocAssumption DEF SizeMod, PageSize
<1>7. NewPtr(sz) = a
  BY <1>4, <1>6, SizeFits DEF NewPtr
<1>8. e = IF (mem + q) * 65536 <= a THEN 1 ELSE 0
  BY <1>1, <1>6, <1>7, SizeFits DEF ExtraPage, PageSize
<1>9. a <= (mem + q + e) * 65536
  BY <1>1, <1>2, <1>3, <1>4, <1>5, <1>8
<1>10. \/ (mem + q + e) * 65536 - a <= 65536
       \/ (mem + q + e) * 65536 - a <= mem * 65536 - last_ptr
  BY <1>1, <1>2, <1>3, <1>4, <1>8
<1>11. Align(HeapBase) \in Nat /\ InitPages \in Nat
  BY AlignUp, DsMallocAssumption
<1>12. \/ (mem + q + e) * 65536 - a <= 65536
       \/ (mem + q + e) * 65536 - a <= InitPages * 65536 - Align(HeapBase)
  BY <1>1, <1>2, <1>3, <1>4, <1>10, <1>11 DEF WasteBounded, PageSize
<1> QED
  BY <1>1, <1>2, <1>3, <1>4, <1>7, <1>9, <1>12 DEF PageSize

-----------------------------------------------------------------------------
\* The shared body of malloc, calloc and realloc keeps the strengthening, for
\* any of the held blocks that the call leaves to its clients.
LEMMA AllocateInv ==
  ASSUME IInv, ~aborted, NEW sz \in 0 .. SizeMod - 1,
         NEW kept \in SUBSET blocks, Allocate(sz, kept)
  PROVE  IInv'
<1> USE DEF IInv
<1>1. CASE sz = 0
  <2>1. blocks' = kept /\ UNCHANGED <<last_ptr, next_page, mem, aborted>>
    BY <1>1 DEF Allocate
  <2> QED
    BY <2>1 DEF TypeOK, PointerOK, BlocksBelowPointer, BlocksDisjoint,
                WasteBounded, Disjoint, End
<1>2. CASE sz # 0 /\ mem + PagesToAlloc(sz) <= MaxPages
  <2> DEFINE nb == [addr |-> last_ptr, len |-> sz]
             g == PagesToAlloc(sz)
  <2>1. /\ last_ptr' = NewPtr(sz) /\ next_page' = next_page + g
        /\ mem' = mem + g /\ aborted' = FALSE /\ blocks' = kept \cup {nb}
    BY <1>2 DEF Allocate, GrowMemory
  <2>2. /\ g \in Nat /\ NewPtr(sz) \in Nat /\ NewPtr(sz) % 8 = 0
        /\ last_ptr + sz <= NewPtr(sz) /\ NewPtr(sz) <= (mem + g) * PageSize
        /\ \/ (mem + g) * PageSize - NewPtr(sz) <= PageSize
           \/ (mem + g) * PageSize - NewPtr(sz) <= InitPages * PageSize - Align(HeapBase)
    BY <1>2, GrantedRequest
  <2>3. /\ last_ptr \in Nat /\ mem \in Nat /\ sz \in Nat /\ sz > 0
        /\ last_ptr % 8 = 0 /\ HeapBase <= last_ptr /\ next_page = mem
        /\ HeapBase \in Nat /\ nb \in Block
    BY <1>2, DsMallocAssumption DEF TypeOK, PointerOK, WasteBounded, Block
  <2>4. TypeOK'
    <3>1. NewPtr(sz) \in 0 .. SizeMod - 1
      BY <1>2, <2>2, <2>3, DsMallocAssumption DEF PageSize, SizeMod
    <3>2. mem + g \in InitPages .. MaxPages
      BY <1>2, <2>2, DsMallocAssumption DEF TypeOK
    <3>3. kept \cup {nb} \subseteq Block
      BY <2>3 DEF TypeOK
    <3>4. next_page + g \in Nat
      BY <2>2, <2>3
    <3> QED BY <2>1, <3>1, <3>2, <3>3, <3>4 DEF TypeOK
  <2>5. PointerOK'
    BY <2>1, <2>2, <2>3 DEF PointerOK
  <2>6. BlocksBelowPointer'
    <3>1. ASSUME NEW b \in kept
          PROVE  b.addr % 8 = 0 /\ HeapBase <= b.addr /\ End(b) <= NewPtr(sz)
      BY <2>2, <2>3 DEF BlocksBelowPointer, TypeOK, Block, End
    <3>2. nb.addr % 8 = 0 /\ HeapBase <= nb.addr /\ End(nb) <= NewPtr(sz)
      BY <2>2, <2>3 DEF End
    <3> QED BY <2>1, <3>1, <3>2 DEF BlocksBelowPointer, End
  <2>7. BlocksDisjoint'
    <3>1. \A b \in kept : Disjoint(b, nb) /\ Disjoint(nb, b)
      BY <2>3 DEF BlocksBelowPointer, Disjoint, End
    <3>2. \A b, c \in kept : b # c => Disjoint(b, c)
      BY DEF BlocksDisjoint
    <3>3. nb.addr % 8 = 0 /\ \A b \in kept : b.addr % 8 = 0
      BY <2>3 DEF BlocksDisjoint
    <3>4. \A b, c \in kept \cup {nb} : b # c => Disjoint(b, c)
      BY <3>1, <3>2
    <3> QED BY <2>1, <3>3, <3>4 DEF BlocksDisjoint, Disjoint, End
  <2>8. WasteBounded'
    BY <2>1, <2>2, <2>3 DEF WasteBounded
  <2> QED BY <2>4, <2>5, <2>6, <2>7, <2>8
<1>3. CASE sz # 0 /\ ~(mem + PagesToAlloc(sz) <= MaxPages)
  <2>1. /\ last_ptr' = NewPtr(sz) /\ next_page' = next_page + PagesToAlloc(sz)
        /\ mem' = mem /\ aborted' = TRUE /\ blocks' = {}
    BY <1>3 DEF Allocate, GrowMemory
  <2>2. NewPtr(sz) \in 0 .. SizeMod - 1
    <3>1. last_ptr + sz \in Nat
      BY DEF TypeOK
    <3> QED BY <3>1, AlignUp, SizeRange DEF NewPtr
  <2>3. PagesToAlloc(sz) \in Nat
    BY DEF PagesToAlloc, WholePages, ExtraPage, PageSize
  <2>4. TypeOK'
    BY <2>1, <2>2, <2>3 DEF TypeOK
  <2> QED
    BY <2>1, <2>4 DEF PointerOK, BlocksBelowPointer, BlocksDisjoint, WasteBounded
<1> QED BY <1>1, <1>2, <1>3

\* The constructor establishes the strengthening.
LEMMA InitInv == Init => IInv
<1> SUFFICES ASSUME Init PROVE IInv
  OBVIOUS
<1>1. /\ Align(HeapBase) \in Nat /\ Align(HeapBase) % 8 = 0
      /\ HeapBase <= Align(HeapBase) /\ Align(HeapBase) < HeapBase + 8
  BY AlignUp, DsMallocAssumption
<1>2. Align(HeapBase) <= InitPages * 65536
  BY <1>1, DsMallocAssumption DEF PageSize
<1>3. Align(HeapBase) \in 0 .. SizeMod - 1
  BY <1>1, <1>2, DsMallocAssumption DEF SizeMod, PageSize
<1>4. TypeOK /\ BlocksBelowPointer /\ BlocksDisjoint
  <2>1. InitPages \in Nat /\ InitPages \in InitPages .. MaxPages
    BY DsMallocAssumption
  <2>2. TypeOK
    BY <1>3, <2>1 DEF Init, TypeOK
  <2>3. BlocksBelowPointer /\ BlocksDisjoint
    BY DEF Init, BlocksBelowPointer, BlocksDisjoint
  <2> QED BY <2>2, <2>3
<1>5. PointerOK
  BY <1>1, <1>2 DEF Init, PointerOK, PageSize
<1>6. WasteBounded
  BY <1>1, DsMallocAssumption DEF Init, WasteBounded, PageSize
<1> QED BY <1>4, <1>5, <1>6 DEF IInv

\* Every call keeps the strengthening.
LEMMA NextInv == IInv /\ [Next]_vars => IInv'
<1> SUFFICES ASSUME IInv, [Next]_vars PROVE IInv'
  OBVIOUS
<1>1. ASSUME NEW sz \in Sizes, Malloc(sz) PROVE IInv'
  BY <1>1, AllocateInv, DsMallocAssumption DEF Malloc
<1>2. ASSUME NEW x \in CallocArgs, Calloc(x[1], x[2]) PROVE IInv'
  <2>1. x[1] * x[2] \in Nat
    <3>1. x[1] \in Nat /\ x[2] \in Nat
      BY DsMallocAssumption
    <3> QED BY <3>1
  <2>2. Size_t(x[1] * x[2]) \in 0 .. SizeMod - 1
    BY <2>1, SizeRange
  <2> QED BY <1>2, <2>2, AllocateInv DEF Calloc
<1>3. ASSUME NEW b \in blocks, NEW sz \in Sizes, Realloc(b, sz) PROVE IInv'
  BY <1>3, AllocateInv, DsMallocAssumption DEF Realloc
<1>4. ASSUME NEW b \in blocks, Free(b) PROVE IInv'
  BY <1>4 DEF Free, IInv, TypeOK, PointerOK, BlocksBelowPointer, BlocksDisjoint,
              WasteBounded, Disjoint, End
<1>5. CASE UNCHANGED vars
  BY <1>5 DEF vars, IInv, TypeOK, PointerOK, BlocksBelowPointer, BlocksDisjoint,
              WasteBounded, Disjoint, End
<1> QED BY <1>1, <1>2, <1>3, <1>4, <1>5 DEF Next

\* The strengthening holds in every reachable state of the allocator.
THEOREM Inductive == Spec => []IInv
  BY InitInv, NextInv, PTL DEF Spec

\* The allocator's words keep their types, whatever is asked of it.
THEOREM TypeCorrect == Spec => []TypeOK
<1>1. IInv => TypeOK
  BY DEF IInv
<1> QED BY <1>1, Inductive, PTL

\* Every block malloc, calloc and realloc hand out lies inside the memory the
\* host has granted, for every page limit and every sequence of requests.
THEOREM InsideMemory == Spec => []BlocksInMemory
<1>1. IInv => BlocksInMemory
  <2> SUFFICES ASSUME IInv, NEW b \in blocks
               PROVE  HeapBase <= b.addr /\ End(b) <= mem * PageSize
    BY DEF BlocksInMemory
  <2>1. ~aborted /\ HeapBase <= b.addr /\ End(b) <= last_ptr
    BY DEF IInv, BlocksBelowPointer
  <2>2. last_ptr <= mem * PageSize
    BY <2>1 DEF IInv, PointerOK
  <2>3. b.addr \in Nat /\ b.len \in Nat /\ last_ptr \in Nat /\ mem * PageSize \in Nat
    BY DsMallocAssumption DEF IInv, TypeOK, Block, PageSize
  <2> QED BY <2>1, <2>2, <2>3 DEF End
<1> QED BY <1>1, Inductive, PTL

\* Held blocks never overlap and are 8-byte aligned.
THEOREM NoOverlap == Spec => []BlocksDisjoint
<1>1. IInv => BlocksDisjoint
  BY DEF IInv
<1> QED BY <1>1, Inductive, PTL

\* next_page is the host's page count, and the slack beyond last_ptr is bounded.
THEOREM Waste == Spec => []WasteBounded
<1>1. IInv => WasteBounded
  BY DEF IInv
<1> QED BY <1>1, Inductive, PTL

\* No call that returns moves the bump pointer backwards: wrapping requests abort.
THEOREM Monotonic == Spec => PointerMonotonic
<1> DEFINE Forward == ~aborted' => last_ptr' >= last_ptr
<1>1. ASSUME IInv, ~aborted, NEW sz \in 0 .. SizeMod - 1,
             NEW kept \in SUBSET blocks, Allocate(sz, kept)
      PROVE  Forward
  <2>1. last_ptr \in Nat
    BY <1>1 DEF IInv, TypeOK
  <2>2. CASE sz = 0
    BY <1>1, <2>1, <2>2 DEF Allocate
  <2>3. CASE sz # 0 /\ mem + PagesToAlloc(sz) <= MaxPages
    <3>1. last_ptr + sz <= NewPtr(sz) /\ NewPtr(sz) \in Nat
      BY <1>1, <2>3, GrantedRequest DEF IInv
    <3>2. last_ptr' = NewPtr(sz)
      BY <1>1, <2>3 DEF Allocate
    <3> QED BY <2>1, <3>1, <3>2
  <2>4. CASE sz # 0 /\ ~(mem + PagesToAlloc(sz) <= MaxPages)
    BY <1>1, <2>4 DEF Allocate, GrowMemory
  <2> QED BY <2>2, <2>3, <2>4
<1>2. IInv /\ [Next]_vars => [Forward]_vars
  <2> SUFFICES ASSUME IInv, Next PROVE Forward
    BY DEF vars
  <2>1. ASSUME NEW sz \in Sizes, Malloc(sz) PROVE Forward
    BY <1>1, <2>1, DsMallocAssumption DEF Malloc
  <2>2. ASSUME NEW x \in CallocArgs, Calloc(x[1], x[2]) PROVE Forward
    <3>1. x[1] \in Nat /\ x[2] \in Nat
      BY DsMallocAssumption
    <3>2. Size_t(x[1] * x[2]) \in 0 .. SizeMod - 1
      BY <3>1, SizeRange
    <3> QED BY <1>1, <2>2, <3>2 DEF Calloc
  <2>3. ASSUME NEW b \in blocks, NEW sz \in Sizes, Realloc(b, sz) PROVE Forward
    BY <1>1, <2>3, DsMallocAssumption DEF Realloc
  <2>4. ASSUME NEW b \in blocks, Free(b) PROVE Forward
    BY <2>4 DEF Free, IInv, TypeOK
  <2> QED BY <2>1, <2>2, <2>3, <2>4 DEF Next
<1>3. IInv /\ [Next]_vars => [~aborted' => last_ptr' >= last_ptr]_vars
  BY <1>2
<1> QED BY <1>3, Inductive, PTL DEF Spec, PointerMonotonic
=============================================================================
