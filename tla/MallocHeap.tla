----------------------------- MODULE MallocHeap -----------------------------
(***************************************************************************)
(* memory_manager of libraries/uosiolib/malloc.cpp, the allocator that a   *)
(* contract gets with -use-freeing-malloc.                                 *)
(*                                                                         *)
(* Memory comes in heaps: the static _initial_heap, then what sbrk adds.   *)
(* A heap is cut into buffers from its start up to _offset, each behind a  *)
(* word with its size and an "allocated" bit.  Buffers are cut from the    *)
(* rest until the host refuses to grow memory; only then are freed buffers *)
(* looked for, and merged on the way.                                      *)
(*                                                                         *)
(* A call runs in steps: pc says where it is, and no other call starts     *)
(* before it has returned.  Words above _offset have never been written    *)
(* and read as zero; the contents of buffers are not modelled.  Addresses  *)
(* and sizes are bytes, and no request is so large that a size_t wraps.    *)
(***************************************************************************)
EXTENDS Integers, Sequences

CONSTANTS InitialHeap,      \* address of _initial_heap
          InitialHeapSize,  \* _initial_heap_size (8192)
          PageSize,         \* wasm_page_size (65536)
          MinRemaining,     \* what a page must have left to be worth it (1024)
          InitPages,        \* pages at instantiation
          MaxPages,         \* pages the host lets one instance have
          Sizes,            \* the sizes clients ask malloc for
          CallocArgs,       \* the <<count, size>> pairs they pass to calloc
          ReallocSizes      \* the sizes they ask realloc for

ASSUME MallocHeapAssumption ==
  /\ InitialHeap \in Nat \ {0} /\ InitialHeapSize \in Nat /\ PageSize \in Nat \ {0}
  /\ InitPages \in Nat /\ MaxPages \in Nat /\ InitPages <= MaxPages
  /\ InitialHeapSize % 8 = 0 /\ PageSize % 8 = 0 /\ InitialHeapSize > 0
  /\ MinRemaining \in 1 .. PageSize
  /\ InitialHeap + InitialHeapSize < InitPages * PageSize
  /\ Sizes \subseteq Nat /\ ReallocSizes \subseteq Nat
  /\ CallocArgs \subseteq (Nat \X Nat)

VARIABLES
  heaps,        \* _available_heaps, those that are initialized
  active,       \* _active_heap
  active_free,  \* _active_free_heap
  actual,       \* _heaps_actual_size
  mem,          \* pages of linear memory (host)
  word,         \* address -> the size word there
  blocks,       \* address -> size asked for, of the buffers clients hold
  pc,           \* where the call in progress is
  req,          \* its arguments
  cur,          \* the buffer the search or the merge is at
  possible,     \* possible_size of the merge
  end_free,     \* end_free_heap of the search
  res           \* what the last call returned

locals == <<cur, possible, end_free>>
vars == <<heaps, active, active_free, actual, mem, word, blocks, pc, req,
          cur, possible, end_free, res>>

Heap == [base : Nat, size : Nat, offset : Nat]
SizeWord == [size : Nat, alloc : BOOLEAN]
Request == [len : Nat, size : Nat, old : Nat]
NoRequest == [len |-> 0, size |-> 0, old |-> 0]

heaps_size == 16
size_marker == 4
mem_block == 8

\* A buffer and its size word together fill whole blocks of 8.
adjust_to_mem_block(size) ==
  LET remainder == (size + size_marker) % mem_block
  IN  IF remainder > 0 THEN size + mem_block - remainder ELSE size

Init ==
  /\ heaps = <<>> /\ active = 0 /\ active_free = 0 /\ actual = 0
  /\ mem = InitPages
  /\ word = <<>>
  /\ blocks = <<>>
  /\ pc = "idle" /\ req = NoRequest
  /\ cur = 0 /\ possible = 0 /\ end_free = 0
  /\ res = "none"

-----------------------------------------------------------------------------
(* Size words.                                                             *)

Set(a, size, alloc) ==
  [x \in DOMAIN word \cup {a} |->
     IF x = a THEN [size |-> size, alloc |-> alloc] ELSE word[x]]

Read(a) == IF a \in DOMAIN word THEN word[a] ELSE [size |-> 0, alloc |-> FALSE]

WordOf(ptr) == word[ptr - size_marker]

\* The buffer at ptr takes [ptr, ptr + to), and what is left of the merged
\* space becomes a free buffer.  The words inside are contents from now on.
\* Mutant: a rest is cut off even when nothing is left.
CombinedAlways(ptr, to, total, alloc) ==
  [x \in {a \in DOMAIN word : a < ptr \/ ptr + total <= a} \cup {ptr + to} |->
     IF x = ptr + to THEN [size |-> total - to - size_marker, alloc |-> FALSE]
     ELSE IF x = ptr - size_marker THEN [size |-> to, alloc |-> alloc]
     ELSE word[x]]
Combined(ptr, to, total, alloc) ==
  LET inside == {a \in DOMAIN word : ptr <= a /\ a < ptr + total}
      rest == IF total > to THEN {ptr + to} ELSE {}
  IN  [x \in (DOMAIN word \ inside) \cup rest |->
         IF x \in rest THEN [size |-> total - to - size_marker, alloc |-> FALSE]
         ELSE IF x = ptr - size_marker THEN [size |-> to, alloc |-> alloc]
         ELSE word[x]]

Freed(w, ptr) == [w EXCEPT ![ptr - size_marker].alloc = FALSE]

End(h) == h.base + h.size
Top(h) == h.base + h.offset
Active == heaps[active + 1]

InHeap(h, ptr) == h.base + size_marker <= ptr /\ ptr < End(h)

\* The call returns a buffer: realloc then frees the old one; or null.
EndCall == pc' = "idle" /\ cur' = 0 /\ possible' = 0 /\ end_free' = 0

\* Mutant: the old buffer is not freed.
ReturnKeepingOld(ptr, w) ==
  /\ EndCall /\ res' = "buffer" /\ req' = NoRequest
  /\ word' = w
  /\ blocks' = [p \in (DOMAIN blocks \ {req.old}) \cup {ptr} |->
                  IF p = ptr THEN req.len ELSE blocks[p]]
Return(ptr, w) ==
  /\ EndCall /\ res' = "buffer" /\ req' = NoRequest
  /\ word' = IF req.old = 0 THEN w ELSE Freed(w, req.old)
  /\ blocks' = [p \in (DOMAIN blocks \ {req.old}) \cup {ptr} |->
                  IF p = ptr THEN req.len ELSE blocks[p]]

ReturnNull ==
  /\ EndCall /\ res' = "null"
  /\ UNCHANGED blocks

-----------------------------------------------------------------------------
(* malloc.                                                                 *)

\* Entry of malloc_from_freed, with its check, on heap i of hs.
EnterHeap(hs, i) ==
  /\ pc' = IF hs[i + 1].offset = hs[i + 1].size THEN "search" ELSE "aborted"
  /\ cur' = hs[i + 1].base + size_marker

\* The search for freed buffers starts at the heap where the last one ended.
StartSearch(hs) ==
  /\ EnterHeap(hs, active_free)
  /\ end_free' = active_free
  /\ possible' = 0

\* Up to the loop.  Only heap 0 is initialized here.
EnterMalloc(len, old) ==
  /\ req' = [len |-> len, size |-> adjust_to_mem_block(len), old |-> old]
  /\ res' = "none"
  /\ actual' = IF actual = 0 THEN heaps_size ELSE actual
  /\ heaps' = IF heaps = <<>>
              THEN <<[base |-> InitialHeap, size |-> InitialHeapSize, offset |-> 0]>>
              ELSE heaps
  /\ \/ active < actual' /\ pc' = "alloc" /\ cur' = 0 /\ possible' = 0 /\ end_free' = 0
     \/ active >= actual' /\ StartSearch(heaps)
  /\ UNCHANGED <<active, active_free, mem, word, blocks>>

malloc(len) ==
  /\ pc = "idle"
  /\ \/ len # 0 /\ EnterMalloc(len, 0)
     \/ /\ len = 0 /\ res' = "none" /\ req' = NoRequest
        /\ UNCHANGED <<heaps, active, active_free, actual, mem, word, blocks, pc, locals>>

\* memset then fills the block.
calloc(count, size) == malloc(count * size)

\* memory::malloc on the active heap.
Fits == Active.offset + req.size + size_marker <= Active.size

memory_malloc ==
  /\ pc = "alloc" /\ Fits
  /\ heaps' = [heaps EXCEPT ![active + 1].offset = @ + req.size + size_marker]
  /\ Return(Top(Active) + size_marker, Set(Top(Active), req.size, TRUE))
  /\ UNCHANGED <<active, active_free, actual, mem>>

\* sbrk_bytes: nothing else moves the break, so it is at the end of memory.
Break == mem * PageSize

\* How far next_active_heap moves the break: to the end of a page.
heap_adj ==
  IF (Break % PageSize) <= PageSize - MinRemaining THEN PageSize - (Break % PageSize)
  ELSE 2 * PageSize - (Break % (2 * PageSize))

\* sbrk(heap_adj): the pages it asks the host for.
PagesFor(bytes) == (Break + bytes + PageSize - 1) \div PageSize - mem

\* cleanup_remaining: the rest of the active heap becomes a free buffer.
\* Mutants: its size word is not deducted; _offset is not moved.
CleanedWordsWhole ==
  IF Active.offset = Active.size THEN word
  ELSE Set(Top(Active), Active.size - Active.offset, FALSE)
CleanedHeapsOpen == heaps
CleanedWords ==
  IF Active.offset = Active.size THEN word
  ELSE Set(Top(Active), Active.size - Active.offset - size_marker, FALSE)
CleanedHeaps == [heaps EXCEPT ![active + 1].offset = Active.size]

\* next_active_heap when the host grants the pages.
GrowActiveHeap ==
  /\ pc = "alloc" /\ ~Fits
  /\ mem + PagesFor(heap_adj) <= MaxPages
  /\ mem' = mem + PagesFor(heap_adj)
  /\ \/ /\ End(Active) = Break               \* expand_memory
        /\ heaps' = [heaps EXCEPT ![active + 1].size = @ + heap_adj]
        /\ UNCHANGED <<active, word>>
     \/ /\ End(Active) # Break
        /\ word' = CleanedWords
        /\ active' = active + 1
        /\ heaps' = Append(CleanedHeaps,
                           [base |-> Break, size |-> heap_adj, offset |-> 0])
  /\ UNCHANGED <<active_free, actual, blocks, pc, req, locals, res>>

\* next_active_heap when the host refuses.  The answer, a char* of 32 bits, is
\* compared with -1 as an int64_t: where that conversion extends with zeros
\* the refusal is missed, and the first use of the "heap" at the last address
\* traps.
RefuseActiveHeap ==
  /\ pc = "alloc" /\ ~Fits
  /\ mem + PagesFor(heap_adj) > MaxPages
  /\ \/ /\ word' = CleanedWords
        /\ heaps' = CleanedHeaps
        /\ active' = active + 1
        /\ actual' = active + 1
        /\ StartSearch(CleanedHeaps)
     \/ /\ pc' = "trapped"
        /\ UNCHANGED <<heaps, active, actual, word, locals>>
  /\ UNCHANGED <<active_free, mem, blocks, req, res>>

-----------------------------------------------------------------------------
(* malloc_from_freed and the loop around it.                               *)

FreeHeap == heaps[active_free + 1]

\* Mutant: the last heap is not followed by the first.
NextFreeHeapUnwrapped == IF active_free + 1 = actual THEN active_free ELSE active_free + 1
NextFreeHeap == IF active_free + 1 = actual THEN 0 ELSE active_free + 1

\* On to the buffer after ptr, to the next heap, or out of the loop.
Advance(w, size) ==
  LET next == cur + size + size_marker
  IN  \/ /\ next < End(FreeHeap)
         /\ pc' = "search" /\ cur' = next /\ possible' = 0 /\ word' = w
         /\ UNCHANGED <<active_free, blocks, end_free, res>>
      \/ /\ next >= End(FreeHeap)
         /\ active_free' = NextFreeHeap
         /\ word' = w
         /\ \/ /\ NextFreeHeap = end_free
               /\ ReturnNull
            \/ /\ NextFreeHeap # end_free
               /\ EnterHeap(heaps, NextFreeHeap) /\ possible' = 0
               /\ UNCHANGED <<blocks, end_free, res>>

SkipAllocated ==
  /\ pc = "search" /\ WordOf(cur).alloc
  /\ Advance(word, WordOf(cur).size)
  /\ UNCHANGED <<heaps, active, actual, mem, req>>

StartMerge ==
  /\ pc = "search" /\ ~WordOf(cur).alloc
  /\ pc' = "merge"
  /\ possible' = WordOf(cur).size
  /\ UNCHANGED <<heaps, active, active_free, actual, mem, word, blocks, req, cur,
                 end_free, res>>

\* merge_contiguous, one turn of its loop, for the search and for realloc.
MergeHeap == IF pc = "merge" THEN FreeHeap
             ELSE heaps[CHOOSE i \in 1 .. Len(heaps) : InHeap(heaps[i], cur)]

\* Mutants: the allocated bit is not looked at; nothing is merged.
MoreToMergeAny ==
  possible < req.size /\ cur + possible < End(MergeHeap)
MoreToMergeNever == FALSE
MoreToMerge ==
  /\ possible < req.size
  /\ cur + possible < End(MergeHeap)
  /\ ~Read(cur + possible).alloc

MergeNext ==
  /\ pc \in {"merge", "extend"} /\ MoreToMerge
  /\ possible' = possible + Read(cur + possible).size + size_marker
  /\ UNCHANGED <<heaps, active, active_free, actual, mem, word, blocks, pc, req,
                 cur, end_free, res>>

\* The end of merge_contiguous in the search.
MergeFound ==
  /\ pc = "merge" /\ ~MoreToMerge /\ possible >= req.size
  /\ Return(cur, Combined(cur, req.size, possible, TRUE))
  /\ UNCHANGED <<heaps, active, active_free, actual, mem>>

MergeTooSmall ==
  /\ pc = "merge" /\ ~MoreToMerge /\ possible < req.size
  /\ Advance(Combined(cur, possible, possible, FALSE), possible)
  /\ UNCHANGED <<heaps, active, actual, mem, req>>

-----------------------------------------------------------------------------
(* realloc and free.                                                       *)

free(ptr) ==
  /\ pc = "idle"
  /\ word' = Freed(word, ptr)
  /\ blocks' = [p \in DOMAIN blocks \ {ptr} |-> blocks[p]]
  /\ res' = "none" /\ req' = NoRequest
  /\ UNCHANGED <<heaps, active, active_free, actual, mem, pc, locals>>

\* free(nullptr) does nothing and realloc(nullptr, len) is malloc(len).
\* realloc(ptr, len) of a buffer in heaps[i], by the cases of realloc_in_place.
Resize(i, ptr, len) ==
  LET size == adjust_to_mem_block(len)
      orig == WordOf(ptr).size
      fits == ptr + size <= End(heaps[i])
      last == ptr + orig = Top(heaps[i])
      InPlace ==
        /\ blocks' = [blocks EXCEPT ![ptr] = len]
        /\ res' = "buffer" /\ req' = NoRequest
        /\ UNCHANGED <<active, active_free, actual, mem, pc, locals>>
  IN  \/ ~fits /\ EnterMalloc(len, ptr)
      \* Cut off: a size word is written at ptr + size, inside the buffer as its
      \* own word still describes it, where nothing will read it.
      \/ fits /\ orig > size /\ InPlace /\ UNCHANGED <<heaps, word>>
      \/ /\ fits /\ orig <= size /\ last
         /\ word' = Set(ptr - size_marker, size, TRUE)
         /\ heaps' = [heaps EXCEPT ![i].offset = @ + size - orig]
         /\ InPlace
      \/ fits /\ orig = size /\ ~last /\ InPlace /\ UNCHANGED <<heaps, word>>
      \/ /\ fits /\ orig < size /\ ~last
         /\ pc' = "extend"
         /\ req' = [len |-> len, size |-> size, old |-> ptr]
         /\ cur' = ptr /\ possible' = orig
         /\ res' = "none"
         /\ UNCHANGED <<heaps, active, active_free, actual, mem, word, blocks, end_free>>

realloc(ptr, len) ==
  \/ len = 0 /\ free(ptr)
  \/ /\ len # 0 /\ pc = "idle"
     /\ \E i \in 1 .. Len(heaps) : InHeap(heaps[i], ptr) /\ Resize(i, ptr, len)

\* merge_contiguous_if_available is all or nothing.
ExtendDone ==
  /\ pc = "extend" /\ ~MoreToMerge /\ possible >= req.size
  /\ word' = Combined(cur, req.size, possible, TRUE)
  /\ blocks' = [blocks EXCEPT ![cur] = req.len]
  /\ EndCall /\ res' = "buffer" /\ req' = NoRequest
  /\ UNCHANGED <<heaps, active, active_free, actual, mem>>

ExtendFailed ==
  /\ pc = "extend" /\ ~MoreToMerge /\ possible < req.size
  /\ EnterMalloc(req.len, cur)

-----------------------------------------------------------------------------
Step ==
  \/ memory_malloc \/ GrowActiveHeap \/ RefuseActiveHeap
  \/ SkipAllocated \/ StartMerge \/ MergeNext \/ MergeFound \/ MergeTooSmall
  \/ ExtendDone \/ ExtendFailed

Next ==
  \/ \E len \in Sizes : malloc(len)
  \/ \E a \in CallocArgs : calloc(a[1], a[2])
  \/ \E ptr \in DOMAIN blocks, len \in ReallocSizes : realloc(ptr, len)
  \/ \E ptr \in DOMAIN blocks : free(ptr)
  \/ Step

\* A call that has been entered runs on; nobody has to make another.
Spec == Init /\ [][Next]_vars /\ WF_vars(Step)

-----------------------------------------------------------------------------
(* Type invariant.                                                         *)
TypeOK ==
  /\ heaps \in Seq(Heap)
  /\ active \in 0 .. Len(heaps) /\ active_free \in 0 .. Len(heaps)
  /\ actual \in {0, heaps_size, Len(heaps)}
  /\ mem \in InitPages .. MaxPages
  /\ DOMAIN word \subseteq Nat /\ \A a \in DOMAIN word : word[a] \in SizeWord
  /\ DOMAIN blocks \subseteq Nat /\ \A p \in DOMAIN blocks : blocks[p] \in Nat
  /\ pc \in {"idle", "alloc", "search", "merge", "extend", "aborted", "trapped"}
  /\ req \in Request
  /\ cur \in Nat /\ possible \in Nat /\ end_free \in Nat
  /\ res \in {"none", "buffer", "null"}

WordsIn(h) == {a \in DOMAIN word : h.base <= a /\ a < End(h)}
After(a) == a + size_marker + word[a].size

(* The size words cut each heap, from its start to _offset, into buffers   *)
(* without gap or overlap, whatever was split, merged or expanded: the     *)
(* walks of malloc_from_freed and merge_contiguous only read size words.   *)
WordsTileHeaps ==
  \A i \in 1 .. Len(heaps) :
    LET h == heaps[i] IN
    /\ h.offset <= h.size
    /\ h.offset > 0 => h.base \in WordsIn(h)
    /\ \A a \in WordsIn(h) :
         /\ After(a) = Top(h) \/ (After(a) < Top(h) /\ After(a) \in WordsIn(h))
         /\ \A b \in WordsIn(h) : b <= a \/ After(a) <= b

(* A buffer is marked as allocated exactly while a client holds it, and it *)
(* is as large as the client asked: nothing leaks, also when realloc moves *)
(* a block or malloc fails half way, and nothing is handed out twice.      *)
AllocatedIsHeld ==
  /\ \A p \in DOMAIN blocks : p - size_marker \in DOMAIN word
  /\ \A a \in DOMAIN word :
       /\ word[a].alloc <=> a + size_marker \in DOMAIN blocks
       /\ word[a].alloc => blocks[a + size_marker] <= word[a].size

(* What clients hold never overlaps, and lies in memory the host granted.  *)
BlocksDisjoint ==
  \A p \in DOMAIN blocks :
    /\ p + blocks[p] <= mem * PageSize
    /\ \A q \in DOMAIN blocks : q <= p \/ p + blocks[p] <= q

Run(a, b) == {x \in DOMAIN word : a <= x /\ x <= b}

(* malloc and realloc return null only when no run of adjacent free        *)
(* buffers of any heap is large enough: the search covers every heap and   *)
(* merges everything that can be merged.                                   *)
NullOnlyWhenFull ==
  (pc = "idle" /\ res = "null") =>
    \A i \in 1 .. Len(heaps) : \A a, b \in WordsIn(heaps[i]) :
      (a <= b /\ \A x \in Run(a, b) : ~word[x].alloc)
        => After(b) - (a + size_marker) < req.size

(* "malloc_from_freed was designed to only be called after _heap was       *)
(* completely allocated": its check never fails.                           *)
SearchesFullHeaps == pc # "aborted"

(* Every call returns, unless the instance traps for want of memory: the   *)
(* loop over growing heaps, the search around all of them and the merge    *)
(* inside it all end.                                                      *)
CallsReturn == pc # "idle" ~> pc \in {"idle", "trapped"}

(* "if ALLOCed then done with contiguous free memory": a buffer that grows *)
(* takes over freed buffers, and stops where they stop.                    *)
MergesFreedOnly == pc = "extend" => cur + possible <= Top(MergeHeap)
=============================================================================
