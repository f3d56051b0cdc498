-------------------------- MODULE MallocHeapProofs --------------------------
(***************************************************************************)
(* The freeing allocator for every memory size, every page limit and every *)
(* sequence of calls: its size words tile the heaps, what is marked as     *)
(* allocated is what clients hold, blocks never overlap, and null means    *)
(* that no heap has room.                                                  *)
(*                                                                         *)
(* The theorems speak of behaviours in which no buffer grows beyond        *)
(* _offset ([]MergesFreedOnly): merge_contiguous permits that, and then    *)
(* they are false.  A client that never asks realloc for another size has  *)
(* only such behaviours, which is proved as well.                          *)
(***************************************************************************)
EXTENDS MallocHeap, TLAPS, SequenceTheorems

USE DEF size_marker, heaps_size

-----------------------------------------------------------------------------
(* The inductive invariant.                                                *)

\* At most the static heap, which ends before the break, and one at the break.
Shape(hs, brk) ==
  /\ Len(hs) <= 2
  /\ \A i \in 1 .. Len(hs) :
       /\ hs[i].base > 0 /\ hs[i].size > 0
       /\ hs[i].size % 8 = 0 /\ hs[i].offset % 8 = 0
       /\ hs[i].offset <= hs[i].size
       /\ End(hs[i]) <= brk
  /\ Len(hs) = 1 => End(hs[1]) < brk
  /\ Len(hs) = 2 => End(hs[1]) < hs[2].base /\ End(hs[2]) = brk

\* The three phases of the manager: before the first call, while heaps grow,
\* and after the host has refused.
Fresh ==
  /\ heaps = <<>> /\ active = 0 /\ active_free = 0 /\ actual = 0
  /\ pc = "idle"
Growing ==
  /\ Len(heaps) > 0 /\ active + 1 = Len(heaps) /\ active_free = 0
  /\ actual = heaps_size
  /\ pc \in {"idle", "alloc", "extend", "trapped"}
  /\ \A i \in 1 .. active : heaps[i].offset = heaps[i].size
Exhausted ==
  /\ Len(heaps) > 0 /\ active = Len(heaps) /\ active_free < Len(heaps)
  /\ actual = active
  /\ pc \in {"idle", "search", "merge", "extend"}
  /\ \A i \in 1 .. Len(heaps) : heaps[i].offset = heaps[i].size
Phase == Fresh \/ Growing \/ Exhausted

Words(w) == DOMAIN w \subseteq Nat /\ \A a \in DOMAIN w : w[a] \in SizeWord
Following(w, a) == a + size_marker + w[a].size
Taken(w) == {a \in DOMAIN w : w[a].alloc}
Within(h, a) == h.base <= a /\ a < End(h)

\* A size that fills whole blocks together with its word.
Sized(n) == (n + size_marker) % mem_block = 0

\* WordsTileHeaps, with the words of all heaps together.
Tiles(w, h) ==
  /\ h.offset > 0 => h.base \in DOMAIN w
  /\ \A a \in DOMAIN w : Within(h, a) =>
       \/ Following(w, a) = Top(h)
       \/ Following(w, a) < Top(h) /\ Following(w, a) \in DOMAIN w
Apart(w) == \A a, b \in DOMAIN w : b <= a \/ Following(w, a) <= b
Tiled(w, hs) ==
  /\ \A a \in DOMAIN w :
       /\ Sized(w[a].size)
       /\ \E i \in 1 .. Len(hs) : Within(hs[i], a)
  /\ Apart(w)
  /\ \A i \in 1 .. Len(hs) : Tiles(w, hs[i])

Held(w, bs) ==
  /\ \A p \in DOMAIN bs :
       /\ p - size_marker \in Taken(w)
       /\ bs[p] <= w[p - size_marker].size
  /\ \A a \in Taken(w) : a + size_marker \in DOMAIN bs

\* merge_contiguous has come from word to word over free buffers only.
Merging(w, h, at, total) ==
  /\ Sized(total)
  /\ w[at - size_marker].size <= total
  /\ \/ at + total = Top(h)
     \/ at + total < Top(h) /\ at + total \in DOMAIN w
  /\ \A a \in Taken(w) : a < at \/ at + total <= a

\* What the call in progress knows.
Asked ==
  /\ Sized(req.size) /\ req.len <= req.size
  /\ req.old = 0 \/ req.old \in DOMAIN blocks
AtBuffer ==
  /\ end_free < Len(heaps)
  /\ cur - size_marker \in DOMAIN word
  /\ Within(FreeHeap, cur - size_marker)
Calls ==
  /\ pc \in {"alloc", "search", "merge", "extend"} => Asked
  /\ pc \in {"search", "merge"} => AtBuffer
  /\ pc = "merge" => cur - size_marker \notin Taken(word)
  /\ pc = "extend" => req.old = cur /\ cur \in DOMAIN blocks
  /\ pc \in {"merge", "extend"} => Merging(word, MergeHeap, cur, possible)

\* From word a to word b all buffers are free.
FreeRun(w, a, b) == a <= b /\ \A x \in Taken(w) : x < a \/ b < x

\* No run of free buffers in h is large enough; none of those that start
\* before address at, and none of these goes beyond it.
NoRoom(w, h, need) ==
  \A a, b \in DOMAIN w :
    (Within(h, a) /\ Within(h, b) /\ FreeRun(w, a, b))
      => Following(w, b) - (a + size_marker) < need
NoRoomBefore(w, h, at, need) ==
  \A a, b \in DOMAIN w :
    (Within(h, a) /\ Within(h, b) /\ a < at /\ FreeRun(w, a, b))
      => b < at /\ Following(w, b) - (a + size_marker) < need

\* The heaps from end_free around to the one before active_free.
Done(i) ==
  \/ end_free <= active_free /\ end_free < i /\ i <= active_free
  \/ active_free < end_free /\ (end_free < i \/ i <= active_free)

Searched ==
  /\ pc \in {"search", "merge"} =>
       /\ NoRoomBefore(word, FreeHeap, cur - size_marker, req.size)
       /\ \A i \in 1 .. Len(heaps) : Done(i) => NoRoom(word, heaps[i], req.size)
  /\ pc = "idle" /\ res = "null" =>
       \A i \in 1 .. Len(heaps) : NoRoom(word, heaps[i], req.size)

IInv ==
  /\ TypeOK
  /\ Shape(heaps, Break)
  /\ Phase
  /\ Tiled(word, heaps)
  /\ Held(word, blocks)
  /\ Calls
  /\ Searched

-----------------------------------------------------------------------------
(* What the updates of the words do, one predicate for each: sizes here,   *)
(* marks in Taken.                                                         *)

SameSizes(w, v) ==
  /\ DOMAIN v = DOMAIN w
  /\ \A a \in DOMAIN w : v[a].size = w[a].size
Written(w, v, at, size) ==
  /\ DOMAIN v = DOMAIN w \cup {at}
  /\ v[at].size = size
  /\ \A a \in DOMAIN w : a # at => v[a].size = w[a].size
Joined(w, v, ptr, to, total) ==
  /\ DOMAIN v = {a \in DOMAIN w : a < ptr \/ ptr + total <= a}
                  \cup (IF total > to THEN {ptr + to} ELSE {})
  /\ \A a \in DOMAIN v :
       v[a].size = IF total > to /\ a = ptr + to THEN total - to - size_marker
                   ELSE IF a = ptr - size_marker THEN to
                   ELSE w[a].size

\* Heap i of hs has another offset in gs, nothing else changes.
OffsetMoved(hs, gs, i, offset) ==
  /\ Len(gs) = Len(hs)
  /\ \A j \in 1 .. Len(hs) :
       /\ gs[j].base = hs[j].base /\ gs[j].size = hs[j].size
       /\ gs[j].offset = IF j = i THEN offset ELSE hs[j].offset

LEMMA SetWritten ==
  ASSUME Words(word), NEW at \in Nat, NEW size \in Nat, NEW alloc \in BOOLEAN
  PROVE  /\ Words(Set(at, size, alloc))
         /\ Written(word, Set(at, size, alloc), at, size)
         /\ Taken(Set(at, size, alloc)) =
              (Taken(word) \ {at}) \cup (IF alloc THEN {at} ELSE {})
<1> DEFINE v == Set(at, size, alloc)
<1>1. DOMAIN v = DOMAIN word \cup {at}
  BY DEF Set
<1>2. v[at] = [size |-> size, alloc |-> alloc]
  BY DEF Set
<1>3. \A a \in DOMAIN word : a # at => v[a] = word[a]
  BY DEF Set
<1> HIDE DEF v
<1>4. v[at] \in SizeWord /\ v[at].size = size /\ v[at].alloc = alloc
  BY <1>2 DEF SizeWord
<1>5. Words(v)
  BY <1>1, <1>3, <1>4 DEF Words
<1>6. Written(word, v, at, size)
  BY <1>1, <1>3, <1>4 DEF Written
<1>7. Taken(v) = (Taken(word) \ {at}) \cup (IF alloc THEN {at} ELSE {})
  BY <1>1, <1>3, <1>4, Zenon DEF Taken
<1> QED BY <1>5, <1>6, <1>7 DEF v

LEMMA FreedSame ==
  ASSUME NEW w, Words(w), NEW ptr
  PROVE  /\ Words(Freed(w, ptr))
         /\ SameSizes(w, Freed(w, ptr))
         /\ Taken(Freed(w, ptr)) = Taken(w) \ {ptr - size_marker}
<1> DEFINE v == Freed(w, ptr)
           k == ptr - size_marker
<1>1. DOMAIN v = DOMAIN w
  BY DEF Freed
<1>2. \A a \in DOMAIN w : a # k => v[a] = w[a]
  BY DEF Freed
<1>3. ASSUME k \in DOMAIN w
      PROVE  v[k] \in SizeWord /\ v[k].size = w[k].size /\ v[k].alloc = FALSE
  <2>1. w[k] \in SizeWord
    BY <1>3 DEF Words
  <2>2. v[k] = [w[k] EXCEPT !.alloc = FALSE]
    BY <1>3 DEF Freed
  <2> QED BY <2>1, <2>2 DEF SizeWord
<1> HIDE DEF v, k
<1>4. Words(v)
  BY <1>1, <1>2, <1>3 DEF Words
<1>5. SameSizes(w, v)
  BY <1>1, <1>2, <1>3 DEF SameSizes
<1>6. Taken(v) = Taken(w) \ {k}
  BY <1>1, <1>2, <1>3, Zenon DEF Taken
<1> QED BY <1>4, <1>5, <1>6 DEF v, k

LEMMA CombinedJoined ==
  ASSUME Words(word), NEW ptr \in Nat, NEW to \in Nat, NEW total \in Nat,
         to < total => to + size_marker <= total,
         NEW alloc \in BOOLEAN,
         ptr - size_marker \in DOMAIN word
  PROVE  /\ Words(Combined(ptr, to, total, alloc))
         /\ Joined(word, Combined(ptr, to, total, alloc), ptr, to, total)
         /\ \A a : a \in Taken(Combined(ptr, to, total, alloc)) <=>
              IF a = ptr - size_marker THEN alloc
              ELSE a \in Taken(word) /\ (a < ptr \/ ptr + total <= a)
                     /\ ~(total > to /\ a = ptr + to)
<1> DEFINE v == Combined(ptr, to, total, alloc)
           k == ptr - size_marker
           D == {a \in DOMAIN word : a < ptr \/ ptr + total <= a}
           R == IF total > to THEN {ptr + to} ELSE {}
<1>0. DOMAIN word \subseteq Nat
  BY DEF Words
<1>1. DOMAIN v = D \cup R
  <2>1. D = DOMAIN word \ {a \in DOMAIN word : ptr <= a /\ a < ptr + total}
    BY <1>0
  <2> QED BY <2>1 DEF Combined
<1>2. \A a \in R : v[a] = [size |-> total - to - size_marker, alloc |-> FALSE]
  BY DEF Combined
<1>3. k \notin R /\ k \in D
  BY DEF Words
<1>4. v[k] = [size |-> to, alloc |-> alloc]
  BY <1>1, <1>3 DEF Combined
<1>5. \A a \in D : a # k /\ a \notin R => v[a] = word[a]
  BY <1>1 DEF Combined
<1>6. ASSUME NEW a \in R
      PROVE  a \in Nat /\ a = ptr + to /\ total > to /\ total - to - size_marker \in Nat
  OBVIOUS
<1>7. \A a \in R : v[a] \in SizeWord /\ v[a].size = total - to - size_marker /\ v[a].alloc = FALSE
  <2>1. SUFFICES ASSUME NEW a \in R
                 PROVE  v[a] \in SizeWord /\ v[a].size = total - to - size_marker
                          /\ v[a].alloc = FALSE
    OBVIOUS
  <2>2. PICK n \in Nat : n = total - to - size_marker
    BY <1>6
  <2>3. v[a] = [size |-> n, alloc |-> FALSE]
    BY <1>2, <2>2
  <2>4. v[a] \in SizeWord /\ v[a].size = n /\ v[a].alloc = FALSE
    BY <2>3 DEF SizeWord
  <2> QED BY <2>2, <2>4
<1>8. v[k] \in SizeWord /\ v[k].size = to /\ v[k].alloc = alloc
  BY <1>4 DEF SizeWord
<1>9. \A a : a \in R <=> total > to /\ a = ptr + to
  OBVIOUS
<1>10. \A a : a \in D <=> a \in DOMAIN word /\ (a < ptr \/ ptr + total <= a)
  OBVIOUS
<1> HIDE DEF v, k, D, R
<1>11. Words(v)
  BY <1>0, <1>1, <1>5, <1>6, <1>7, <1>8, <1>10 DEF Words
<1>12. Joined(word, v, ptr, to, total)
  <2>1. DOMAIN v = {a \in DOMAIN word : a < ptr \/ ptr + total <= a}
                  \cup (IF total > to THEN {ptr + to} ELSE {})
    BY <1>1 DEF D, R
  <2>2. \A a \in DOMAIN v :
       v[a].size = IF total > to /\ a = ptr + to THEN total - to - size_marker
                   ELSE IF a = k THEN to
                   ELSE word[a].size
    BY <1>1, <1>5, <1>7, <1>8, <1>9
  <2> QED BY <2>1, <2>2 DEF Joined, k
<1>13. \A a : a \in Taken(v) <=>
              IF a = k THEN alloc
              ELSE a \in Taken(word) /\ a \in D /\ a \notin R
  <2>1. SUFFICES ASSUME NEW a
                 PROVE a \in Taken(v) <=>
                         IF a = k THEN alloc
                         ELSE a \in Taken(word) /\ a \in D /\ a \notin R
    OBVIOUS
  <2>2. CASE a = k
    BY <2>2, <1>1, <1>3, <1>8, Zenon DEF Taken
  <2>3. CASE a # k /\ a \in R
    BY <2>3, <1>1, <1>7, Zenon DEF Taken
  <2>4. CASE a # k /\ a \notin R /\ a \in D
    <3>1. a \in DOMAIN word
      BY <2>4, <1>10
    <3> QED BY <2>4, <3>1, <1>1, <1>5, Zenon DEF Taken
  <2>5. CASE a # k /\ a \notin R /\ a \notin D
    BY <2>5, <1>1, Zenon DEF Taken
  <2> QED BY <2>2, <2>3, <2>4, <2>5
<1>14. \A a : a \in Taken(v) <=>
              IF a = k THEN alloc
              ELSE a \in Taken(word) /\ (a < ptr \/ ptr + total <= a)
                     /\ ~(total > to /\ a = ptr + to)
  <2>1. \A a : a \in Taken(word) => a \in DOMAIN word
    BY DEF Taken
  <2> QED BY <1>13, <1>9, <1>10, <2>1, Zenon
<1> QED BY <1>11, <1>12, <1>14 DEF v, k

-----------------------------------------------------------------------------
(* Heaps and words.                                                        *)

LEMMA HeapFields ==
  ASSUME NEW hs \in Seq(Heap), NEW i \in 1 .. Len(hs)
  PROVE  /\ hs[i] \in Heap
         /\ hs[i].base \in Nat /\ hs[i].size \in Nat /\ hs[i].offset \in Nat
         /\ Top(hs[i]) = hs[i].base + hs[i].offset
         /\ End(hs[i]) = hs[i].base + hs[i].size
         /\ Top(hs[i]) \in Nat /\ End(hs[i]) \in Nat
<1>1. hs[i] \in Heap
  OBVIOUS
<1>2. hs[i].base \in Nat /\ hs[i].size \in Nat /\ hs[i].offset \in Nat
  BY <1>1 DEF Heap
<1>3. /\ Top(hs[i]) = hs[i].base + hs[i].offset
      /\ End(hs[i]) = hs[i].base + hs[i].size
  BY DEF Top, End
<1>4. Top(hs[i]) \in Nat /\ End(hs[i]) \in Nat
  BY <1>2, <1>3
<1> QED BY <1>1, <1>2, <1>3, <1>4

LEMMA OneHeap ==
  ASSUME NEW hs \in Seq(Heap), NEW brk \in Nat, Shape(hs, brk),
         NEW i \in 1 .. Len(hs), NEW j \in 1 .. Len(hs),
         NEW a \in Int, Within(hs[i], a), Within(hs[j], a)
  PROVE  i = j
<1>1. \A k \in 1 .. Len(hs) : hs[k].base \in Nat /\ End(hs[k]) \in Nat
  BY HeapFields
<1>2. Len(hs) \in {1, 2}
  <2>1. PICK n \in Nat : n = Len(hs)
    OBVIOUS
  <2>2. n <= 2 /\ i \in 1 .. n
    BY <2>1 DEF Shape
  <2>3. n = 1 \/ n = 2
    BY <2>2
  <2> QED BY <2>1, <2>3
<1>3. CASE Len(hs) = 1
  BY <1>3
<1>4. CASE Len(hs) = 2
  <2>1. End(hs[1]) < hs[2].base
    BY <1>4 DEF Shape
  <2>2. i \in {1, 2} /\ j \in {1, 2}
    BY <1>4
  <2> QED BY <1>1, <1>4, <2>1, <2>2 DEF Within
<1> QED BY <1>2, <1>3, <1>4

LEMMA WordFields ==
  ASSUME NEW w, Words(w), NEW a \in DOMAIN w
  PROVE  /\ a \in Nat /\ w[a].size \in Nat
         /\ Following(w, a) \in Nat /\ Following(w, a) = a + 4 + w[a].size
<1>1. a \in Nat /\ w[a] \in SizeWord
  BY DEF Words
<1> QED BY <1>1 DEF SizeWord, Following

\* A word lies below the offset of its heap, as does the buffer behind it.
LEMMA BelowTop ==
  ASSUME NEW hs \in Seq(Heap), NEW brk \in Nat, Shape(hs, brk),
         NEW w, Words(w), Tiled(w, hs),
         NEW i \in 1 .. Len(hs), NEW a \in DOMAIN w, Within(hs[i], a)
  PROVE  /\ Following(w, a) <= Top(hs[i]) /\ a < Top(hs[i])
         /\ Top(hs[i]) <= End(hs[i])
         /\ Top(hs[i]) \notin DOMAIN w \/ Top(hs[i]) = End(hs[i])
<1>1. Tiles(w, hs[i])
  BY DEF Tiled
<1>2. \A x \in DOMAIN w : x \in Nat /\ w[x].size \in Nat /\ Following(w, x) \in Nat
                           /\ Following(w, x) = x + 4 + w[x].size
  BY WordFields
<1>3. hs[i].base \in Nat /\ Top(hs[i]) \in Nat /\ End(hs[i]) \in Nat
      /\ Top(hs[i]) = hs[i].base + hs[i].offset /\ End(hs[i]) = hs[i].base + hs[i].size
      /\ hs[i].offset \in Nat /\ hs[i].size \in Nat
  BY HeapFields
<1>4. hs[i].offset <= hs[i].size
  BY DEF Shape
<1>5. \A x \in DOMAIN w : Within(hs[i], x) => Following(w, x) <= Top(hs[i])
  <2>1. PICK t \in Nat : t = Top(hs[i])
    BY <1>3
  <2>2. ASSUME NEW x \in DOMAIN w, Within(hs[i], x) PROVE Following(w, x) <= t
    <3>1. PICK f \in Nat : f = Following(w, x)
      BY <1>2
    <3>2. f = t \/ f < t
      BY <1>1, <2>1, <2>2, <3>1 DEF Tiles
    <3>3. f <= t
      BY <3>2
    <3> QED BY <3>1, <3>3
  <2> QED BY <2>1, <2>2
<1>6. Within(hs[i], Top(hs[i])) \/ Top(hs[i]) = End(hs[i])
  <2>1. PICK b \in Nat, o \in Nat, z \in Nat :
          b = hs[i].base /\ o = hs[i].offset /\ z = hs[i].size
    BY <1>3
  <2>2. Top(hs[i]) = b + o /\ End(hs[i]) = b + z /\ o <= z
    BY <1>3, <1>4, <2>1
  <2>3. (b <= b + o /\ b + o < b + z) \/ b + o = b + z
    BY <2>2
  <2> QED BY <2>1, <2>2, <2>3 DEF Within
<1>7. Following(w, a) <= Top(hs[i]) /\ a < Top(hs[i])
  <2>1. Following(w, a) <= Top(hs[i])
    BY <1>5
  <2>2. a \in Nat /\ w[a].size \in Nat /\ Following(w, a) = a + 4 + w[a].size
    BY <1>2
  <2> QED BY <1>3, <2>1, <2>2
<1>8. Top(hs[i]) <= End(hs[i])
  BY <1>3, <1>4
<1>9. Top(hs[i]) \in DOMAIN w /\ Within(hs[i], Top(hs[i])) => FALSE
  <2>1. SUFFICES ASSUME NEW t \in DOMAIN w, t = Top(hs[i]), Within(hs[i], t)
                 PROVE  FALSE
    OBVIOUS
  <2>2. Following(w, t) <= t /\ t \in Nat /\ w[t].size \in Nat
        /\ Following(w, t) = t + 4 + w[t].size
    BY <1>2, <1>5, <2>1
  <2> QED BY <2>2
<1> QED BY <1>6, <1>7, <1>8, <1>9

\* Freeing changes no size.
LEMMA TiledSame ==
  ASSUME NEW w, NEW v, NEW hs, Tiled(w, hs), SameSizes(w, v)
  PROVE  Tiled(v, hs)
<1>1. \A a \in DOMAIN w : v[a].size = w[a].size /\ Following(v, a) = Following(w, a)
  BY DEF SameSizes, Following
<1>2. DOMAIN v = DOMAIN w
  BY DEF SameSizes
<1> QED BY <1>1, <1>2 DEF Tiled, Apart, Tiles

\* A heap grows, above its offset, or another begins beyond all words.
LEMMA TiledGrown ==
  ASSUME NEW hs \in Seq(Heap), NEW brk \in Nat, Shape(hs, brk),
         NEW gs \in Seq(Heap), NEW new \in Nat, Shape(gs, new),
         NEW w, Words(w), Tiled(w, hs),
         Len(hs) <= Len(gs),
         \A j \in 1 .. Len(hs) : /\ gs[j].base = hs[j].base
                                 /\ gs[j].offset = hs[j].offset
                                 /\ hs[j].size <= gs[j].size,
         \A j \in 1 .. Len(gs) : Len(hs) < j => gs[j].offset = 0
  PROVE  Tiled(w, gs)
<1>1. \A j \in 1 .. Len(hs) :
        /\ j \in 1 .. Len(gs)
        /\ hs[j].base \in Nat /\ hs[j].size \in Nat /\ End(hs[j]) = hs[j].base + hs[j].size
        /\ gs[j].size \in Nat /\ End(gs[j]) = gs[j].base + gs[j].size
        /\ Top(gs[j]) = Top(hs[j])
  <2>1. SUFFICES ASSUME NEW j \in 1 .. Len(hs)
                 PROVE  /\ j \in 1 .. Len(gs)
                        /\ hs[j].base \in Nat /\ hs[j].size \in Nat
                        /\ End(hs[j]) = hs[j].base + hs[j].size
                        /\ gs[j].size \in Nat /\ End(gs[j]) = gs[j].base + gs[j].size
                        /\ Top(gs[j]) = Top(hs[j])
    OBVIOUS
  <2>2. j \in 1 .. Len(gs)
    OBVIOUS
  <2> QED BY <2>2, HeapFields
<1>2. ASSUME NEW a \in DOMAIN w
      PROVE  \E i \in 1 .. Len(hs) : Within(hs[i], a) /\ Within(gs[i], a)
  <2>1. a \in Nat
    BY WordFields
  <2>2. PICK i \in 1 .. Len(hs) : Within(hs[i], a)
    BY DEF Tiled
  <2>3. /\ hs[i].base \in Nat /\ hs[i].size \in Nat /\ End(hs[i]) = hs[i].base + hs[i].size
        /\ gs[i].size \in Nat /\ End(gs[i]) = gs[i].base + gs[i].size
        /\ gs[i].base = hs[i].base /\ hs[i].size <= gs[i].size
    BY <1>1
  <2>4. hs[i].base <= a /\ a < hs[i].base + hs[i].size
    BY <2>2, <2>3 DEF Within
  <2>5. gs[i].base <= a /\ a < gs[i].base + gs[i].size
    BY <2>1, <2>3, <2>4
  <2>6. Within(gs[i], a)
    BY <2>3, <2>5 DEF Within
  <2> QED BY <2>2, <2>6
<1>3. ASSUME NEW a \in DOMAIN w, NEW j \in 1 .. Len(gs), Within(gs[j], a)
      PROVE  j \in 1 .. Len(hs) /\ Within(hs[j], a)
  <2>1. PICK i \in 1 .. Len(hs) : Within(hs[i], a) /\ Within(gs[i], a)
    BY <1>2
  <2>2. a \in Int /\ i \in 1 .. Len(gs)
    BY <1>1, WordFields
  <2>3. i = j
    BY <1>3, <2>1, <2>2, OneHeap
  <2> QED BY <2>1, <2>3
<1>4. ASSUME NEW j \in 1 .. Len(gs)
      PROVE  Tiles(w, gs[j])
  <2>1. CASE j \in 1 .. Len(hs)
    <3>1. Tiles(w, hs[j]) /\ gs[j].base = hs[j].base /\ gs[j].offset = hs[j].offset
      BY <2>1 DEF Tiled
    <3> QED BY <1>1, <1>3, <2>1, <3>1 DEF Tiles
  <2>2. CASE Len(hs) < j
    <3>1. gs[j].offset = 0
      BY <2>2
    <3>2. \A a \in DOMAIN w : ~Within(gs[j], a)
      BY <1>3, <2>2
    <3> QED BY <3>1, <3>2 DEF Tiles
  <2> QED BY <2>1, <2>2
<1>5. \A a \in DOMAIN w : Sized(w[a].size)
  BY DEF Tiled
<1>6. \A a \in DOMAIN w : \E i \in 1 .. Len(gs) : Within(gs[i], a)
  BY <1>1, <1>2
<1> QED BY <1>4, <1>5, <1>6 DEF Tiled

LEMMA HeapsApart ==
  ASSUME NEW hs \in Seq(Heap), NEW brk \in Nat, Shape(hs, brk),
         NEW i \in 1 .. Len(hs), NEW j \in 1 .. Len(hs), i # j
  PROVE  End(hs[i]) <= hs[j].base \/ End(hs[j]) <= hs[i].base
<1>1. PICK n \in Nat : n = Len(hs)
  OBVIOUS
<1>2. n <= 2 /\ i \in 1 .. n /\ j \in 1 .. n
  BY <1>1 DEF Shape
<1>3. n = 2 /\ ((i = 1 /\ j = 2) \/ (i = 2 /\ j = 1))
  BY <1>2
<1>4. End(hs[1]) < hs[2].base
  BY <1>1, <1>3 DEF Shape
<1>5. End(hs[1]) \in Nat /\ hs[2].base \in Nat
  BY <1>1, <1>3, HeapFields
<1>6. End(hs[1]) <= hs[2].base
  BY <1>4, <1>5
<1> QED BY <1>3, <1>6

\* The words of other heaps are before or after heap i.
LEMMA Elsewhere ==
  ASSUME NEW hs \in Seq(Heap), NEW brk \in Nat, Shape(hs, brk),
         NEW w, Words(w), Tiled(w, hs),
         NEW i \in 1 .. Len(hs), NEW a \in DOMAIN w, ~Within(hs[i], a)
  PROVE  Following(w, a) <= hs[i].base \/ End(hs[i]) <= a
<1>1. PICK j \in 1 .. Len(hs) : Within(hs[j], a)
  BY DEF Tiled
<1>2. i # j
  BY <1>1
<1>3. End(hs[i]) <= hs[j].base \/ End(hs[j]) <= hs[i].base
  BY <1>2, HeapsApart
<1>4. Following(w, a) <= Top(hs[j]) /\ Top(hs[j]) <= End(hs[j])
  BY <1>1, BelowTop
<1>5. /\ hs[i].base \in Nat /\ End(hs[i]) \in Nat
      /\ hs[j].base \in Nat /\ End(hs[j]) \in Nat /\ Top(hs[j]) \in Nat
  BY HeapFields
<1>6. a \in Nat /\ Following(w, a) \in Nat
  BY WordFields
<1>7. hs[j].base <= a
  BY <1>1 DEF Within
<1>8. CASE End(hs[i]) <= hs[j].base
  BY <1>5, <1>6, <1>7, <1>8
<1>9. CASE End(hs[j]) <= hs[i].base
  BY <1>4, <1>5, <1>6, <1>9
<1> QED BY <1>3, <1>8, <1>9

\* A buffer is cut from the rest of heap i.
LEMMA TiledWritten ==
  ASSUME NEW hs \in Seq(Heap), NEW brk \in Nat, Shape(hs, brk),
         NEW w, Words(w), Tiled(w, hs),
         NEW i \in 1 .. Len(hs), NEW size \in Nat, Sized(size),
         hs[i].offset + size + 4 <= hs[i].size,
         NEW v, Words(v), Written(w, v, Top(hs[i]), size),
         NEW gs \in Seq(Heap), OffsetMoved(hs, gs, i, hs[i].offset + size + 4)
  PROVE  Tiled(v, gs) /\ Top(hs[i]) \notin DOMAIN w
<1>1. PICK t \in Nat : t = Top(hs[i])
  BY HeapFields
<1>2. PICK b \in Nat, e \in Nat, o \in Nat :
        b = hs[i].base /\ e = End(hs[i]) /\ o = hs[i].offset
  BY HeapFields
<1>3. t = b + o /\ t + size + 4 <= e
  <2>1. PICK z \in Nat : z = hs[i].size
    BY HeapFields
  <2>2. t = b + o /\ e = b + z
    BY <1>1, <1>2, <2>1, HeapFields
  <2>3. o + size + 4 <= z
    BY <1>2, <2>1
  <2> QED BY <2>2, <2>3
<1>4. Within(hs[i], t)
  <2>1. b <= t
    BY <1>3
  <2>2. t < t + size + 4
    OBVIOUS
  <2>3. t < e
    BY <1>3, <2>2
  <2> QED BY <2>1, <2>3, <1>2 DEF Within
<1>5. t \notin DOMAIN w
  <2>1. SUFFICES ASSUME t \in DOMAIN w PROVE FALSE
    OBVIOUS
  <2>2. t < Top(hs[i])
    BY <1>4, <2>1, BelowTop
  <2> QED BY <1>1, <2>2
<1>6. DOMAIN v = DOMAIN w \cup {t}
  BY <1>1 DEF Written
<1>7. Following(v, t) = t + 4 + size /\ v[t].size = size
  BY <1>1 DEF Written, Following
<1>8. \A a \in DOMAIN w : v[a].size = w[a].size /\ Following(v, a) = Following(w, a)
  BY <1>1, <1>5 DEF Written, Following
<1>9. \A a \in DOMAIN w : a \in Nat /\ Following(w, a) \in Nat /\ a < Following(w, a)
  <2>1. SUFFICES ASSUME NEW a \in DOMAIN w
                 PROVE  a \in Nat /\ Following(w, a) \in Nat /\ a < Following(w, a)
    OBVIOUS
  <2>2. a \in Nat /\ w[a].size \in Nat /\ Following(w, a) = a + 4 + w[a].size
    BY WordFields
  <2> QED BY <2>2
<1>10. \A a \in DOMAIN w : Following(w, a) <= t \/ e <= a
  <2>1. SUFFICES ASSUME NEW a \in DOMAIN w PROVE Following(w, a) <= t \/ e <= a
    OBVIOUS
  <2>2. CASE Within(hs[i], a)
    BY <1>1, <2>2, BelowTop
  <2>3. CASE ~Within(hs[i], a)
    <3>1. Following(w, a) <= b \/ e <= a
      BY <1>2, <2>3, Elsewhere
    <3>2. a \in Nat /\ Following(w, a) \in Nat
      BY <1>9
    <3> QED BY <1>3, <3>1, <3>2
  <2> QED BY <2>2, <2>3
<1>11. Apart(v)
  <2>1. SUFFICES ASSUME NEW a \in DOMAIN v, NEW x \in DOMAIN v
                 PROVE  x <= a \/ Following(v, a) <= x
    BY DEF Apart
  <2>2. CASE a \in DOMAIN w /\ x \in DOMAIN w
    BY <1>8, <2>2 DEF Tiled, Apart
  <2>3. CASE a = t /\ x \in DOMAIN w
    BY <1>3, <1>7, <1>9, <1>10, <2>3
  <2>4. CASE a \in DOMAIN w /\ x = t
    <3>1. Following(v, a) <= t \/ e <= a
      BY <1>8, <1>10, <2>4
    <3>2. a \in Nat
      BY <1>9, <2>4
    <3> QED BY <1>3, <2>4, <3>1, <3>2
  <2>5. CASE a = t /\ x = t
    BY <2>5
  <2> QED BY <1>6, <2>2, <2>3, <2>4, <2>5
<1>12. \A j \in 1 .. Len(gs) : j \in 1 .. Len(hs)
         /\ gs[j].base = hs[j].base /\ End(gs[j]) = End(hs[j])
  BY DEF OffsetMoved, End
<1>13. \A j \in 1 .. Len(gs) : j # i => Top(gs[j]) = Top(hs[j]) /\ gs[j].offset = hs[j].offset
  BY DEF OffsetMoved, Top
<1>14. \A a : \A j \in 1 .. Len(gs) : Within(gs[j], a) <=> Within(hs[j], a)
  BY <1>12 DEF Within
<1>15. Top(gs[i]) = t + 4 + size
  <2>1. gs[i].base = b /\ gs[i].offset = o + size + 4
    BY <1>2 DEF OffsetMoved
  <2> QED BY <1>3, <2>1 DEF Top
<1>16. Tiles(v, gs[i])
  <2>0. i \in 1 .. Len(gs)
    BY DEF OffsetMoved
  <2>1. gs[i].base \in DOMAIN v
    <3>1. hs[i].offset > 0 => hs[i].base \in DOMAIN w
      BY DEF Tiled, Tiles
    <3>2. CASE o > 0
      BY <1>2, <1>6, <1>12, <2>0, <3>1, <3>2
    <3>3. CASE o = 0
      <4>1. b = t /\ gs[i].base = b
        BY <1>2, <1>3, <1>12, <2>0, <3>3
      <4> QED BY <1>6, <4>1
    <3>4. o > 0 \/ o = 0
      BY ONLY o \in Nat
    <3> QED BY <3>2, <3>3, <3>4
  <2>2. ASSUME NEW a \in DOMAIN v, Within(gs[i], a)
        PROVE  \/ Following(v, a) = Top(gs[i])
               \/ Following(v, a) < Top(gs[i]) /\ Following(v, a) \in DOMAIN v
    <3>1. CASE a = t
      BY <1>7, <1>15, <3>1
    <3>2. CASE a \in DOMAIN w
      <4>1. Within(hs[i], a)
        BY <1>14, <2>0, <2>2
      <4>2. Following(w, a) = t \/ (Following(w, a) < t /\ Following(w, a) \in DOMAIN w)
        BY <1>1, <3>2, <4>1 DEF Tiled, Tiles
      <4>3. PICK f \in Nat : f = Following(v, a) /\ f = Following(w, a)
        BY <1>8, <1>9, <3>2
      <4>4. f = t \/ (f < t /\ f \in DOMAIN w)
        BY <4>2, <4>3
      <4>5. f < t + 4 + size /\ f \in DOMAIN v
        BY <1>6, <4>4
      <4> QED BY <1>15, <4>3, <4>5
    <3> QED BY <1>6, <3>1, <3>2
  <2> QED BY <2>1, <2>2 DEF Tiles
<1>17. ASSUME NEW j \in 1 .. Len(gs), j # i
       PROVE  Tiles(v, gs[j])
  <2>1. j \in 1 .. Len(hs) /\ gs[j].base = hs[j].base /\ Top(gs[j]) = Top(hs[j])
        /\ gs[j].offset = hs[j].offset
    BY <1>12, <1>13, <1>17
  <2>2. Tiles(w, hs[j])
    BY <2>1 DEF Tiled
  <2>3. ~Within(gs[j], t)
    <3>1. SUFFICES ASSUME Within(gs[j], t) PROVE FALSE
      OBVIOUS
    <3>2. Within(hs[j], t)
      BY <1>14, <3>1
    <3>3. t \in Int
      OBVIOUS
    <3>4. i = j
      BY <1>4, <2>1, <3>2, <3>3, OneHeap
    <3> QED BY <1>17, <3>4
  <2>4. \A a \in DOMAIN v : Within(gs[j], a) => a \in DOMAIN w /\ Within(hs[j], a)
    BY <1>6, <1>14, <2>3
  <2> QED BY <1>6, <1>8, <2>1, <2>2, <2>4 DEF Tiles
<1>18. ASSUME NEW a \in DOMAIN v
       PROVE  Sized(v[a].size) /\ \E j \in 1 .. Len(gs) : Within(gs[j], a)
  <2>0. Len(gs) = Len(hs)
    BY DEF OffsetMoved
  <2>1. CASE a = t
    BY <1>4, <1>7, <1>14, <2>0, <2>1
  <2>2. CASE a \in DOMAIN w
    BY <1>8, <1>14, <2>0, <2>2 DEF Tiled
  <2> QED BY <1>6, <2>1, <2>2
<1> QED BY <1>1, <1>5, <1>11, <1>16, <1>17, <1>18 DEF Tiled

\* The last buffer of heap i grows, and the offset with it.
LEMMA TiledResized ==
  ASSUME NEW hs \in Seq(Heap), NEW brk \in Nat, Shape(hs, brk),
         NEW w, Words(w), Tiled(w, hs),
         NEW i \in 1 .. Len(hs), NEW k \in DOMAIN w, Within(hs[i], k),
         Following(w, k) = Top(hs[i]),
         NEW size \in Nat, Sized(size), w[k].size <= size,
         k + 4 + size <= End(hs[i]),
         NEW v, Words(v), Written(w, v, k, size),
         NEW gs \in Seq(Heap), OffsetMoved(hs, gs, i, hs[i].offset + size - w[k].size)
  PROVE  Tiled(v, gs)
<1>1. PICK b \in Nat, e \in Nat, o \in Nat, t \in Nat :
        b = hs[i].base /\ e = End(hs[i]) /\ o = hs[i].offset /\ t = Top(hs[i])
  BY HeapFields
<1>2. PICK z \in Nat : z = w[k].size
  BY WordFields
<1>3. k \in Nat /\ t = k + 4 + z /\ t = b + o /\ b <= k /\ k < e
  <2>1. k \in Nat /\ t = k + 4 + z
    BY <1>1, <1>2, WordFields
  <2>2. t = b + o
    BY <1>1, HeapFields
  <2>3. b <= k /\ k < e
    BY <1>1 DEF Within
  <2> QED BY <2>1, <2>2, <2>3
<1>4. z <= size /\ k + 4 + size <= e
  BY <1>1, <1>2
<1>5. DOMAIN v = DOMAIN w
  BY DEF Written
<1>6. Following(v, k) = k + 4 + size /\ v[k].size = size
  BY DEF Written, Following
<1>7. \A a \in DOMAIN w : a # k => v[a].size = w[a].size /\ Following(v, a) = Following(w, a)
  BY DEF Written, Following
<1>8. \A a \in DOMAIN w : a \in Nat /\ Following(w, a) \in Nat /\ a < Following(w, a)
  <2>1. SUFFICES ASSUME NEW a \in DOMAIN w
                 PROVE  a \in Nat /\ Following(w, a) \in Nat /\ a < Following(w, a)
    OBVIOUS
  <2>2. a \in Nat /\ w[a].size \in Nat /\ Following(w, a) = a + 4 + w[a].size
    BY WordFields
  <2> QED BY <2>2
<1>9. \A a \in DOMAIN w : Following(w, a) <= t \/ e <= a
  <2>1. SUFFICES ASSUME NEW a \in DOMAIN w PROVE Following(w, a) <= t \/ e <= a
    OBVIOUS
  <2>2. CASE Within(hs[i], a)
    BY <1>1, <2>2, BelowTop
  <2>3. CASE ~Within(hs[i], a)
    <3>1. Following(w, a) <= b \/ e <= a
      BY <1>1, <2>3, Elsewhere
    <3>2. a \in Nat /\ Following(w, a) \in Nat
      BY <1>8
    <3> QED BY <1>3, <3>1, <3>2
  <2> QED BY <2>2, <2>3
<1>10. Apart(v)
  <2>1. SUFFICES ASSUME NEW a \in DOMAIN w, NEW x \in DOMAIN w
                 PROVE  x <= a \/ Following(v, a) <= x
    BY <1>5 DEF Apart
  <2>2. x <= a \/ Following(w, a) <= x
    BY DEF Tiled, Apart
  <2>3. CASE a # k
    BY <1>7, <2>2, <2>3
  <2>4. CASE a = k
    <3>1. x <= k \/ t <= x
      BY <1>1, <2>2, <2>4
    <3>2. PICK f \in Nat : f = Following(w, x)
      BY <1>8
    <3>3. x \in Nat /\ x < f /\ (f <= t \/ e <= x)
      BY <1>8, <1>9, <3>2
    <3>4. x <= k \/ e <= x
      BY <1>3, <3>1, <3>3
    <3>5. x <= k \/ k + 4 + size <= x
      <4>1. PICK m \in Nat : m = k /\ m + 4 + size <= e
        BY <1>3, <1>4
      <4>2. x <= m \/ m + 4 + size <= x
        BY <3>3, <3>4, <4>1
      <4> QED BY <4>1, <4>2
    <3> QED BY <1>6, <2>4, <3>5
  <2> QED BY <2>3, <2>4
<1>11. \A j \in 1 .. Len(gs) : j \in 1 .. Len(hs)
         /\ gs[j].base = hs[j].base /\ End(gs[j]) = End(hs[j])
  BY DEF OffsetMoved, End
<1>12. \A j \in 1 .. Len(gs) : j # i => Top(gs[j]) = Top(hs[j]) /\ gs[j].offset = hs[j].offset
  BY DEF OffsetMoved, Top
<1>13. \A a : \A j \in 1 .. Len(gs) : Within(gs[j], a) <=> Within(hs[j], a)
  BY <1>11 DEF Within
<1>14. Top(gs[i]) = k + 4 + size
  <2>1. gs[i].base = b /\ gs[i].offset = o + size - z
    BY <1>1, <1>2 DEF OffsetMoved
  <2>2. PICK m \in Nat : m = k
    BY <1>3
  <2>3. t = m + 4 + z /\ t = b + o
    BY <1>3, <2>2
  <2>4. b + (o + size - z) = m + 4 + size
    BY <2>3
  <2> QED BY <2>1, <2>2, <2>4 DEF Top
<1>15. Tiles(v, gs[i])
  <2>0. i \in 1 .. Len(gs)
    BY DEF OffsetMoved
  <2>1. gs[i].base \in DOMAIN v
    <3>1. hs[i].offset > 0 => hs[i].base \in DOMAIN w
      BY DEF Tiled, Tiles
    <3>2. o > 0
      BY <1>3
    <3> QED BY <1>1, <1>5, <1>11, <2>0, <3>1, <3>2
  <2>2. ASSUME NEW a \in DOMAIN v, Within(gs[i], a)
        PROVE  \/ Following(v, a) = Top(gs[i])
               \/ Following(v, a) < Top(gs[i]) /\ Following(v, a) \in DOMAIN v
    <3>1. CASE a = k
      BY <1>6, <1>14, <3>1
    <3>2. CASE a # k
      <4>1. Within(hs[i], a) /\ a \in DOMAIN w
        BY <1>5, <1>13, <2>0, <2>2
      <4>2. Following(w, a) = t \/ (Following(w, a) < t /\ Following(w, a) \in DOMAIN w)
        BY <1>1, <4>1 DEF Tiled, Tiles
      <4>3. PICK f \in Nat : f = Following(v, a) /\ f = Following(w, a)
        BY <1>7, <1>8, <3>2, <4>1
      <4>4. f = t \/ (f < t /\ f \in DOMAIN w)
        BY <4>2, <4>3
      <4>5. f # t
        <5>1. (k <= a \/ f <= k) /\ (a <= k \/ t <= a)
          BY <1>1, <4>1, <4>3 DEF Tiled, Apart
        <5>2. a \in Nat /\ a < f
          BY <1>8, <4>1, <4>3
        <5>3. PICK m \in Nat : m = k
          BY <1>3
        <5>4. (m <= a \/ f <= m) /\ (a <= m \/ t <= a) /\ a # m
          BY <3>2, <5>1, <5>3
        <5>5. m < t
          <6>1. t = m + 4 + z
            BY <1>3, <5>3
          <6> QED BY ONLY <6>1, m \in Nat, z \in Nat
        <5> QED BY <5>2, <5>4, <5>5
      <4>6. f < k + 4 + size
        <5>1. PICK m \in Nat : m = k
          BY <1>3
        <5>2. t = m + 4 + z /\ z <= size /\ f < t
          BY <1>3, <1>4, <4>4, <4>5, <5>1
        <5>3. f < m + 4 + size
          BY <5>2
        <5> QED BY <5>1, <5>3
      <4> QED BY <1>5, <1>14, <4>3, <4>4, <4>5, <4>6
    <3> QED BY <3>1, <3>2
  <2> QED BY <2>1, <2>2 DEF Tiles
<1>16. ASSUME NEW j \in 1 .. Len(gs), j # i
       PROVE  Tiles(v, gs[j])
  <2>1. j \in 1 .. Len(hs) /\ gs[j].base = hs[j].base /\ Top(gs[j]) = Top(hs[j])
        /\ gs[j].offset = hs[j].offset
    BY <1>11, <1>12, <1>16
  <2>2. Tiles(w, hs[j])
    BY <2>1 DEF Tiled
  <2>3. ~Within(gs[j], k)
    <3>1. SUFFICES ASSUME Within(gs[j], k) PROVE FALSE
      OBVIOUS
    <3>2. Within(hs[j], k)
      BY <1>13, <3>1
    <3>3. k \in Int
      BY <1>3
    <3>4. i = j
      BY <2>1, <3>2, <3>3, OneHeap
    <3> QED BY <1>16, <3>4
  <2>4. \A a \in DOMAIN v : Within(gs[j], a) => a \in DOMAIN w /\ a # k /\ Within(hs[j], a)
    BY <1>5, <1>13, <2>3
  <2> QED BY <1>5, <1>7, <2>1, <2>2, <2>4 DEF Tiles
<1>17. ASSUME NEW a \in DOMAIN v
       PROVE  Sized(v[a].size) /\ \E j \in 1 .. Len(gs) : Within(gs[j], a)
  <2>0. Len(gs) = Len(hs) /\ a \in DOMAIN w
    BY <1>5 DEF OffsetMoved
  <2>1. \E j \in 1 .. Len(gs) : Within(gs[j], a)
    BY <1>13, <2>0 DEF Tiled
  <2>2. Sized(v[a].size)
    BY <1>6, <1>7, <2>0 DEF Tiled
  <2> QED BY <2>1, <2>2
<1> QED BY <1>10, <1>15, <1>16, <1>17 DEF Tiled

\* Sizes that fill whole blocks differ by whole blocks.
LEMMA SizedRest ==
  ASSUME NEW m \in Nat, Sized(m), NEW n \in Nat, Sized(n), m < n
  PROVE  n - m - 4 \in Nat /\ Sized(n - m - 4) /\ m + 4 <= n
BY DEF Sized, mem_block

\* Merged buffers of heap i become one of size to and a rest.
LEMMA TiledJoined ==
  ASSUME NEW hs \in Seq(Heap), NEW brk \in Nat, Shape(hs, brk),
         NEW w, Words(w), Tiled(w, hs),
         NEW i \in 1 .. Len(hs), NEW at \in Nat,
         at - 4 \in DOMAIN w, Within(hs[i], at - 4),
         NEW total \in Nat, Merging(w, hs[i], at, total),
         NEW to \in Nat, Sized(to), to <= total,
         NEW v, Words(v), Joined(w, v, at, to, total)
  PROVE  Tiled(v, hs)
<1>1. PICK k \in Nat : k = at - 4
  BY WordFields
<1>2. PICK b \in Nat, e \in Nat, t \in Nat :
        b = hs[i].base /\ e = End(hs[i]) /\ t = Top(hs[i])
  BY HeapFields
<1>3. k \in DOMAIN w /\ k < at /\ b <= k /\ t <= e /\ at = k + 4
  <2>1. k \in DOMAIN w /\ Within(hs[i], k)
    BY <1>1
  <2>2. t <= e
    BY <1>2, <2>1, BelowTop
  <2>3. b <= k
    BY <1>2, <2>1 DEF Within
  <2> QED BY <1>1, <2>1, <2>2, <2>3
<1>4. PICK z \in Nat : z = w[k].size
  BY <1>3, WordFields
<1>5. z <= total /\ Sized(total)
  BY <1>1, <1>4 DEF Merging
<1>6. at + total = t \/ (at + total < t /\ at + total \in DOMAIN w)
  BY <1>2 DEF Merging
<1>7. PICK d \in Nat : d = at + total
  OBVIOUS
<1>8. PICK r \in Nat : r = at + to
  OBVIOUS
<1>9. at <= r /\ r <= d /\ d <= t /\ (d = t \/ d \in DOMAIN w) /\ (total > to <=> r < d)
  BY <1>6, <1>7, <1>8
<1>10. \A a : a \in DOMAIN v <=> (a \in DOMAIN w /\ (a < at \/ d <= a)) \/ (r < d /\ a = r)
  <2>1. DOMAIN v = {a \in DOMAIN w : a < at \/ d <= a}
                  \cup (IF total > to THEN {r} ELSE {})
    BY <1>7, <1>8 DEF Joined
  <2> QED BY <1>9, <2>1
<1>11. \A a \in DOMAIN w : a \in Nat /\ Following(w, a) \in Nat /\ a < Following(w, a)
  <2>1. SUFFICES ASSUME NEW a \in DOMAIN w
                 PROVE  a \in Nat /\ Following(w, a) \in Nat /\ a < Following(w, a)
    OBVIOUS
  <2>2. PICK m \in Nat, n \in Nat : m = a /\ n = w[a].size /\ Following(w, a) = m + 4 + n
    BY WordFields
  <2>3. m + 4 + n \in Nat /\ m < m + 4 + n
    OBVIOUS
  <2> QED BY <2>2, <2>3

\* Every old word other than k is well before at or well behind it.
<1>12. ASSUME NEW a \in DOMAIN w, a # k
       PROVE  Following(w, a) <= k \/ at <= a
  <2>1. (k <= a \/ Following(w, a) <= k) /\ (a <= k \/ Following(w, k) <= a)
    BY <1>3 DEF Tiled, Apart
  <2>2. Following(w, k) = k + 4 + z
    BY <1>3, <1>4, WordFields
  <2>3. a \in Nat
    BY <1>11
  <2> QED BY <1>3, <1>12, <2>1, <2>2, <2>3
<1>13. k \in DOMAIN v /\ Following(v, k) = r /\ v[k].size = to
  <2>1. k \in DOMAIN v
    BY <1>3, <1>10
  <2>2. k # r
    BY <1>3, <1>9
  <2>3. v[k].size = to
    BY <1>1, <1>8, <2>1, <2>2 DEF Joined
  <2> QED BY <1>3, <1>8, <2>1, <2>3 DEF Following
<1>14. ASSUME r < d
       PROVE  r \in DOMAIN v /\ Following(v, r) = d /\ Sized(v[r].size)
  <2>1. r \in DOMAIN v /\ total > to
    BY <1>9, <1>10, <1>14
  <2>2. v[r].size = total - to - 4
    BY <1>8, <2>1 DEF Joined
  <2>3. to < total
    BY <2>1
  <2>4. total - to - 4 \in Nat /\ Sized(total - to - 4)
    BY <1>5, <2>3, SizedRest
  <2>5. PICK q \in Nat : q = v[r].size /\ Sized(q) /\ q = total - to - 4
    BY <2>2, <2>4
  <2>6. r + 4 + q = d
    <3>1. r = at + to /\ d = at + total /\ q = total - to - 4
      BY <1>7, <1>8, <2>5
    <3> QED BY ONLY <3>1, at \in Nat, to \in Nat, total \in Nat
  <2> QED BY <2>1, <2>5, <2>6 DEF Following
<1>15. ASSUME NEW a \in DOMAIN v, a # k, ~(r < d /\ a = r)
       PROVE  /\ a \in DOMAIN w /\ (a < at \/ d <= a)
              /\ v[a].size = w[a].size /\ Following(v, a) = Following(w, a)
  <2>1. a \in DOMAIN w /\ (a < at \/ d <= a)
    BY <1>10, <1>15
  <2>2. ~(total > to /\ a = at + to) /\ a # at - 4
    BY <1>1, <1>8, <1>9, <1>15
  <2>3. v[a].size = w[a].size
    BY <2>2 DEF Joined
  <2> QED BY <2>1, <2>3 DEF Following

\* The other words that stay end before k or start at d or later.
<1>16. ASSUME NEW a \in DOMAIN v, a # k, ~(r < d /\ a = r)
       PROVE  /\ a \in Nat /\ Following(v, a) \in Nat /\ a < Following(v, a)
              /\ Following(v, a) <= k \/ d <= a
  <2>1. a \in DOMAIN w /\ (a < at \/ d <= a) /\ Following(v, a) = Following(w, a)
    BY <1>15, <1>16
  <2>2. Following(w, a) <= k \/ at <= a
    BY <1>12, <1>16, <2>1
  <2>3. a \in Nat /\ Following(w, a) \in Nat /\ a < Following(w, a)
    BY <1>11, <2>1
  <2>4. Following(w, a) <= k \/ d <= a
    BY <1>3, <2>1, <2>2, <2>3
  <2> QED BY <2>1, <2>3, <2>4
<1>17. Apart(v)
  <2>1. SUFFICES ASSUME NEW a \in DOMAIN v, NEW x \in DOMAIN v
                 PROVE  x <= a \/ Following(v, a) <= x
    BY DEF Apart
  <2>2. CASE a = k
    <3>1. CASE x = k
      BY <1>3, <2>2, <3>1
    <3>2. CASE x # k /\ r < d /\ x = r
      BY <1>13, <2>2, <3>2
    <3>3. CASE x # k /\ ~(r < d /\ x = r)
      <4>1. x \in Nat /\ x < Following(v, x) /\ Following(v, x) \in Nat
            /\ (Following(v, x) <= k \/ d <= x)
        BY <1>16, <3>3
      <4>2. x <= k \/ d <= x
        BY <4>1
      <4>3. x <= k \/ r <= x
        BY <1>9, <4>1, <4>2
      <4> QED BY <1>13, <2>2, <4>3
    <3> QED BY <3>1, <3>2, <3>3
  <2>3. CASE a # k /\ r < d /\ a = r
    <3>1. CASE x = k
      BY <1>3, <1>9, <2>3, <3>1
    <3>2. CASE x # k /\ r < d /\ x = r
      BY <2>3, <3>2
    <3>3. CASE x # k /\ ~(r < d /\ x = r)
      <4>1. x \in Nat /\ x < Following(v, x) /\ Following(v, x) \in Nat
            /\ (Following(v, x) <= k \/ d <= x)
        BY <1>16, <3>3
      <4>2. x <= r \/ d <= x
        BY <1>3, <1>9, <4>1
      <4> QED BY <1>14, <2>3, <4>2
    <3> QED BY <3>1, <3>2, <3>3
  <2>4. CASE a # k /\ ~(r < d /\ a = r)
    <3>0. a \in DOMAIN w /\ Following(v, a) = Following(w, a)
      BY <1>15, <2>4
    <3>1. CASE x \in DOMAIN w
      BY <3>0, <3>1 DEF Tiled, Apart
    <3>2. CASE x \notin DOMAIN w
      <4>1. x = r /\ r < d
        BY <1>10, <3>2
      <4>2. a \in Nat /\ a < Following(v, a) /\ Following(v, a) \in Nat
            /\ (Following(v, a) <= k \/ d <= a)
        BY <1>16, <2>4
      <4>3. Following(v, a) <= r \/ r <= a
        BY <1>3, <1>9, <4>2
      <4> QED BY <4>1, <4>3
    <3> QED BY <3>1, <3>2
  <2> QED BY <2>2, <2>3, <2>4
<1>18. r < d => Within(hs[i], r)
  <2>1. r < d => b <= r /\ r < e
    BY <1>3, <1>9
  <2> QED BY <1>2, <2>1 DEF Within
<1>19. ASSUME NEW a \in DOMAIN v
       PROVE  Sized(v[a].size) /\ \E j \in 1 .. Len(hs) : Within(hs[j], a)
  <2>1. CASE a = k
    BY <1>1, <1>13, <2>1
  <2>2. CASE r < d /\ a = r
    BY <1>14, <1>18, <2>2
  <2>3. CASE a # k /\ ~(r < d /\ a = r)
    <3>1. a \in DOMAIN w /\ v[a].size = w[a].size
      BY <1>15, <2>3
    <3> QED BY <3>1 DEF Tiled
  <2> QED BY <2>1, <2>2, <2>3

\* Where the words that stay lead to.
<1>20. ASSUME NEW a \in DOMAIN v, a # k, ~(r < d /\ a = r),
              Following(w, a) \in DOMAIN w
       PROVE  Following(w, a) \in DOMAIN v
  <2>1. PICK f \in Nat : f = Following(w, a)
    BY <1>11, <1>20
  <2>2. f <= k \/ d <= a
    BY <1>15, <1>16, <1>20, <2>1
  <2>3. a < f /\ a \in Nat
    BY <1>11, <1>15, <1>20, <2>1
  <2>4. f < at \/ d <= f
    BY <1>3, <2>2, <2>3
  <2> QED BY <1>10, <1>20, <2>1, <2>4
<1>21. ASSUME NEW j \in 1 .. Len(hs)
       PROVE  Tiles(v, hs[j])
  <2>0. Tiles(w, hs[j])
    BY DEF Tiled
  <2>1. hs[j].offset > 0 => hs[j].base \in DOMAIN v
    <3>1. SUFFICES ASSUME hs[j].offset > 0 PROVE hs[j].base \in DOMAIN v
      OBVIOUS
    <3>2. PICK c \in Nat : c = hs[j].base
      BY HeapFields
    <3>3. c \in DOMAIN w
      BY <2>0, <3>1, <3>2 DEF Tiles
    <3>4. CASE j = i
      <4>1. c < at
        BY <1>2, <1>3, <3>2, <3>4
      <4> QED BY <1>10, <3>2, <3>3, <4>1
    <3>5. CASE j # i
      <4>1. End(hs[i]) <= hs[j].base \/ End(hs[j]) <= hs[i].base
        BY <3>5, HeapsApart
      <4>2. PICK f \in Nat : f = End(hs[j])
        BY HeapFields
      <4>3. c < f
        <5>1. PICK n \in Nat : n = hs[j].size
          BY HeapFields
        <5>2. f = c + n
          BY <3>2, <4>2, <5>1, HeapFields
        <5>3. n > 0
          BY <5>1 DEF Shape
        <5> QED BY <5>2, <5>3
      <4>4. e <= c \/ f <= b
        BY <1>2, <3>2, <4>1, <4>2
      <4>5. c < at \/ d <= c
        BY <1>3, <1>9, <4>3, <4>4
      <4> QED BY <1>10, <3>2, <3>3, <4>5
    <3> QED BY <3>4, <3>5
  <2>2. ASSUME NEW a \in DOMAIN v, Within(hs[j], a)
        PROVE  \/ Following(v, a) = Top(hs[j])
               \/ Following(v, a) < Top(hs[j]) /\ Following(v, a) \in DOMAIN v
    <3>1. CASE a = k
      <4>1. j = i
        BY <1>1, <1>3, <2>2, <3>1, OneHeap
      <4>2. CASE r < d
        <5>1. r < t
          BY <1>9, <4>2
        <5> QED BY <1>2, <1>13, <1>14, <3>1, <4>1, <4>2, <5>1
      <4>3. CASE r = d
        <5>1. r = t \/ (r < t /\ r \in DOMAIN w)
          BY <1>6, <1>7, <4>3
        <5>2. r \in DOMAIN w => r \in DOMAIN v
          BY <1>10, <4>3
        <5> QED BY <1>2, <1>13, <3>1, <4>1, <5>1, <5>2
      <4> QED BY <1>9, <4>2, <4>3
    <3>2. CASE a # k /\ r < d /\ a = r
      <4>1. j = i
        <5>1. Within(hs[i], r) /\ r \in Int
          BY <1>18, <3>2
        <5> QED BY <2>2, <3>2, <5>1, OneHeap
      <4>2. Following(v, a) = d
        BY <1>14, <3>2
      <4>3. d = t \/ (d < t /\ d \in DOMAIN w)
        BY <1>6, <1>7
      <4>4. d \in DOMAIN w => d \in DOMAIN v
        BY <1>10
      <4> QED BY <1>2, <4>1, <4>2, <4>3, <4>4
    <3>3. CASE a # k /\ ~(r < d /\ a = r)
      <4>1. a \in DOMAIN w /\ Following(v, a) = Following(w, a)
        BY <1>15, <3>3
      <4>2. \/ Following(w, a) = Top(hs[j])
            \/ Following(w, a) < Top(hs[j]) /\ Following(w, a) \in DOMAIN w
        BY <2>0, <2>2, <4>1 DEF Tiles
      <4> QED BY <1>20, <3>3, <4>1, <4>2
    <3> QED BY <3>1, <3>2, <3>3
  <2> QED BY <2>1, <2>2 DEF Tiles
<1> QED BY <1>17, <1>19, <1>21 DEF Tiled

-----------------------------------------------------------------------------
(* Marks and what clients hold.                                            *)

Blocks(bs) == DOMAIN bs \subseteq Nat /\ \A p \in DOMAIN bs : bs[p] \in Nat

LEMMA HeldFields ==
  ASSUME NEW w, Words(w), NEW bs, Held(w, bs), NEW p \in DOMAIN bs
  PROVE  /\ p - 4 \in Taken(w) /\ p - 4 \in DOMAIN w /\ p - 4 \in Nat
         /\ bs[p] <= w[p - 4].size
         /\ 0 \notin DOMAIN bs
<1>1. \A q \in DOMAIN bs : q - 4 \in Taken(w) /\ bs[q] <= w[q - 4].size
  BY DEF Held
<1>2. \A q \in DOMAIN bs : q - 4 \in DOMAIN w /\ q - 4 \in Nat
  BY <1>1 DEF Taken, Words
<1> QED BY <1>1, <1>2

LEMMA TakenWords ==
  ASSUME NEW w, Words(w), NEW a \in Taken(w)
  PROVE  a \in DOMAIN w /\ a \in Nat
BY DEF Taken, Words

\* Marks and the sizes of marked words stay: clients notice nothing.
LEMMA HeldSame ==
  ASSUME NEW w, NEW v, NEW bs, Held(w, bs), Taken(v) = Taken(w),
         \A a \in Taken(w) : v[a].size = w[a].size
  PROVE  Held(v, bs)
BY DEF Held

\* free.
LEMMA HeldFreed ==
  ASSUME NEW w, Words(w), NEW bs, Blocks(bs), Held(w, bs),
         NEW ptr \in DOMAIN bs
  PROVE  Held(Freed(w, ptr), [p \in DOMAIN bs \ {ptr} |-> bs[p]])
<1>1. PICK v : v = Freed(w, ptr)
  OBVIOUS
<1>2. SameSizes(w, v) /\ Taken(v) = Taken(w) \ {ptr - 4}
  BY <1>1, FreedSame
<1>3. ASSUME NEW p \in DOMAIN bs, p # ptr
      PROVE  p - 4 \in Taken(v) /\ bs[p] <= v[p - 4].size
  <2>1. p - 4 \in Taken(w) /\ p - 4 \in DOMAIN w /\ bs[p] <= w[p - 4].size
    BY HeldFields
  <2>2. p \in Nat /\ ptr \in Nat
    BY DEF Blocks
  <2>3. p - 4 # ptr - 4
    BY <1>3, <2>2
  <2>4. v[p - 4].size = w[p - 4].size
    BY <1>2, <2>1 DEF SameSizes
  <2> QED BY <1>2, <2>1, <2>3, <2>4
<1>4. ASSUME NEW a \in Taken(v)
      PROVE  a + 4 \in DOMAIN bs \ {ptr}
  <2>1. a \in Taken(w) /\ a # ptr - 4
    BY <1>2
  <2>2. a + 4 \in DOMAIN bs
    BY <2>1 DEF Held
  <2>3. a \in Nat /\ ptr \in Nat
    BY <2>1, TakenWords DEF Blocks
  <2>4. a + 4 # ptr
    BY <2>1, <2>3
  <2> QED BY <2>2, <2>4
<1> QED BY <1>1, <1>3, <1>4 DEF Held

\* realloc in place, of a buffer that is large enough now.
LEMMA HeldResized ==
  ASSUME NEW w, Words(w), NEW bs, Blocks(bs), Held(w, bs),
         NEW ptr \in DOMAIN bs, NEW len \in Nat,
         NEW v, Taken(v) = Taken(w), len <= v[ptr - 4].size,
         \A a \in Taken(w) : a # ptr - 4 => v[a].size = w[a].size
  PROVE  Held(v, [bs EXCEPT ![ptr] = len])
<1>1. PICK cs : cs = [bs EXCEPT ![ptr] = len]
  OBVIOUS
<1>2. DOMAIN cs = DOMAIN bs /\ cs[ptr] = len
      /\ \A p \in DOMAIN bs : p # ptr => cs[p] = bs[p]
  BY <1>1
<1>3. ASSUME NEW p \in DOMAIN bs
      PROVE  p - 4 \in Taken(v) /\ cs[p] <= v[p - 4].size
  <2>1. p - 4 \in Taken(w) /\ bs[p] <= w[p - 4].size
    BY HeldFields
  <2>2. p \in Nat /\ ptr \in Nat
    BY DEF Blocks
  <2>3. CASE p = ptr
    BY <1>2, <2>1, <2>3
  <2>4. CASE p # ptr
    <3>1. p - 4 # ptr - 4
      BY <2>2, <2>4
    <3> QED BY <1>2, <2>1, <2>4, <3>1
  <2> QED BY <2>3, <2>4
<1>4. \A a \in Taken(v) : a + 4 \in DOMAIN bs
  BY DEF Held
<1> QED BY <1>1, <1>2, <1>3, <1>4 DEF Held

\* malloc returns a buffer; realloc frees the old one.
Handed(u, v, bs, ds, ptr, len, old) ==
  /\ v = IF old = 0 THEN u ELSE Freed(u, old)
  /\ ds = [p \in (DOMAIN bs \ {old}) \cup {ptr} |->
             IF p = ptr THEN len ELSE bs[p]]

LEMMA HeldReturned ==
  ASSUME NEW w, Words(w), NEW bs, Blocks(bs), Held(w, bs),
         NEW ptr \in Nat, NEW len \in Nat,
         NEW u, Words(u), Taken(u) = Taken(w) \cup {ptr - 4}, ptr - 4 \notin Taken(w),
         \A a \in Taken(w) : u[a].size = w[a].size,
         len <= u[ptr - 4].size,
         NEW old, old = 0 \/ old \in DOMAIN bs,
         NEW v, NEW ds, Handed(u, v, bs, ds, ptr, len, old)
  PROVE  Held(v, ds)
<1>0. /\ v = IF old = 0 THEN u ELSE Freed(u, old)
      /\ ds = [p \in (DOMAIN bs \ {old}) \cup {ptr} |->
                 IF p = ptr THEN len ELSE bs[p]]
  BY DEF Handed
<1>1. PICK cs : cs = [p \in DOMAIN bs \cup {ptr} |-> IF p = ptr THEN len ELSE bs[p]]
  OBVIOUS
<1>2. /\ DOMAIN cs = DOMAIN bs \cup {ptr} /\ cs[ptr] = len
      /\ \A p \in DOMAIN bs : p # ptr => cs[p] = bs[p]
  BY <1>1
<1>3. ptr \notin DOMAIN bs
  BY HeldFields
<1>4. Held(u, cs)
  <2>1. ASSUME NEW p \in DOMAIN cs
        PROVE  p - 4 \in Taken(u) /\ cs[p] <= u[p - 4].size
    <3>1. CASE p = ptr
      BY <1>2, <3>1
    <3>2. CASE p \in DOMAIN bs /\ p # ptr
      <4>1. p - 4 \in Taken(w) /\ bs[p] <= w[p - 4].size
        BY <3>2, HeldFields
      <4> QED BY <1>2, <3>2, <4>1
    <3> QED BY <1>2, <3>1, <3>2
  <2>2. ASSUME NEW a \in Taken(u)
        PROVE  a + 4 \in DOMAIN cs
    <3>1. CASE a = ptr - 4
      <4>1. a + 4 = ptr
        BY <3>1
      <4> QED BY <1>2, <4>1
    <3>2. CASE a \in Taken(w)
      <4>1. a + 4 \in DOMAIN bs
        BY <3>2 DEF Held
      <4> QED BY <1>2, <4>1
    <3> QED BY <3>1, <3>2
  <2> QED BY <2>1, <2>2 DEF Held
<1>5. Blocks(cs)
  BY <1>2 DEF Blocks
<1>6. CASE old = 0
  <2>1. DOMAIN bs \ {old} = DOMAIN bs
    <3>1. 0 \in DOMAIN bs => FALSE
      BY HeldFields
    <3> QED BY <1>6, <3>1
  <2>2. Held(u, [p \in (DOMAIN bs \ {old}) \cup {ptr} |-> IF p = ptr THEN len ELSE bs[p]])
    BY <1>1, <1>4, <2>1
  <2>3. v = u
    BY <1>0, <1>6
  <2> QED BY <1>0, <2>2, <2>3
<1>7. CASE old \in DOMAIN bs
  <2>1. old # 0 /\ old # ptr
    BY <1>3, <1>7, HeldFields
  <2>2. old \in DOMAIN cs
    BY <1>2, <1>7
  <2>3. Held(Freed(u, old), [p \in DOMAIN cs \ {old} |-> cs[p]])
    BY <1>4, <1>5, <2>2, HeldFreed
  <2>4. DOMAIN cs \ {old} = (DOMAIN bs \ {old}) \cup {ptr}
    BY <1>2, <2>1
  <2>5. \A p \in (DOMAIN bs \ {old}) \cup {ptr} : cs[p] = IF p = ptr THEN len ELSE bs[p]
    BY <1>2
  <2>6. [p \in DOMAIN cs \ {old} |-> cs[p]]
          = [p \in (DOMAIN bs \ {old}) \cup {ptr} |-> IF p = ptr THEN len ELSE bs[p]]
    BY <2>4, <2>5
  <2>7. v = Freed(u, old)
    BY <1>0, <2>1
  <2> QED BY <1>0, <2>3, <2>6, <2>7
<1> QED BY <1>6, <1>7

-----------------------------------------------------------------------------
(* Sizes and pages.                                                        *)

LEMMA Adjusted ==
  ASSUME NEW len \in Nat
  PROVE  /\ adjust_to_mem_block(len) \in Nat /\ len <= adjust_to_mem_block(len)
         /\ Sized(adjust_to_mem_block(len))
BY DEF adjust_to_mem_block, Sized, mem_block

LEMMA SizedSum ==
  ASSUME NEW m \in Nat, Sized(m), NEW n \in Nat, Sized(n)
  PROVE  Sized(m + n + 4) /\ Sized(n + m + 4)
BY DEF Sized, mem_block

\* Offsets and sizes of heaps are whole blocks.
LEMMA SizedOffset ==
  ASSUME NEW o \in Nat, o % 8 = 0, NEW n \in Nat, Sized(n)
  PROVE  (o + n + 4) % 8 = 0
BY DEF Sized, mem_block

LEMMA SizedRemaining ==
  ASSUME NEW o \in Nat, o % 8 = 0, NEW z \in Nat, z % 8 = 0, o < z
  PROVE  z - o - 4 \in Nat /\ Sized(z - o - 4)
BY DEF Sized, mem_block

LEMMA SizedChange ==
  ASSUME NEW o \in Nat, o % 8 = 0, NEW m \in Nat, Sized(m), NEW n \in Nat, Sized(n), m <= n
  PROVE  o + n - m \in Nat /\ (o + n - m) % 8 = 0
BY DEF Sized, mem_block

LEMMA SizedPositive ==
  ASSUME NEW m \in Nat, Sized(m)
  PROVE  m >= 4
BY DEF Sized, mem_block

\* Memory grows by one page at a time.
LEMMA OnePage ==
  ASSUME mem \in Nat
  PROVE  /\ Break \in Nat /\ PageSize \in Nat /\ PageSize > 0 /\ PageSize % 8 = 0
         /\ heap_adj = PageSize /\ PagesFor(heap_adj) = 1
         /\ (mem + 1) * PageSize = Break + PageSize
<1>1. PageSize \in Nat \ {0} /\ PageSize % 8 = 0 /\ MinRemaining \in 1 .. PageSize
  BY MallocHeapAssumption
<1>2. Break \in Nat
  BY <1>1 DEF Break
<1>3. Break % PageSize = 0
  <2>1. PICK p \in Nat \ {0} : p = PageSize
    BY <1>1
  <2>2. PICK m \in Nat : m = mem
    OBVIOUS
  <2>3. (m * p) % p = 0
    OBVIOUS
  <2> QED BY <2>1, <2>2, <2>3 DEF Break
<1>4. heap_adj = PageSize
  BY <1>1, <1>3 DEF heap_adj
<1>5. (mem + 1) * PageSize = Break + PageSize
  BY <1>1 DEF Break
<1>6. PagesFor(PageSize) = 1
  <2>1. PICK m \in Nat : m = mem + 1
    OBVIOUS
  <2>2. PICK r \in 0 .. PageSize - 1 : r = PageSize - 1
    BY <1>1
  <2>3. (m * PageSize + r) \div PageSize = m
    BY <1>1
  <2>4. Break + PageSize + PageSize - 1 = m * PageSize + r
    BY <1>1, <1>2, <1>5, <2>1, <2>2
  <2> QED BY <2>1, <2>3, <2>4 DEF PagesFor
<1> QED BY <1>1, <1>2, <1>4, <1>5, <1>6

LEMMA Facts ==
  ASSUME IInv
  PROVE  /\ heaps \in Seq(Heap) /\ Len(heaps) \in Nat
         /\ mem \in Nat /\ Break \in Nat /\ Shape(heaps, Break)
         /\ Words(word) /\ Blocks(blocks)
         /\ Tiled(word, heaps) /\ Held(word, blocks)
         /\ active \in Nat /\ active_free \in Nat
         /\ cur \in Nat /\ possible \in Nat /\ end_free \in Nat
         /\ req \in Request /\ req.len \in Nat /\ req.size \in Nat /\ req.old \in Nat
<1>1. mem \in Nat
  BY MallocHeapAssumption DEF IInv, TypeOK
<1>2. Break \in Nat
  BY <1>1, OnePage
<1>3. req \in Request
  BY DEF IInv, TypeOK
<1>4. req.len \in Nat /\ req.size \in Nat /\ req.old \in Nat
  BY <1>3 DEF Request
<1>5. heaps \in Seq(Heap) /\ Len(heaps) \in Nat
  BY DEF IInv, TypeOK
<1>6. active \in Nat /\ active_free \in Nat
  BY <1>5 DEF IInv, TypeOK
<1>7. Words(word) /\ Blocks(blocks)
  BY DEF IInv, TypeOK, Words, Blocks
<1>8. Shape(heaps, Break) /\ Tiled(word, heaps) /\ Held(word, blocks)
  BY DEF IInv
<1>9. cur \in Nat /\ possible \in Nat /\ end_free \in Nat
  BY DEF IInv, TypeOK
<1> QED BY <1>1, <1>2, <1>3, <1>4, <1>5, <1>6, <1>7, <1>8, <1>9

\* Between calls the rest of the invariant says nothing.
LEMMA IdleInv ==
  ASSUME TypeOK', Shape(heaps, Break)', Phase', Tiled(word, heaps)', Held(word, blocks)',
         pc' = "idle", res' # "null"
  PROVE  IInv'
BY DEF IInv, Calls, Searched

LEMMA InitInv == Init => IInv
<1> SUFFICES ASSUME Init PROVE IInv
  OBVIOUS
<1>1. heaps = <<>> /\ word = <<>> /\ blocks = <<>> /\ pc = "idle" /\ res = "none"
      /\ active = 0 /\ active_free = 0 /\ actual = 0 /\ mem = InitPages
      /\ cur = 0 /\ possible = 0 /\ end_free = 0 /\ req = NoRequest
  BY DEF Init
<1>2. Len(heaps) = 0 /\ heaps \in Seq(Heap) /\ DOMAIN word = {} /\ DOMAIN blocks = {}
  BY <1>1
<1>3. TypeOK
  <2>1. mem \in InitPages .. MaxPages
    BY <1>1, MallocHeapAssumption
  <2>2. req \in Request
    BY <1>1 DEF NoRequest, Request
  <2> QED BY <1>1, <1>2, <2>1, <2>2 DEF TypeOK
<1>4. Shape(heaps, Break)
  BY <1>2 DEF Shape
<1>5. Phase
  BY <1>1 DEF Phase, Fresh
<1>6. Tiled(word, heaps) /\ Held(word, blocks)
  BY <1>2 DEF Tiled, Apart, Held, Taken
<1>7. Calls /\ Searched
  BY <1>1 DEF Calls, Searched
<1> QED BY <1>3, <1>4, <1>5, <1>6, <1>7 DEF IInv

-----------------------------------------------------------------------------
(* The entry of malloc.                                                    *)

\* A full heap starts with a word, from which a search may start.
LEMMA HeapStart ==
  ASSUME NEW hs \in Seq(Heap), NEW brk \in Nat, Shape(hs, brk),
         NEW w, Words(w), Tiled(w, hs), NEW need,
         NEW i \in 1 .. Len(hs), hs[i].offset = hs[i].size,
         NEW at, at = hs[i].base + 4
  PROVE  /\ at \in Nat
         /\ at - 4 \in DOMAIN w
         /\ Within(hs[i], at - 4)
         /\ NoRoomBefore(w, hs[i], at - 4, need)
<1>1. PICK b \in Nat, z \in Nat : b = hs[i].base /\ z = hs[i].size /\ End(hs[i]) = b + z
  BY HeapFields
<1>2. z > 0 /\ z = hs[i].offset
  BY <1>1 DEF Shape
<1>3. b \in DOMAIN w
  BY <1>1, <1>2 DEF Tiled, Tiles
<1>4. at \in Nat /\ at - 4 = b
  BY <1>1
<1>5. b < b + z
  BY <1>2
<1>6. Within(hs[i], b)
  BY <1>1, <1>5 DEF Within
<1>7. NoRoomBefore(w, hs[i], b, need)
  <2>1. \A a \in DOMAIN w : Within(hs[i], a) /\ a < b => FALSE
    BY <1>1 DEF Within, Words
  <2> QED BY <2>1 DEF NoRoomBefore
<1> QED BY <1>1, <1>3, <1>4, <1>6, <1>7

\* The search starts, on heaps that are all full.
LEMMA SearchStarts ==
  ASSUME NEW hs \in Seq(Heap), NEW brk \in Nat, Shape(hs, brk), hs = heaps',
         Words(word'), Tiled(word', hs),
         \A i \in 1 .. Len(hs) : hs[i].offset = hs[i].size,
         active_free \in Nat, active_free < Len(hs), active_free' = active_free,
         StartSearch(hs)
  PROVE  /\ pc' = "search" /\ AtBuffer' /\ Searched'
         /\ cur' \in Nat /\ possible' = 0 /\ end_free' \in Nat
<1>1. PICK i \in 1 .. Len(hs) : i = active_free + 1
  OBVIOUS
<1>0. PICK at : at = hs[i].base + 4
  OBVIOUS
<1>3. hs[i].offset = hs[i].size
  OBVIOUS
<1>2. /\ at \in Nat
      /\ at - 4 \in DOMAIN word'
      /\ Within(hs[i], at - 4)
      /\ NoRoomBefore(word', hs[i], at - 4, req'.size)
  BY <1>0, <1>3, HeapStart
<1>4. pc' = "search" /\ cur' = at /\ end_free' = active_free /\ possible' = 0
  BY <1>0, <1>1, <1>3 DEF StartSearch, EnterHeap
<1>5. FreeHeap' = hs[i]
  BY <1>1 DEF FreeHeap
<1>6. AtBuffer'
  <2>1. end_free' < Len(heaps')
    BY <1>4
  <2>2. cur' - 4 \in DOMAIN word' /\ Within(FreeHeap', cur' - 4)
    BY <1>2, <1>4, <1>5
  <2> QED BY <2>1, <2>2 DEF AtBuffer
<1>7. Searched'
  <2>1. NoRoomBefore(word', FreeHeap', cur' - 4, req'.size)
    BY <1>2, <1>4, <1>5
  <2>2. \A j \in 1 .. Len(heaps') : ~Done(j)'
    BY <1>4 DEF Done
  <2> QED BY <1>4, <2>1, <2>2 DEF Searched
<1> QED BY <1>2, <1>4, <1>6, <1>7

\* The heaps malloc finds are those it left, or the static one.
LEMMA EnterMallocInv ==
  ASSUME IInv, pc \in {"idle", "extend"}, NEW len \in Nat,
         NEW old, old = 0 \/ old \in DOMAIN blocks, EnterMalloc(len, old)
  PROVE  IInv'
<1>1. PICK size \in Nat : size = adjust_to_mem_block(len) /\ len <= size /\ Sized(size)
  BY Adjusted
<1>2. /\ heaps \in Seq(Heap) /\ Len(heaps) \in Nat /\ Break \in Nat /\ Shape(heaps, Break)
      /\ Words(word) /\ Blocks(blocks) /\ Tiled(word, heaps) /\ Held(word, blocks)
      /\ active \in Nat /\ active_free \in Nat
  BY Facts
<1>3. /\ req' = [len |-> len, size |-> size, old |-> old] /\ res' = "none"
      /\ active' = active /\ active_free' = active_free /\ mem' = mem
      /\ word' = word /\ blocks' = blocks
  BY <1>1 DEF EnterMalloc
<1>4. old \in Nat
  BY <1>2 DEF Blocks
<1>5. req' \in Request /\ req'.size = size /\ req'.len = len /\ req'.old = old
  BY <1>3, <1>4 DEF Request
<1>6. Asked'
  BY <1>1, <1>3, <1>5 DEF Asked
<1>7. Break' = Break
  BY <1>3 DEF Break
<1>8. CASE Fresh
  <2>1. heaps = <<>> /\ active = 0 /\ active_free = 0 /\ actual = 0
    BY <1>8 DEF Fresh
  <2>2. actual' = 16
    BY <2>1 DEF EnterMalloc
  <2>3. heaps' = <<[base |-> InitialHeap, size |-> InitialHeapSize, offset |-> 0]>>
    BY <2>1 DEF EnterMalloc
  <2>4. pc' = "alloc" /\ cur' = 0 /\ possible' = 0 /\ end_free' = 0
    BY <2>1, <2>2 DEF EnterMalloc
  <2>5. InitialHeap \in Nat \ {0} /\ InitialHeapSize \in Nat /\ InitialHeapSize > 0
        /\ InitialHeapSize % 8 = 0
    BY MallocHeapAssumption
  <2>6. /\ heaps' \in Seq(Heap) /\ Len(heaps') = 1
        /\ heaps'[1].base = InitialHeap /\ heaps'[1].size = InitialHeapSize
        /\ heaps'[1].offset = 0
    BY <2>3, <2>5 DEF Heap
  <2>7. InitialHeap + InitialHeapSize < Break
    <3>1. PICK p \in Nat : p = PageSize
      BY MallocHeapAssumption
    <3>2. PICK n \in Nat : n = InitPages
      BY MallocHeapAssumption
    <3>3. PICK m \in Nat : m = mem
      BY Facts
    <3>4. n <= m
      BY <3>2, <3>3 DEF IInv, TypeOK
    <3>5. n * p <= m * p
      BY <3>4
    <3>6. InitialHeap + InitialHeapSize < n * p
      BY <3>1, <3>2, MallocHeapAssumption
    <3>7. Break = m * p
      BY <3>1, <3>3 DEF Break
    <3>8. n * p \in Nat /\ m * p \in Nat
      OBVIOUS
    <3> QED BY <2>5, <3>5, <3>6, <3>7, <3>8
  <2>8. Shape(heaps', Break')
    <3>1. End(heaps'[1]) = InitialHeap + InitialHeapSize
      BY <2>6 DEF End
    <3> QED BY <1>2, <1>7, <2>5, <2>6, <2>7, <3>1 DEF Shape
  <2>9. Tiled(word', heaps')
    <3>1. Len(heaps) = 0
      BY <2>1
    <3>2. \A j \in 1 .. Len(heaps) : FALSE
      BY <3>1
    <3>3. \A j \in 1 .. Len(heaps') : heaps'[j].offset = 0
      BY <2>6
    <3>4. Len(heaps) <= Len(heaps')
      BY <2>6, <3>1
    <3>5. Tiled(word, heaps')
      BY <1>2, <1>7, <2>6, <2>8, <3>2, <3>3, <3>4, TiledGrown
    <3> QED BY <1>3, <3>5
  <2>10. TypeOK'
    <3>1. active' \in 0 .. Len(heaps') /\ active_free' \in 0 .. Len(heaps')
      BY <1>3, <2>1, <2>6
    <3>2. actual' \in {0, heaps_size, Len(heaps')}
      BY <2>2
    <3> QED BY <1>3, <1>5, <2>4, <2>6, <3>1, <3>2 DEF TypeOK, IInv
  <2>11. Phase'
    <3>1. active' + 1 = Len(heaps') /\ Len(heaps') > 0
      BY <1>3, <2>1, <2>6
    <3>2. \A i \in 1 .. active' : FALSE
      BY <1>3, <2>1
    <3> QED BY <1>3, <2>1, <2>2, <2>4, <3>1, <3>2 DEF Phase, Growing
  <2>12. Calls' /\ Searched'
    BY <1>6, <2>4 DEF Calls, Searched
  <2> QED BY <1>2, <1>3, <2>8, <2>9, <2>10, <2>11, <2>12 DEF IInv
<1>9. CASE Growing
  <2>1. Len(heaps) > 0 /\ active + 1 = Len(heaps) /\ actual = 16
    BY <1>9 DEF Growing
  <2>2. heaps # <<>>
    BY <2>1
  <2>3. actual' = 16 /\ heaps' = heaps
    BY <2>1, <2>2 DEF EnterMalloc
  <2>4. active < 16
    BY <1>2, <2>1 DEF Shape
  <2>5. pc' = "alloc" /\ cur' = 0 /\ possible' = 0 /\ end_free' = 0
    BY <1>2, <2>3, <2>4 DEF EnterMalloc
  <2>6. TypeOK'
    BY <1>3, <1>5, <2>3, <2>5 DEF TypeOK, IInv
  <2>7. Phase'
    BY <1>3, <1>9, <2>3, <2>5 DEF Phase, Growing
  <2>8. Calls' /\ Searched'
    BY <1>6, <2>5 DEF Calls, Searched
  <2> QED BY <1>2, <1>3, <1>7, <2>3, <2>6, <2>7, <2>8 DEF IInv
<1>10. CASE Exhausted
  <2>1. Len(heaps) > 0 /\ active = Len(heaps) /\ actual = active /\ active_free < Len(heaps)
        /\ \A i \in 1 .. Len(heaps) : heaps[i].offset = heaps[i].size
    BY <1>10 DEF Exhausted
  <2>2. heaps # <<>>
    BY <2>1
  <2>3. actual # 0
    BY <1>2, <2>1
  <2>4. actual' = actual /\ heaps' = heaps
    BY <2>2, <2>3 DEF EnterMalloc
  <2>5. StartSearch(heaps)
    BY <1>2, <2>1, <2>4 DEF EnterMalloc
  <2>6. Words(word') /\ Tiled(word', heaps)
    BY <1>2, <1>3
  <2>7. /\ pc' = "search" /\ AtBuffer' /\ Searched'
        /\ cur' \in Nat /\ possible' = 0 /\ end_free' \in Nat
    BY <1>2, <1>3, <2>1, <2>4, <2>5, <2>6, SearchStarts
  <2>8. TypeOK'
    BY <1>3, <1>5, <2>4, <2>7 DEF TypeOK, IInv
  <2>9. Phase'
    BY <1>3, <2>1, <2>4, <2>7 DEF Phase, Exhausted
  <2>10. Calls'
    BY <1>6, <2>7 DEF Calls
  <2> QED BY <1>2, <1>3, <1>7, <2>4, <2>7, <2>8, <2>9, <2>10 DEF IInv
<1> QED BY <1>8, <1>9, <1>10 DEF IInv, Phase

\* malloc(0), and so calloc of nothing, does nothing.
LEMMA MallocInv ==
  ASSUME IInv, NEW len \in Nat, malloc(len)
  PROVE  IInv'
<1>1. CASE len # 0
  BY <1>1, EnterMallocInv DEF malloc
<1>2. CASE len = 0
  <2>1. /\ pc = "idle" /\ res' = "none" /\ req' = NoRequest
        /\ UNCHANGED <<heaps, active, active_free, actual, mem, word, blocks, pc, locals>>
    BY <1>2 DEF malloc
  <2>2. NoRequest \in Request
    BY DEF NoRequest, Request
  <2>3. TypeOK'
    BY <2>1, <2>2 DEF IInv, TypeOK, locals
  <2>4. Phase'
    BY <2>1 DEF IInv, Phase, Fresh, Growing, Exhausted
  <2>5. Shape(heaps', Break') /\ Tiled(word', heaps') /\ Held(word', blocks')
    BY <2>1 DEF IInv, Break
  <2> QED BY <2>1, <2>3, <2>4, <2>5, IdleInv
<1> QED BY <1>1, <1>2

-----------------------------------------------------------------------------
(* Buffers cut from the rest of a heap, and the growth of heaps.           *)

\* A call returns the buffer at ptr, new among those that are held.
LEMMA Returned ==
  ASSUME IInv, Asked, NEW ptr \in Nat, NEW u, Words(u), Return(ptr, u),
         Taken(u) = Taken(word) \cup {ptr - 4}, ptr - 4 \notin Taken(word),
         \A a \in Taken(word) : u[a].size = word[a].size,
         req.size <= u[ptr - 4].size, u[ptr - 4].size \in Nat
  PROVE  /\ Words(word') /\ Blocks(blocks') /\ Held(word', blocks')
         /\ SameSizes(u, word')
         /\ pc' = "idle" /\ res' = "buffer" /\ req' \in Request
         /\ cur' = 0 /\ possible' = 0 /\ end_free' = 0
<1>1. pc' = "idle" /\ res' = "buffer" /\ req' = NoRequest
      /\ cur' = 0 /\ possible' = 0 /\ end_free' = 0
  BY DEF Return, EndCall
<1>2. NoRequest \in Request
  BY DEF NoRequest, Request
<1>3. Words(word) /\ Blocks(blocks) /\ Held(word, blocks)
      /\ req.len \in Nat /\ req.size \in Nat
  BY Facts
<1>4. req.len <= req.size /\ (req.old = 0 \/ req.old \in DOMAIN blocks)
  BY DEF Asked
<1>5. req.len <= u[ptr - 4].size
  BY <1>3, <1>4
<1>6. word' = IF req.old = 0 THEN u ELSE Freed(u, req.old)
  BY DEF Return
<1>7. blocks' = [p \in (DOMAIN blocks \ {req.old}) \cup {ptr} |->
                   IF p = ptr THEN req.len ELSE blocks[p]]
  BY DEF Return
<1>8. Held(word', blocks')
  <2>1. Handed(u, word', blocks, blocks', ptr, req.len, req.old)
    BY <1>6, <1>7 DEF Handed
  <2>2. PICK len \in Nat : len = req.len
    BY <1>3
  <2>3. len <= u[ptr - 4].size /\ Handed(u, word', blocks, blocks', ptr, len, req.old)
    BY <1>5, <2>1, <2>2
  <2> QED BY <1>3, <1>4, <2>3, HeldReturned
<1>9. Words(word') /\ SameSizes(u, word')
  <2>1. CASE req.old = 0
    BY <1>6, <2>1 DEF SameSizes
  <2>2. CASE req.old # 0
    <3>1. Words(Freed(u, req.old)) /\ SameSizes(u, Freed(u, req.old))
      BY FreedSame
    <3> QED BY <1>6, <2>2, <3>1
  <2> QED BY <2>1, <2>2
<1>10. Blocks(blocks')
  BY <1>3, <1>7 DEF Blocks
<1> QED BY <1>1, <1>2, <1>8, <1>9, <1>10

LEMMA OffsetExcept ==
  ASSUME NEW hs \in Seq(Heap), NEW i \in 1 .. Len(hs), NEW o \in Nat
  PROVE  /\ [hs EXCEPT ![i].offset = o] \in Seq(Heap)
         /\ OffsetMoved(hs, [hs EXCEPT ![i].offset = o], i, o)
<1>1. hs[i] \in Heap
  BY HeapFields
<1>2. PICK h : h = [hs[i] EXCEPT !.offset = o]
  OBVIOUS
<1>3. h \in Heap /\ h.base = hs[i].base /\ h.size = hs[i].size /\ h.offset = o
  BY <1>1, <1>2 DEF Heap
<1>4. PICK gs : gs = [hs EXCEPT ![i] = h]
  OBVIOUS
<1>5. gs = [hs EXCEPT ![i].offset = o]
  BY <1>2, <1>4
<1>6. gs \in Seq(Heap) /\ Len(gs) = Len(hs)
  BY <1>3, <1>4
<1>7. \A j \in 1 .. Len(hs) : gs[j] = IF j = i THEN h ELSE hs[j]
  BY <1>4
<1>8. OffsetMoved(hs, gs, i, o)
  BY <1>3, <1>6, <1>7 DEF OffsetMoved
<1> QED BY <1>5, <1>6, <1>8

LEMMA ShapeMoved ==
  ASSUME NEW hs \in Seq(Heap), NEW brk \in Nat, Shape(hs, brk), NEW i \in 1 .. Len(hs),
         NEW o \in Nat, o % 8 = 0, o <= hs[i].size,
         NEW gs, OffsetMoved(hs, gs, i, o)
  PROVE  Shape(gs, brk)
<1>1. /\ Len(gs) = Len(hs)
      /\ \A j \in 1 .. Len(hs) :
           /\ gs[j].base = hs[j].base /\ gs[j].size = hs[j].size
           /\ End(gs[j]) = End(hs[j])
           /\ gs[j].offset = IF j = i THEN o ELSE hs[j].offset
  BY DEF OffsetMoved, End
<1>2. \A j \in 1 .. Len(gs) :
        /\ gs[j].base > 0 /\ gs[j].size > 0 /\ gs[j].size % 8 = 0
        /\ End(gs[j]) <= brk
  BY <1>1 DEF Shape
<1>3. \A j \in 1 .. Len(gs) : gs[j].offset % 8 = 0 /\ gs[j].offset <= gs[j].size
  BY <1>1 DEF Shape
<1>4. Len(gs) = 1 => End(gs[1]) < brk
  BY <1>1 DEF Shape
<1>5. Len(gs) = 2 => End(gs[1]) < gs[2].base /\ End(gs[2]) = brk
  BY <1>1 DEF Shape
<1>6. Len(gs) <= 2
  BY <1>1 DEF Shape
<1> QED BY <1>2, <1>3, <1>4, <1>5, <1>6 DEF Shape

LEMMA MemoryMallocInv ==
  ASSUME IInv, memory_malloc
  PROVE  IInv'
<1>1. /\ heaps \in Seq(Heap) /\ Len(heaps) \in Nat /\ Break \in Nat /\ Shape(heaps, Break)
      /\ Words(word) /\ Blocks(blocks) /\ Tiled(word, heaps) /\ Held(word, blocks)
      /\ active \in Nat /\ req.size \in Nat
  BY Facts
<1>2. pc = "alloc" /\ Fits
  BY DEF memory_malloc
<1>3. Growing /\ Asked
  BY <1>2 DEF IInv, Phase, Fresh, Exhausted, Calls
<1>4. PICK i \in 1 .. Len(heaps) : i = active + 1 /\ i = Len(heaps)
  BY <1>1, <1>3 DEF Growing
<1>5. Active = heaps[i]
  BY <1>4 DEF Active
<1>6. PICK size \in Nat : size = req.size /\ Sized(size)
  BY <1>1, <1>3 DEF Asked
<1>7. PICK t \in Nat, o \in Nat, z \in Nat :
        t = Top(heaps[i]) /\ o = heaps[i].offset /\ z = heaps[i].size
  BY <1>1, HeapFields
<1>8. o + size + 4 <= z
  BY <1>2, <1>5, <1>6, <1>7 DEF Fits
<1>9. heaps' = [heaps EXCEPT ![i].offset = o + size + 4]
  BY <1>4, <1>5, <1>6, <1>7 DEF memory_malloc
<1>10. PICK u : u = Set(t, size, TRUE)
  OBVIOUS
<1>11. Return(t + 4, u)
  BY <1>5, <1>6, <1>7, <1>10 DEF memory_malloc
<1>12. UNCHANGED <<active, active_free, actual, mem>>
  BY DEF memory_malloc
<1>13. Words(u) /\ Written(word, u, t, size) /\ Taken(u) = (Taken(word) \ {t}) \cup {t}
  BY <1>1, <1>10, SetWritten
<1>14. heaps' \in Seq(Heap) /\ OffsetMoved(heaps, heaps', i, o + size + 4)
  <2>1. PICK n \in Nat : n = o + size + 4
    OBVIOUS
  <2>2. heaps' = [heaps EXCEPT ![i].offset = n]
    BY <1>9, <2>1
  <2>3. heaps' \in Seq(Heap) /\ OffsetMoved(heaps, heaps', i, n)
    BY <1>1, <2>2, OffsetExcept
  <2> QED BY <2>1, <2>3
<1>15. Tiled(u, heaps') /\ t \notin DOMAIN word
  BY <1>1, <1>6, <1>7, <1>8, <1>13, <1>14, TiledWritten
<1>16. t + 4 - 4 = t /\ t + 4 \in Nat
  OBVIOUS
<1>17. t \notin Taken(word)
  BY <1>15 DEF Taken
<1>18. Taken(u) = Taken(word) \cup {t}
  BY <1>13, <1>17
<1>19. \A a \in Taken(word) : u[a].size = word[a].size
  BY <1>13, <1>17 DEF Written, Taken
<1>20. req.size <= u[t].size /\ u[t].size \in Nat
  BY <1>6, <1>13 DEF Written
<1>21. /\ Words(word') /\ Blocks(blocks') /\ Held(word', blocks')
       /\ SameSizes(u, word')
       /\ pc' = "idle" /\ res' = "buffer" /\ req' \in Request
       /\ cur' = 0 /\ possible' = 0 /\ end_free' = 0
  BY <1>3, <1>11, <1>13, <1>16, <1>17, <1>18, <1>19, <1>20, Returned
<1>22. Tiled(word', heaps')
  BY <1>15, <1>21, TiledSame
<1>23. Shape(heaps', Break')
  <2>1. o % 8 = 0
    BY <1>1, <1>7 DEF Shape
  <2>2. PICK n \in Nat : n = o + size + 4 /\ n % 8 = 0
    BY <1>6, <2>1, SizedOffset
  <2>3. n <= heaps[i].size /\ OffsetMoved(heaps, heaps', i, n)
    BY <1>7, <1>8, <1>14, <2>2
  <2>4. Shape(heaps', Break)
    BY <1>1, <2>2, <2>3, ShapeMoved
  <2> QED BY <1>12, <2>4 DEF Break
<1>24. TypeOK'
  BY <1>12, <1>14, <1>21 DEF IInv, TypeOK, OffsetMoved, Words, Blocks
<1>25. Phase'
  <2>1. Len(heaps') = Len(heaps)
    BY <1>14 DEF OffsetMoved
  <2>2. ASSUME NEW j \in 1 .. active' PROVE heaps'[j].offset = heaps'[j].size
    <3>1. j \in 1 .. active /\ j # i /\ j \in 1 .. Len(heaps)
      BY <1>1, <1>4, <1>12, <2>2
    <3>2. heaps[j].offset = heaps[j].size
      BY <1>3, <3>1 DEF Growing
    <3> QED BY <1>14, <3>1, <3>2 DEF OffsetMoved
  <2>3. Growing'
    BY <1>3, <1>12, <1>21, <2>1, <2>2 DEF Growing
  <2> QED BY <2>3 DEF Phase
<1> QED BY <1>21, <1>22, <1>23, <1>24, <1>25, IdleInv

\* cleanup_remaining leaves the active heap full, and nothing else changes for
\* clients.
LEMMA Cleaned ==
  ASSUME IInv, Growing
  PROVE  /\ CleanedHeaps \in Seq(Heap) /\ Len(CleanedHeaps) = Len(heaps)
         /\ \A j \in 1 .. Len(heaps) :
              /\ CleanedHeaps[j].base = heaps[j].base
              /\ CleanedHeaps[j].size = heaps[j].size
              /\ CleanedHeaps[j].offset = CleanedHeaps[j].size
         /\ Shape(CleanedHeaps, Break)
         /\ Words(CleanedWords) /\ Tiled(CleanedWords, CleanedHeaps)
         /\ Held(CleanedWords, blocks)
<1>1. /\ heaps \in Seq(Heap) /\ Len(heaps) \in Nat /\ Break \in Nat /\ Shape(heaps, Break)
      /\ Words(word) /\ Blocks(blocks) /\ Tiled(word, heaps) /\ Held(word, blocks)
      /\ active \in Nat
  BY Facts
<1>2. PICK i \in 1 .. Len(heaps) : i = active + 1 /\ i = Len(heaps)
  BY <1>1 DEF Growing
<1>3. Active = heaps[i]
  BY <1>2 DEF Active
<1>4. PICK t \in Nat, o \in Nat, z \in Nat :
        t = Top(heaps[i]) /\ o = heaps[i].offset /\ z = heaps[i].size
  BY <1>1, HeapFields
<1>5. z % 8 = 0 /\ o % 8 = 0 /\ o <= z
  BY <1>1, <1>4 DEF Shape
<1>6. PICK gs : gs = CleanedHeaps
  OBVIOUS
<1>7. gs \in Seq(Heap) /\ OffsetMoved(heaps, gs, i, z)
  <2>1. gs = [heaps EXCEPT ![i].offset = z]
    BY <1>2, <1>3, <1>4, <1>6 DEF CleanedHeaps
  <2> QED BY <1>1, <2>1, OffsetExcept
<1>8. /\ Len(gs) = Len(heaps)
      /\ \A j \in 1 .. Len(heaps) :
           /\ gs[j].base = heaps[j].base /\ gs[j].size = heaps[j].size
           /\ gs[j].offset = IF j = i THEN z ELSE heaps[j].offset
           /\ End(gs[j]) = End(heaps[j])
  BY <1>7 DEF OffsetMoved, End
<1>9. \A j \in 1 .. Len(heaps) : gs[j].offset = gs[j].size
  <2>1. SUFFICES ASSUME NEW j \in 1 .. Len(heaps) PROVE gs[j].offset = gs[j].size
    OBVIOUS
  <2>2. CASE j = i
    BY <1>4, <1>8, <2>2
  <2>3. CASE j # i
    <3>1. j \in 1 .. active
      BY <1>1, <1>2, <2>3
    <3> QED BY <1>8, <2>3, <3>1 DEF Growing
  <2> QED BY <2>2, <2>3
<1>10. Shape(gs, Break)
  <2>1. z <= heaps[i].size
    BY <1>4
  <2> QED BY <1>1, <1>5, <1>7, <2>1, ShapeMoved
<1>11. CASE o = z
  <2>1. CleanedWords = word
    BY <1>3, <1>4, <1>11 DEF CleanedWords
  <2>2. \A j \in 1 .. Len(heaps) : gs[j].offset = heaps[j].offset /\ heaps[j].size <= gs[j].size
    <3>1. SUFFICES ASSUME NEW j \in 1 .. Len(heaps)
                   PROVE  gs[j].offset = heaps[j].offset /\ heaps[j].size <= gs[j].size
      OBVIOUS
    <3>2. gs[j].size = heaps[j].size /\ heaps[j].size \in Nat
      BY <1>1, <1>8, HeapFields
    <3>3. gs[j].offset = heaps[j].offset
      BY <1>4, <1>8, <1>11
    <3> QED BY <3>2, <3>3
  <2>3. Tiled(word, gs)
    <3>1. Len(heaps) <= Len(gs)
      BY <1>1, <1>8
    <3>2. \A j \in 1 .. Len(gs) : Len(heaps) < j => gs[j].offset = 0
      BY <1>1, <1>8
    <3> QED BY <1>1, <1>7, <1>8, <1>10, <2>2, <3>1, <3>2, TiledGrown
  <2> QED BY <1>1, <1>6, <1>7, <1>8, <1>9, <1>10, <2>1, <2>3
<1>12. CASE o < z
  <2>1. PICK size \in Nat : size = z - o - 4 /\ Sized(size)
    BY <1>5, <1>12, SizedRemaining
  <2>2. PICK v : v = Set(t, size, FALSE)
    OBVIOUS
  <2>3. CleanedWords = v
    <3>1. Active.offset # Active.size
      BY <1>3, <1>4, <1>12
    <3> QED BY <1>3, <1>4, <2>1, <2>2, <3>1 DEF CleanedWords
  <2>4. Words(v) /\ Written(word, v, t, size) /\ Taken(v) = Taken(word) \ {t}
    <3>1. Words(v) /\ Written(word, v, t, size)
          /\ Taken(v) = (Taken(word) \ {t}) \cup (IF FALSE THEN {t} ELSE {})
      BY <1>1, <2>2, SetWritten, Zenon
    <3> QED BY <3>1
  <2>5. o + size + 4 = z
    BY <2>1
  <2>6. OffsetMoved(heaps, gs, i, heaps[i].offset + size + 4)
    BY <1>4, <1>7, <2>5
  <2>7. heaps[i].offset + size + 4 <= heaps[i].size
    BY <1>4, <2>5
  <2>8. Tiled(v, gs) /\ t \notin DOMAIN word
    BY <1>1, <1>4, <1>7, <2>1, <2>4, <2>6, <2>7, TiledWritten
  <2>9. Taken(v) = Taken(word) /\ \A a \in Taken(word) : v[a].size = word[a].size
    BY <2>4, <2>8 DEF Taken, Written
  <2>10. Held(v, blocks)
    BY <1>1, <2>9, HeldSame
  <2> QED BY <1>6, <1>7, <1>8, <1>9, <1>10, <2>3, <2>4, <2>8, <2>10
<1> QED BY <1>5, <1>11, <1>12

LEMMA SecondHeap ==
  ASSUME NEW hs \in Seq(Heap), Len(hs) = 1, NEW h \in Heap
  PROVE  /\ Append(hs, h) \in Seq(Heap) /\ Len(Append(hs, h)) = 2
         /\ Append(hs, h)[1] = hs[1] /\ Append(hs, h)[2] = h
<1>1. Append(hs, h) \in Seq(Heap)
  BY AppendProperties, Zenon
<1>2. Len(Append(hs, h)) = Len(hs) + 1
  BY AppendProperties, Zenon
<1>3. ASSUME NEW j \in 1 .. Len(hs) PROVE Append(hs, h)[j] = hs[j]
  BY AppendProperties
<1>4. Append(hs, h)[Len(hs) + 1] = h
  BY AppendProperties, Zenon
<1>5. Len(hs) + 1 = 2 /\ 1 \in 1 .. Len(hs)
  OBVIOUS
<1> QED BY <1>1, <1>2, <1>3, <1>4, <1>5, Zenon

\* The active heap is expanded, or another one starts at the break.
LEMMA GrowActiveHeapInv ==
  ASSUME IInv, GrowActiveHeap
  PROVE  IInv'
<1>1. /\ heaps \in Seq(Heap) /\ Len(heaps) \in Nat /\ Break \in Nat /\ Shape(heaps, Break)
      /\ Words(word) /\ Blocks(blocks) /\ Tiled(word, heaps) /\ Held(word, blocks)
      /\ active \in Nat /\ mem \in Nat
  BY Facts
<1>2. pc = "alloc"
  BY DEF GrowActiveHeap
<1>3. Growing /\ Asked
  BY <1>2 DEF IInv, Phase, Fresh, Exhausted, Calls
<1>4. PICK i \in 1 .. Len(heaps) : i = active + 1 /\ i = Len(heaps)
  BY <1>1, <1>3 DEF Growing
<1>5. Active = heaps[i]
  BY <1>4 DEF Active
<1>6. /\ PageSize \in Nat /\ PageSize > 0 /\ PageSize % 8 = 0
      /\ heap_adj = PageSize /\ PagesFor(heap_adj) = 1
      /\ (mem + 1) * PageSize = Break + PageSize
  BY <1>1, OnePage
<1>7. mem' = mem + 1 /\ mem + 1 <= MaxPages
  BY <1>6 DEF GrowActiveHeap
<1>8. Break' = Break + PageSize /\ Break + PageSize \in Nat
  BY <1>1, <1>6, <1>7 DEF Break
<1>9. mem' \in InitPages .. MaxPages
  BY <1>7, MallocHeapAssumption DEF IInv, TypeOK
<1>10. UNCHANGED <<active_free, actual, blocks, pc, req, cur, possible, end_free, res>>
  BY DEF GrowActiveHeap, locals
<1>11. Calls' /\ Searched'
  BY <1>2, <1>3, <1>10 DEF Calls, Searched, Asked
<1>12. PICK n \in Nat : n = Len(heaps)
  BY <1>1
<1>13. i = n /\ (n = 1 \/ n = 2)
  <2>1. n <= 2 /\ n > 0
    BY <1>1, <1>3, <1>12 DEF Shape, Growing
  <2> QED BY <1>4, <1>12, <2>1
<1>14. CASE End(Active) = Break
  <2>1. heaps' = [heaps EXCEPT ![i].size = @ + PageSize] /\ active' = active /\ word' = word
    BY <1>4, <1>5, <1>6, <1>14 DEF GrowActiveHeap
  <2>2. n = 2
    <3>1. SUFFICES ASSUME n = 1 PROVE FALSE
      BY <1>13
    <3>2. End(heaps[1]) < Break
      BY <1>1, <1>12, <3>1 DEF Shape
    <3>3. End(heaps[1]) = Break
      BY <1>5, <1>13, <1>14, <3>1
    <3> QED BY <1>1, <3>2, <3>3
  <2>3. heaps[i] \in Heap /\ heaps[i].size \in Nat
    BY <1>1, HeapFields
  <2>4. PICK z \in Nat : z = heaps[i].size + PageSize
    BY <1>6, <2>3
  <2>5. PICK h : h = [heaps[i] EXCEPT !.size = z]
    OBVIOUS
  <2>6. h \in Heap /\ h.base = heaps[i].base /\ h.size = z /\ h.offset = heaps[i].offset
    BY <2>3, <2>5 DEF Heap
  <2>7. heaps' = [heaps EXCEPT ![i] = h]
    BY <1>1, <2>1, <2>4, <2>5
  <2>8. heaps' \in Seq(Heap) /\ Len(heaps') = Len(heaps)
    BY <1>1, <2>6, <2>7
  <2>9. heaps'[2] = h /\ heaps'[1] = heaps[1] /\ i = 2
    <3>1. 1 \in 1 .. Len(heaps) /\ 2 \in 1 .. Len(heaps) /\ i = 2
      BY <1>12, <1>13, <2>2
    <3> QED BY <1>1, <2>7, <3>1
  <2>0. 1 \in 1 .. Len(heaps) /\ 2 \in 1 .. Len(heaps)
    BY <1>12, <2>2
  <2>10. z % 8 = 0 /\ z > 0
    <3>1. PICK y \in Nat : y = heaps[i].size
      BY <2>3
    <3>2. y % 8 = 0 /\ y > 0
      BY <1>1, <3>1 DEF Shape
    <3>3. z = y + PageSize
      BY <2>4, <3>1
    <3> QED BY <1>6, <3>2, <3>3
  <2>11. Shape(heaps', Break')
    <3>1. PICK y \in Nat, b \in Nat, e \in Nat :
            y = heaps[2].size /\ b = heaps[2].base /\ e = End(heaps[2]) /\ e = b + y
      BY <1>1, <2>0, HeapFields
    <3>2. End(heaps[2]) = Break /\ End(heaps[1]) < heaps[2].base
      BY <1>1, <1>12, <2>2 DEF Shape
    <3>3. z = y + PageSize
      BY <2>4, <2>9, <3>1
    <3>4. b + z = Break + PageSize
      <4>1. PICK brk \in Nat, p \in Nat : brk = Break /\ p = PageSize
        BY <1>1, <1>6
      <4>2. brk = b + y /\ z = y + p
        BY <3>1, <3>2, <3>3, <4>1
      <4>3. b + z = brk + p
        BY <4>2
      <4> QED BY <4>1, <4>3
    <3>5. End(h) = Break'
      BY <1>8, <2>6, <2>9, <3>1, <3>4 DEF End
    <3>6. End(heaps[1]) \in Nat
      BY <1>1, <2>0, HeapFields
    <3>7. End(heaps[1]) <= Break'
      <4>1. End(heaps[1]) <= Break
        BY <1>1, <1>12, <2>2 DEF Shape
      <4> QED BY <1>1, <1>6, <1>8, <3>6, <4>1
    <3>8. h.base > 0 /\ h.offset % 8 = 0 /\ h.offset <= h.size
      <4>1. heaps[2].base > 0 /\ heaps[2].offset % 8 = 0 /\ heaps[2].offset <= heaps[2].size
        BY <1>1, <1>12, <2>2 DEF Shape
      <4>2. PICK o \in Nat : o = heaps[2].offset
        BY <1>1, <2>0, HeapFields
      <4>3. o <= z
        <5>1. PICK p \in Nat : p = PageSize
          BY <1>6
        <5>2. o <= y /\ z = y + p
          BY <3>1, <3>3, <4>1, <4>2, <5>1
        <5> QED BY <5>2
      <4> QED BY <2>6, <2>9, <4>1, <4>2, <4>3
    <3>9. \A j \in 1 .. 2 : j = 1 \/ j = 2
      OBVIOUS
    <3>10. Len(heaps') = 2
      BY <1>12, <2>2, <2>8
    <3>11. End(heaps'[1]) < heaps'[2].base /\ End(heaps'[2]) = Break'
      BY <2>6, <2>9, <3>2, <3>5
    <3>12. /\ h.size > 0 /\ h.size % 8 = 0 /\ End(h) <= Break'
      BY <1>8, <2>6, <2>10, <3>5
    <3>13. /\ heaps[1].base > 0 /\ heaps[1].size > 0
           /\ heaps[1].size % 8 = 0 /\ heaps[1].offset % 8 = 0
           /\ heaps[1].offset <= heaps[1].size
      BY <1>1, <1>12, <2>2 DEF Shape
    <3> QED BY <2>9, <3>7, <3>8, <3>9, <3>10, <3>11, <3>12, <3>13 DEF Shape
  <2>12. Tiled(word', heaps')
    <3>1. \A j \in 1 .. Len(heaps) : /\ heaps'[j].base = heaps[j].base
                                     /\ heaps'[j].offset = heaps[j].offset
                                     /\ heaps[j].size <= heaps'[j].size
      <4>1. SUFFICES ASSUME NEW j \in 1 .. Len(heaps)
                     PROVE  /\ heaps'[j].base = heaps[j].base
                            /\ heaps'[j].offset = heaps[j].offset
                            /\ heaps[j].size <= heaps'[j].size
        OBVIOUS
      <4>2. heaps[j].size \in Nat
        BY <1>1, HeapFields
      <4>3. CASE j = i
        BY <1>6, <2>4, <2>6, <2>9, <4>2, <4>3
      <4>4. CASE j # i
        <5>1. j = 1
          BY <1>12, <2>2, <2>9, <4>4
        <5> QED BY <2>9, <4>2, <5>1
      <4> QED BY <4>3, <4>4
    <3>2. Len(heaps) <= Len(heaps')
      BY <1>1, <2>8
    <3>3. \A j \in 1 .. Len(heaps') : Len(heaps) < j => heaps'[j].offset = 0
      BY <1>1, <2>8
    <3>4. Tiled(word, heaps')
      BY <1>1, <1>8, <2>8, <2>11, <3>1, <3>2, <3>3, TiledGrown
    <3> QED BY <2>1, <3>4
  <2>13. TypeOK'
    BY <1>9, <1>10, <2>1, <2>8 DEF IInv, TypeOK
  <2>14. Growing'
    <3>1. ASSUME NEW j \in 1 .. active' PROVE heaps'[j].offset = heaps'[j].size
      <4>1. j = 1 /\ j \in 1 .. active
        BY <1>1, <1>4, <2>1, <2>9
      <4>2. heaps[j].offset = heaps[j].size
        BY <1>3, <4>1 DEF Growing
      <4> QED BY <2>9, <4>1, <4>2
    <3> QED BY <1>3, <1>10, <2>1, <2>8, <3>1 DEF Growing
  <2>15. Phase'
    BY <2>14 DEF Phase
  <2> QED BY <1>1, <1>10, <1>11, <2>1, <2>11, <2>12, <2>13, <2>15 DEF IInv
<1>15. CASE End(Active) # Break
  <2>1. n = 1
    <3>1. SUFFICES ASSUME n = 2 PROVE FALSE
      BY <1>13
    <3>2. End(heaps[2]) = Break
      BY <1>1, <1>12, <3>1 DEF Shape
    <3> QED BY <1>5, <1>13, <1>15, <3>1, <3>2
  <2>2. PICK gs : gs = CleanedHeaps
    OBVIOUS
  <2>3. PICK v : v = CleanedWords
    OBVIOUS
  <2>4. /\ gs \in Seq(Heap) /\ Len(gs) = 1
        /\ gs[1].base = heaps[1].base /\ gs[1].size = heaps[1].size
        /\ gs[1].offset = gs[1].size
        /\ Shape(gs, Break) /\ Words(v) /\ Tiled(v, gs) /\ Held(v, blocks)
    BY <1>3, <1>12, <2>1, <2>2, <2>3, Cleaned
  <2>5. PICK h : h = [base |-> Break, size |-> PageSize, offset |-> 0]
    OBVIOUS
  <2>6. h \in Heap /\ h.base = Break /\ h.size = PageSize /\ h.offset = 0
    BY <1>1, <1>6, <2>5 DEF Heap
  <2>7. heaps' = Append(gs, h) /\ word' = v /\ active' = active + 1
    BY <1>6, <1>15, <2>2, <2>3, <2>5 DEF GrowActiveHeap
  <2>8. heaps' \in Seq(Heap) /\ Len(heaps') = 2 /\ heaps'[1] = gs[1] /\ heaps'[2] = h
    BY <2>4, <2>6, <2>7, SecondHeap
  <2>9. Shape(heaps', Break')
    <3>1. End(h) = Break'
      BY <1>8, <2>6 DEF End
    <3>2. End(gs[1]) < Break
      BY <2>4 DEF Shape
    <3>3. End(gs[1]) \in Nat
      BY <2>4, HeapFields
    <3>4. End(gs[1]) <= Break' /\ End(gs[1]) < h.base /\ h.base > 0
      BY <1>1, <1>6, <1>8, <2>6, <3>2, <3>3
    <3>5. /\ gs[1].base > 0 /\ gs[1].size > 0
          /\ gs[1].size % 8 = 0 /\ gs[1].offset % 8 = 0
          /\ gs[1].offset <= gs[1].size
      BY <2>4 DEF Shape
    <3>6. /\ h.size > 0 /\ h.size % 8 = 0 /\ h.offset % 8 = 0
          /\ h.offset <= h.size /\ End(h) <= Break'
      BY <1>6, <1>8, <2>6, <3>1
    <3>7. \A j \in 1 .. 2 : j = 1 \/ j = 2
      OBVIOUS
    <3> QED BY <2>8, <3>1, <3>4, <3>5, <3>6, <3>7 DEF Shape
  <2>10. Tiled(word', heaps')
    <3>1. \A j \in 1 .. Len(gs) : /\ heaps'[j].base = gs[j].base
                                  /\ heaps'[j].offset = gs[j].offset
                                  /\ gs[j].size <= heaps'[j].size
      <4>1. gs[1].size \in Nat
        BY <2>4, HeapFields
      <4>2. \A j \in 1 .. Len(gs) : j = 1
        BY <2>4
      <4> QED BY <2>8, <4>1, <4>2
    <3>2. Len(gs) <= Len(heaps')
      BY <2>4, <2>8
    <3>3. \A j \in 1 .. Len(heaps') : Len(gs) < j => heaps'[j].offset = 0
      <4>1. \A j \in 1 .. 2 : 1 < j => j = 2
        OBVIOUS
      <4> QED BY <2>4, <2>6, <2>8, <4>1
    <3>4. Tiled(v, heaps')
      BY <1>1, <1>8, <2>4, <2>8, <2>9, <3>1, <3>2, <3>3, TiledGrown
    <3> QED BY <2>7, <3>4
  <2>11. active' = 1 /\ active_free' = 0 /\ actual' = 16
    BY <1>3, <1>4, <1>10, <1>13, <2>1, <2>7 DEF Growing
  <2>12. TypeOK'
    <3>1. Words(word')
      BY <2>4, <2>7
    <3> QED BY <1>9, <1>10, <2>8, <2>11, <3>1 DEF IInv, TypeOK, Words
  <2>13. Growing'
    <3>1. ASSUME NEW j \in 1 .. active' PROVE heaps'[j].offset = heaps'[j].size
      BY <2>4, <2>8, <2>11
    <3> QED BY <1>2, <1>10, <2>8, <2>11, <3>1 DEF Growing
  <2>14. Phase'
    BY <2>13 DEF Phase
  <2> QED BY <1>10, <1>11, <2>4, <2>7, <2>9, <2>10, <2>12, <2>14 DEF IInv
<1> QED BY <1>14, <1>15

\* The host refuses: the search starts on full heaps, or the instance traps.
LEMMA RefuseActiveHeapInv ==
  ASSUME IInv, RefuseActiveHeap
  PROVE  IInv'
<1>1. /\ heaps \in Seq(Heap) /\ Len(heaps) \in Nat /\ Break \in Nat /\ Shape(heaps, Break)
      /\ Tiled(word, heaps) /\ Held(word, blocks) /\ active \in Nat /\ active_free \in Nat
  BY Facts
<1>2. pc = "alloc"
  BY DEF RefuseActiveHeap
<1>3. Growing /\ Asked
  BY <1>2 DEF IInv, Phase, Fresh, Exhausted, Calls
<1>4. UNCHANGED <<active_free, mem, blocks, req, res>>
  BY DEF RefuseActiveHeap
<1>5. Break' = Break /\ Asked'
  BY <1>3, <1>4 DEF Break, Asked
<1>6. CASE pc' = "trapped" /\ UNCHANGED <<heaps, active, actual, word, locals>>
  <2>1. TypeOK'
    BY <1>4, <1>6 DEF IInv, TypeOK, locals
  <2>2. Phase'
    BY <1>3, <1>4, <1>6 DEF Phase, Growing
  <2>3. Calls' /\ Searched'
    BY <1>6 DEF Calls, Searched
  <2> QED BY <1>1, <1>4, <1>5, <1>6, <2>1, <2>2, <2>3 DEF IInv
<1>7. CASE /\ word' = CleanedWords /\ heaps' = CleanedHeaps
           /\ active' = active + 1 /\ actual' = active + 1
           /\ StartSearch(CleanedHeaps)
  <2>1. PICK gs : gs = CleanedHeaps
    OBVIOUS
  <2>2. /\ gs \in Seq(Heap) /\ Len(gs) = Len(heaps) /\ Shape(gs, Break)
        /\ \A j \in 1 .. Len(gs) : gs[j].offset = gs[j].size
        /\ Words(word') /\ Tiled(word', gs) /\ Held(word', blocks)
    BY <1>3, <1>7, <2>1, Cleaned
  <2>3. gs = heaps' /\ StartSearch(gs)
    BY <1>7, <2>1
  <2>4. active' = Len(gs) /\ Len(gs) > 0 /\ active_free = 0 /\ actual' = active'
    BY <1>3, <1>7, <2>2 DEF Growing
  <2>5. active_free < Len(gs) /\ active_free' = active_free
    BY <1>4, <2>4
  <2>6. /\ pc' = "search" /\ AtBuffer' /\ Searched'
        /\ cur' \in Nat /\ possible' = 0 /\ end_free' \in Nat
    BY <1>1, <2>2, <2>3, <2>5, SearchStarts
  <2>7. TypeOK'
    BY <1>1, <1>4, <2>2, <2>3, <2>4, <2>5, <2>6 DEF IInv, TypeOK, Words
  <2>8. Phase'
    BY <2>2, <2>3, <2>4, <2>5, <2>6 DEF Phase, Exhausted
  <2>9. Calls'
    BY <1>5, <2>6 DEF Calls
  <2> QED BY <1>4, <1>5, <2>2, <2>3, <2>6, <2>7, <2>8, <2>9 DEF IInv
<1> QED BY <1>6, <1>7 DEF RefuseActiveHeap

-----------------------------------------------------------------------------
(* The search for freed buffers.                                           *)

\* In a search all heaps are full and the call is at a word of one of them.
LEMMA InSearch ==
  ASSUME IInv, pc \in {"search", "merge"}
  PROVE  /\ Exhausted /\ Asked /\ AtBuffer
         /\ active_free + 1 \in 1 .. Len(heaps) /\ FreeHeap = heaps[active_free + 1]
         /\ Top(FreeHeap) = End(FreeHeap)
<1>1. Exhausted
  BY DEF IInv, Phase, Fresh, Growing
<1>2. Asked /\ AtBuffer
  BY DEF IInv, Calls
<1>3. PICK i : i = active_free + 1
  OBVIOUS
<1>4. i \in 1 .. Len(heaps)
  BY <1>1, <1>3, Facts DEF Exhausted
<1>5. FreeHeap = heaps[i]
  BY <1>3 DEF FreeHeap
<1>6. heaps[i].offset = heaps[i].size
  BY <1>1, <1>4 DEF Exhausted
<1> QED BY <1>1, <1>2, <1>3, <1>4, <1>5, <1>6 DEF Top, End

\* A buffer has been passed, and with it all runs of free buffers up to it.
LEMMA AdvanceInv ==
  ASSUME IInv, pc \in {"search", "merge"},
         NEW v, Words(v), Tiled(v, heaps), Held(v, blocks), cur - 4 \in DOMAIN v,
         NEW size \in Nat, v[cur - 4].size = size,
         NoRoomBefore(v, FreeHeap, cur + size, req.size),
         \A j \in 1 .. Len(heaps) : Done(j) => NoRoom(v, heaps[j], req.size),
         Advance(v, size), UNCHANGED <<heaps, active, actual, mem, req>>
  PROVE  IInv'
<1>1. /\ heaps \in Seq(Heap) /\ Len(heaps) \in Nat /\ Break \in Nat /\ Shape(heaps, Break)
      /\ active_free \in Nat /\ cur \in Nat /\ end_free \in Nat /\ req \in Request
      /\ Blocks(blocks)
  BY Facts
<1>2. Exhausted /\ Asked /\ AtBuffer /\ Top(FreeHeap) = End(FreeHeap)
  BY InSearch
<1>3. PICK i \in 1 .. Len(heaps) : i = active_free + 1 /\ FreeHeap = heaps[i]
  BY InSearch
<1>4. PICK k \in Nat : k = cur - 4 /\ k \in DOMAIN v /\ k + 4 = cur
  <2>1. cur - 4 \in Nat
    BY WordFields
  <2> QED BY <1>1, <2>1
<1>5. Within(heaps[i], k)
  BY <1>2, <1>3, <1>4 DEF AtBuffer
<1>6. PICK f \in Nat : f = cur + size
  BY <1>1
<1>7. Following(v, k) = f
  <2>1. Following(v, k) = k + 4 + v[k].size
    BY <1>4, WordFields
  <2> QED BY <1>4, <1>6, <2>1
<1>8. PICK e \in Nat : e = End(heaps[i])
  BY <1>1, HeapFields
<1>9. f = e \/ (f < e /\ f \in DOMAIN v)
  <2>1. Tiles(v, heaps[i])
    BY DEF Tiled
  <2>2. Top(heaps[i]) = e
    BY <1>2, <1>3, <1>8
  <2> QED BY <1>4, <1>5, <1>7, <2>1, <2>2 DEF Tiles
<1>10. word' = v
  BY DEF Advance, ReturnNull
<1>11. Break' = Break /\ Shape(heaps', Break') /\ Tiled(word', heaps') /\ Words(word')
  BY <1>1, <1>10 DEF Break
<1>12. blocks' = blocks
  BY DEF Advance, ReturnNull
<1>13. Held(word', blocks') /\ Asked'
  BY <1>2, <1>10, <1>12 DEF Asked
<1>14. \A j \in 1 .. Len(heaps) : heaps[j].offset = heaps[j].size
  BY <1>2 DEF Exhausted
<1>15. active = Len(heaps) /\ actual = Len(heaps) /\ Len(heaps) > 0
  BY <1>2 DEF Exhausted
<1>16. CASE f + 4 < e
  <2>1. cur + size + 4 = f + 4 /\ cur + size + 4 < End(FreeHeap)
    BY <1>3, <1>6, <1>8, <1>16
  <2>2. /\ pc' = "search" /\ cur' = f + 4 /\ possible' = 0
        /\ UNCHANGED <<active_free, blocks, end_free, res>>
    <3>1. ~(cur + size + 4 >= End(FreeHeap))
      BY <1>3, <1>6, <1>8, <1>16
    <3> QED BY <2>1, <3>1 DEF Advance
  <2>3. f \in DOMAIN v /\ f < e
    BY <1>9, <1>16
  <2>4. cur' - 4 = f /\ cur' \in Nat
    BY <2>2
  <2>5. FreeHeap' = heaps[i]
    BY <1>3, <2>2 DEF FreeHeap
  <2>6. Within(heaps[i], f)
    <3>1. PICK b \in Nat : b = heaps[i].base
      BY <1>1, HeapFields
    <3>2. b <= k
      BY <1>5, <3>1 DEF Within
    <3>3. b <= f
      BY <1>4, <1>6, <3>2
    <3> QED BY <1>8, <2>3, <3>1, <3>3 DEF Within
  <2>7. AtBuffer'
    <3>1. end_free' < Len(heaps')
      BY <1>2, <2>2 DEF AtBuffer
    <3>2. cur' - 4 \in DOMAIN word' /\ Within(FreeHeap', cur' - 4)
      BY <1>10, <2>3, <2>4, <2>5, <2>6
    <3> QED BY <3>1, <3>2 DEF AtBuffer
  <2>8. Searched'
    <3>1. NoRoomBefore(word', FreeHeap', cur' - 4, req'.size)
      BY <1>3, <1>6, <1>10, <2>4, <2>5
    <3>2. \A j \in 1 .. Len(heaps') : Done(j)' => NoRoom(word', heaps'[j], req'.size)
      BY <1>10, <2>2 DEF Done
    <3> QED BY <2>2, <3>1, <3>2 DEF Searched
  <2>9. TypeOK'
    BY <1>11, <2>2, <2>4 DEF IInv, TypeOK, Words
  <2>10. Phase'
    BY <1>2, <2>2 DEF Phase, Exhausted
  <2>11. Calls'
    BY <1>13, <2>2, <2>7 DEF Calls
  <2> QED BY <1>11, <1>13, <2>8, <2>9, <2>10, <2>11 DEF IInv
<1>17. CASE f + 4 >= e
  <2>1. f = e
    <3>1. SUFFICES ASSUME f < e, f \in DOMAIN v PROVE FALSE
      BY <1>9
    <3>2. Within(heaps[i], f)
      <4>1. PICK b \in Nat : b = heaps[i].base
        BY <1>1, HeapFields
      <4>2. b <= k
        BY <1>5, <4>1 DEF Within
      <4>3. b <= f
        BY <1>4, <1>6, <4>2
      <4> QED BY <1>8, <3>1, <4>1, <4>3 DEF Within
    <3>3. Following(v, f) <= Top(heaps[i])
      BY <1>1, <3>1, <3>2, BelowTop
    <3>4. Top(heaps[i]) = e
      BY <1>2, <1>3, <1>8
    <3>5. PICK z \in Nat : z = v[f].size /\ Following(v, f) = f + 4 + z
      BY <3>1, WordFields
    <3>6. z >= 4
      BY <3>1, <3>5, SizedPositive DEF Tiled
    <3>7. f + 4 + z <= e
      BY <3>3, <3>4, <3>5
    <3> QED BY <1>17, <3>6, <3>7
  <2>2. NoRoom(v, heaps[i], req.size)
    <3>1. SUFFICES ASSUME NEW a \in DOMAIN v, NEW b \in DOMAIN v,
                          Within(heaps[i], a), Within(heaps[i], b), FreeRun(v, a, b)
                   PROVE  Following(v, b) - (a + size_marker) < req.size
      BY DEF NoRoom
    <3>2. NoRoomBefore(v, heaps[i], e, req.size)
      BY <1>3, <1>6, <2>1
    <3>3. a < e
      BY <1>8, <3>1 DEF Within
    <3> QED BY <3>1, <3>2, <3>3 DEF NoRoomBefore
  <2>3. PICK n \in Nat : n = NextFreeHeap
    BY <1>1 DEF NextFreeHeap
  <2>4. IF i = Len(heaps) THEN n = 0 ELSE n = i
    BY <1>3, <1>15, <2>3 DEF NextFreeHeap
  <2>5. PICK l \in Nat : l = Len(heaps)
    BY <1>1
  <2>6. n < l /\ i \in 1 .. l
    BY <2>4, <2>5
  <2>7. end_free < l
    BY <1>2, <2>5 DEF AtBuffer
  <2>8. cur + size + 4 >= End(FreeHeap) /\ ~(cur + size + 4 < End(FreeHeap))
    BY <1>3, <1>6, <1>8, <1>17
  <2>9. active_free' = n
    BY <2>3, <2>8 DEF Advance
  <2>10. CASE n = end_free
    <3>1. ReturnNull
      BY <2>3, <2>8, <2>10 DEF Advance
    <3>2. pc' = "idle" /\ cur' = 0 /\ possible' = 0 /\ end_free' = 0 /\ res' = "null"
      BY <3>1 DEF ReturnNull, EndCall
    <3>3. ASSUME NEW j \in 1 .. Len(heaps)
          PROVE  NoRoom(v, heaps[j], req.size)
      <4>1. CASE j = i
        BY <2>2, <4>1
      <4>2. CASE j # i
        <5>1. Done(j)
          <6>1. j \in 1 .. l
            BY <2>5
          <6>2. IF i = l THEN end_free = 0 ELSE end_free = i
            BY <2>4, <2>5, <2>10
          <6>3. PICK a \in Nat, c \in Nat : a = active_free /\ c = end_free
            BY <1>1
          <6>4. i = a + 1 /\ IF i = l THEN c = 0 ELSE c = i
            BY <1>3, <6>2, <6>3
          <6>5. \/ c <= a /\ c < j /\ j <= a
                \/ a < c /\ (c < j \/ j <= a)
            BY <2>6, <4>2, <6>1, <6>4
          <6> QED BY <6>3, <6>5 DEF Done
        <5> QED BY <5>1
      <4> QED BY <4>1, <4>2
    <3>4. Searched'
      BY <1>10, <3>2, <3>3 DEF Searched
    <3>5. Calls'
      BY <3>2 DEF Calls
    <3>6. TypeOK'
      <4>1. active_free' \in 0 .. Len(heaps')
        BY <2>5, <2>6, <2>9
      <4> QED BY <1>11, <1>12, <3>2, <4>1 DEF IInv, TypeOK, Words
    <3>7. Phase'
      BY <1>14, <1>15, <2>5, <2>6, <2>9, <3>2 DEF Phase, Exhausted
    <3> QED BY <1>11, <1>13, <3>4, <3>5, <3>6, <3>7 DEF IInv
  <2>11. CASE n # end_free
    <3>1. EnterHeap(heaps, n) /\ possible' = 0 /\ UNCHANGED <<blocks, end_free, res>>
      BY <2>3, <2>8, <2>11 DEF Advance
    <3>2. PICK m \in 1 .. Len(heaps) : m = n + 1
      BY <2>5, <2>6
    <3>3. PICK at : at = heaps[m].base + 4
      OBVIOUS
    <3>4. /\ at \in Nat /\ at - 4 \in DOMAIN v
          /\ Within(heaps[m], at - 4)
          /\ NoRoomBefore(v, heaps[m], at - 4, req.size)
      BY <1>1, <1>14, <3>3, HeapStart
    <3>5. pc' = "search" /\ cur' = at
      BY <1>14, <3>1, <3>2, <3>3 DEF EnterHeap
    <3>6. FreeHeap' = heaps[m]
      BY <2>9, <3>2 DEF FreeHeap
    <3>7. AtBuffer'
      <4>1. end_free' < Len(heaps')
        BY <2>5, <2>7, <3>1
      <4>2. cur' - 4 \in DOMAIN word' /\ Within(FreeHeap', cur' - 4)
        BY <1>10, <3>4, <3>5, <3>6
      <4> QED BY <4>1, <4>2 DEF AtBuffer
    <3>8. ASSUME NEW j \in 1 .. Len(heaps), Done(j)'
          PROVE  NoRoom(v, heaps[j], req.size)
      <4>1. CASE j = i
        BY <2>2, <4>1
      <4>2. CASE j # i
        <5>1. Done(j)
          <6>1. j \in 1 .. l
            BY <2>5
          <6>2. PICK a \in Nat, c \in Nat : a = active_free /\ c = end_free
            BY <1>1
          <6>3. i = a + 1 /\ c # n /\ c < l /\ IF i = l THEN n = 0 ELSE n = i
            BY <1>3, <2>4, <2>5, <2>7, <2>11, <6>2
          <6>4. \/ c <= n /\ c < j /\ j <= n
                \/ n < c /\ (c < j \/ j <= n)
            BY <2>9, <3>1, <3>8, <6>2 DEF Done
          <6>5. \/ c <= a /\ c < j /\ j <= a
                \/ a < c /\ (c < j \/ j <= a)
            BY <2>6, <4>2, <6>1, <6>3, <6>4
          <6> QED BY <6>2, <6>5 DEF Done
        <5> QED BY <5>1
      <4> QED BY <4>1, <4>2
    <3>9. Searched'
      <4>1. NoRoomBefore(word', FreeHeap', cur' - 4, req'.size)
        BY <1>10, <3>4, <3>5, <3>6
      <4>2. \A j \in 1 .. Len(heaps') : Done(j)' => NoRoom(word', heaps'[j], req'.size)
        BY <1>10, <3>8
      <4> QED BY <3>5, <4>1, <4>2 DEF Searched
    <3>10. Calls'
      BY <1>13, <3>5, <3>7 DEF Calls
    <3>11. TypeOK'
      <4>1. active_free' \in 0 .. Len(heaps')
        BY <2>5, <2>6, <2>9
      <4> QED BY <1>11, <3>1, <3>4, <3>5, <4>1 DEF IInv, TypeOK, Words
    <3>12. Phase'
      BY <1>14, <1>15, <2>5, <2>6, <2>9, <3>5 DEF Phase, Exhausted
    <3> QED BY <1>11, <1>13, <3>9, <3>10, <3>11, <3>12 DEF IInv
  <2> QED BY <2>10, <2>11
<1> QED BY <1>16, <1>17

LEMMA SkipAllocatedInv ==
  ASSUME IInv, SkipAllocated
  PROVE  IInv'
<1>1. /\ Words(word) /\ Tiled(word, heaps) /\ Held(word, blocks)
      /\ cur \in Nat /\ req.size \in Nat
  BY Facts
<1>2. pc = "search" /\ word[cur - 4].alloc
      /\ Advance(word, word[cur - 4].size) /\ UNCHANGED <<heaps, active, actual, mem, req>>
  BY DEF SkipAllocated, WordOf
<1>3. cur - 4 \in DOMAIN word
  BY <1>2, InSearch DEF AtBuffer
<1>4. PICK k \in DOMAIN word : k = cur - 4 /\ k \in Nat /\ k \in Taken(word)
  BY <1>1, <1>2, <1>3 DEF Taken, Words
<1>5. PICK size \in Nat : size = word[cur - 4].size
  BY <1>1, <1>3, WordFields
<1>6. PICK f \in Nat : f = cur + size /\ Following(word, k) = f
  <2>1. Following(word, k) = k + 4 + word[k].size
    BY <1>1, WordFields
  <2> QED BY <1>1, <1>4, <1>5, <2>1
<1>7. /\ NoRoomBefore(word, FreeHeap, k, req.size)
      /\ \A i \in 1 .. Len(heaps) : Done(i) => NoRoom(word, heaps[i], req.size)
  BY <1>2, <1>4 DEF IInv, Searched
<1>8. NoRoomBefore(word, FreeHeap, f, req.size)
  <2>1. SUFFICES ASSUME NEW a \in DOMAIN word, NEW b \in DOMAIN word,
                        Within(FreeHeap, a), Within(FreeHeap, b), a < f,
                        FreeRun(word, a, b)
                 PROVE  b < f /\ Following(word, b) - (a + size_marker) < req.size
    BY DEF NoRoomBefore
  <2>2. a \in Nat /\ b \in Nat
    BY <1>1 DEF Words
  <2>3. a <= k \/ f <= a
    BY <1>1, <1>6 DEF Tiled, Apart
  <2>4. a # k
    BY <1>4, <2>1, <2>2 DEF FreeRun
  <2>5. a < k
    BY <1>4, <1>6, <2>1, <2>2, <2>3, <2>4
  <2>6. b < k /\ Following(word, b) - (a + size_marker) < req.size
    BY <1>7, <2>1, <2>5 DEF NoRoomBefore
  <2>7. k < f
    BY <1>1, <1>4, <1>5, <1>6
  <2> QED BY <1>4, <1>6, <2>2, <2>6, <2>7
<1> QED BY <1>1, <1>2, <1>3, <1>5, <1>6, <1>7, <1>8, AdvanceInv

LEMMA StartMergeInv ==
  ASSUME IInv, StartMerge
  PROVE  IInv'
<1>1. /\ heaps \in Seq(Heap) /\ Break \in Nat /\ Shape(heaps, Break)
      /\ Words(word) /\ Tiled(word, heaps) /\ Held(word, blocks) /\ cur \in Nat
  BY Facts
<1>2. /\ pc = "search" /\ ~word[cur - 4].alloc
      /\ pc' = "merge" /\ possible' = word[cur - 4].size
      /\ UNCHANGED <<heaps, active, active_free, actual, mem, word, blocks, req, cur,
                     end_free, res>>
  BY DEF StartMerge, WordOf
<1>3. Exhausted /\ Asked /\ AtBuffer
  BY <1>2, InSearch
<1>4. PICK i \in 1 .. Len(heaps) : FreeHeap = heaps[i]
  BY <1>2, InSearch
<1>5. PICK k \in DOMAIN word : k = cur - 4 /\ Within(heaps[i], k) /\ k \notin Taken(word)
  BY <1>2, <1>3, <1>4 DEF AtBuffer, Taken
<1>6. PICK size \in Nat : size = word[k].size /\ Sized(size)
  BY <1>1, WordFields DEF Tiled
<1>7. PICK f \in Nat : f = cur + size /\ Following(word, k) = f
  <2>1. Following(word, k) = k + 4 + word[k].size /\ k \in Nat
    BY <1>1, WordFields
  <2> QED BY <1>1, <1>5, <1>6, <2>1
<1>8. Merging(word, heaps[i], cur, size)
  <2>1. word[cur - 4].size <= size
    BY <1>5, <1>6
  <2>2. f = Top(heaps[i]) \/ (f < Top(heaps[i]) /\ f \in DOMAIN word)
    BY <1>1, <1>5, <1>7 DEF Tiled, Tiles
  <2>3. ASSUME NEW a \in Taken(word) PROVE a < cur \/ f <= a
    <3>1. a \in DOMAIN word /\ a \in Nat /\ a # k
      BY <1>1, <1>5, TakenWords
    <3>2. a <= k \/ f <= a
      BY <1>1, <1>7, <3>1 DEF Tiled, Apart
    <3> QED BY <1>1, <1>5, <3>1, <3>2
  <2> QED BY <1>6, <1>7, <2>1, <2>2, <2>3 DEF Merging
<1>9. MergeHeap' = heaps[i] /\ FreeHeap' = heaps[i]
  BY <1>2, <1>4 DEF MergeHeap, FreeHeap
<1>10. Merging(word', MergeHeap', cur', possible')
  BY <1>2, <1>5, <1>6, <1>8, <1>9
<1>11. Calls'
  BY <1>2, <1>3, <1>5, <1>10 DEF Calls, Asked, AtBuffer, FreeHeap
<1>12. Searched'
  <2>1. NoRoomBefore(word, FreeHeap, cur - 4, req.size)
        /\ \A j \in 1 .. Len(heaps) : Done(j) => NoRoom(word, heaps[j], req.size)
    BY <1>2 DEF IInv, Searched
  <2>2. FreeHeap' = FreeHeap
    BY <1>4, <1>9
  <2>3. \A j : Done(j)' <=> Done(j)
    BY <1>2 DEF Done
  <2> QED BY <1>2, <2>1, <2>2, <2>3 DEF Searched
<1>13. TypeOK'
  BY <1>2, <1>5, <1>6 DEF IInv, TypeOK
<1>14. Phase'
  BY <1>2, <1>3 DEF Phase, Exhausted
<1>15. Shape(heaps', Break') /\ Tiled(word', heaps') /\ Held(word', blocks')
  BY <1>1, <1>2 DEF Break
<1> QED BY <1>11, <1>12, <1>13, <1>14, <1>15 DEF IInv

\* A buffer that a client holds lies in one heap, by its word as by its address.
LEMMA HeapOf ==
  ASSUME IInv, NEW ptr \in DOMAIN blocks
  PROVE  \E i \in 1 .. Len(heaps) :
           /\ Within(heaps[i], ptr - 4) /\ InHeap(heaps[i], ptr)
           /\ \A j \in 1 .. Len(heaps) : InHeap(heaps[j], ptr) => j = i
<1>1. /\ heaps \in Seq(Heap) /\ Break \in Nat /\ Shape(heaps, Break)
      /\ Words(word) /\ Blocks(blocks) /\ Tiled(word, heaps) /\ Held(word, blocks)
  BY Facts
<1>2. PICK p \in Nat : p = ptr
  BY <1>1 DEF Blocks
<1>3. PICK k \in DOMAIN word : k = p - 4 /\ k \in Nat
  BY <1>1, <1>2, HeldFields
<1>4. PICK i \in 1 .. Len(heaps) : Within(heaps[i], k)
  BY <1>1 DEF Tiled
<1>5. PICK b \in Nat, e \in Nat : b = heaps[i].base /\ e = End(heaps[i])
  BY <1>1, HeapFields
<1>6. Following(word, k) <= Top(heaps[i]) /\ Top(heaps[i]) <= End(heaps[i])
  BY <1>1, <1>4, BelowTop
<1>7. PICK t \in Nat : t = Top(heaps[i])
  BY <1>1, HeapFields
<1>8. PICK size \in Nat : size = word[k].size /\ Sized(size) /\ Following(word, k) = k + 4 + size
  BY <1>1, WordFields DEF Tiled
<1>9. size >= 4
  BY <1>8, SizedPositive
<1>10. b <= k /\ k < e /\ k + 4 + size <= t /\ t <= e
  BY <1>4, <1>5, <1>6, <1>7, <1>8 DEF Within
<1>11. b + 4 <= p /\ p < e
  BY <1>3, <1>9, <1>10
<1>12. InHeap(heaps[i], ptr)
  BY <1>2, <1>5, <1>11 DEF InHeap
<1>13. ASSUME NEW j \in 1 .. Len(heaps), InHeap(heaps[j], ptr)
       PROVE  j = i
  <2>1. PICK c \in Nat, d \in Nat : c = heaps[j].base /\ d = End(heaps[j])
    BY <1>1, HeapFields
  <2>2. c + 4 <= p /\ p < d
    BY <1>2, <1>13, <2>1 DEF InHeap
  <2>3. c <= k /\ k < d
    BY <1>3, <2>2
  <2>4. Within(heaps[j], k)
    BY <2>1, <2>3 DEF Within
  <2> QED BY <1>1, <1>3, <1>4, <2>4, OneHeap
<1>14. Within(heaps[i], ptr - 4)
  BY <1>2, <1>3, <1>4
<1> QED BY <1>12, <1>13, <1>14

\* merge_contiguous is at a word of the heap it looks at.
LEMMA InMerge ==
  ASSUME IInv, pc \in {"merge", "extend"}
  PROVE  /\ Merging(word, MergeHeap, cur, possible) /\ Asked
         /\ cur - 4 \in DOMAIN word
         /\ \E i \in 1 .. Len(heaps) : MergeHeap = heaps[i] /\ Within(heaps[i], cur - 4)
<1>1. Merging(word, MergeHeap, cur, possible) /\ Asked
  BY DEF IInv, Calls
<1>2. CASE pc = "merge"
  <2>1. AtBuffer /\ active_free + 1 \in 1 .. Len(heaps) /\ FreeHeap = heaps[active_free + 1]
    BY <1>2, InSearch
  <2>2. MergeHeap = FreeHeap
    BY <1>2 DEF MergeHeap
  <2> QED BY <1>1, <2>1, <2>2 DEF AtBuffer
<1>3. CASE pc = "extend"
  <2>1. cur \in DOMAIN blocks
    BY <1>3 DEF IInv, Calls
  <2>2. PICK i \in 1 .. Len(heaps) :
           /\ Within(heaps[i], cur - 4) /\ InHeap(heaps[i], cur)
           /\ \A j \in 1 .. Len(heaps) : InHeap(heaps[j], cur) => j = i
    BY <2>1, HeapOf
  <2>3. (CHOOSE j \in 1 .. Len(heaps) : InHeap(heaps[j], cur)) = i
    BY <2>2
  <2>4. MergeHeap = heaps[i]
    BY <1>3, <2>3 DEF MergeHeap
  <2>5. cur - 4 \in DOMAIN word
    BY <2>1, Facts, HeldFields
  <2> QED BY <1>1, <2>2, <2>4, <2>5
<1> QED BY <1>2, <1>3

\* One more free buffer.  The hypothesis is that realloc does not go beyond
\* the offset; the search cannot, since its heap is full.
LEMMA MergeNextInv ==
  ASSUME IInv, MergesFreedOnly', MergeNext
  PROVE  IInv'
<1>1. /\ heaps \in Seq(Heap) /\ Break \in Nat /\ Shape(heaps, Break)
      /\ Words(word) /\ Tiled(word, heaps) /\ Held(word, blocks)
      /\ cur \in Nat /\ possible \in Nat
  BY Facts
<1>2. /\ pc \in {"merge", "extend"} /\ MoreToMerge
      /\ possible' = possible + Read(cur + possible).size + 4
      /\ UNCHANGED <<heaps, active, active_free, actual, mem, word, blocks, pc, req,
                     cur, end_free, res>>
  BY DEF MergeNext
<1>3. Merging(word, MergeHeap, cur, possible) /\ Asked /\ cur - 4 \in DOMAIN word
  BY <1>2, InMerge
<1>4. PICK i \in 1 .. Len(heaps) : MergeHeap = heaps[i] /\ Within(heaps[i], cur - 4)
  BY <1>2, InMerge
<1>5. MergeHeap' = MergeHeap
  BY <1>2 DEF MergeHeap, FreeHeap
<1>6. PICK x \in Nat : x = cur + possible
  BY <1>1
<1>7. PICK b \in Nat, t \in Nat, e \in Nat :
        b = heaps[i].base /\ t = Top(heaps[i]) /\ e = End(heaps[i])
  BY <1>1, HeapFields
<1>8. x < e /\ ~Read(x).alloc
  BY <1>2, <1>4, <1>6, <1>7 DEF MoreToMerge
<1>9. x \in DOMAIN word /\ x < t
  <2>1. SUFFICES ASSUME x = t, x \notin DOMAIN word PROVE FALSE
    <3>1. x = t \/ (x < t /\ x \in DOMAIN word)
      BY <1>3, <1>4, <1>6, <1>7 DEF Merging
    <3>2. ASSUME x = t, x \in DOMAIN word PROVE FALSE
      <4>1. b <= x
        <5>1. PICK k \in Nat : k = cur - 4
          BY <1>1, <1>3 DEF Words
        <5>2. b <= k
          BY <1>4, <1>7, <5>1 DEF Within
        <5> QED BY <1>1, <1>6, <5>1, <5>2
      <4>2. Within(heaps[i], x)
        BY <1>7, <1>8, <4>1 DEF Within
      <4>3. x < Top(heaps[i])
        BY <1>1, <3>2, <4>2, BelowTop
      <4> QED BY <1>7, <3>2, <4>3
    <3> QED BY <2>1, <3>1, <3>2
  <2>2. CASE pc = "merge"
    <3>1. Top(FreeHeap) = End(FreeHeap)
      BY <2>2, InSearch
    <3>2. t = e
      BY <1>4, <1>7, <2>2, <3>1 DEF MergeHeap
    <3> QED BY <1>8, <2>1, <3>2
  <2>3. CASE pc = "extend"
    <3>1. Read(x).size = 0
      BY <2>1 DEF Read
    <3>2. possible' = possible + 4
      BY <1>1, <1>2, <1>6, <3>1
    <3>3. cur + possible' <= t
      BY <1>2, <1>4, <1>5, <1>7, <2>3 DEF MergesFreedOnly
    <3> QED BY <1>1, <1>6, <2>1, <3>2, <3>3
  <2> QED BY <1>2, <2>2, <2>3
<1>10. PICK n \in Nat : n = word[x].size /\ Sized(n) /\ Following(word, x) = x + 4 + n
  BY <1>1, <1>9, WordFields DEF Tiled
<1>11. x \notin Taken(word) /\ Read(x).size = n
  BY <1>8, <1>9, <1>10 DEF Read, Taken
<1>12. PICK m \in Nat : m = possible /\ Sized(m)
  BY <1>1, <1>3 DEF Merging
<1>13. possible' = m + n + 4 /\ Sized(m + n + 4)
  BY <1>2, <1>6, <1>10, <1>11, <1>12, SizedSum
<1>14. PICK f \in Nat : f = x + 4 + n /\ f = cur + possible'
  BY <1>1, <1>6, <1>12, <1>13
<1>15. Within(heaps[i], x)
  <2>1. PICK k \in Nat : k = cur - 4
    BY <1>1, <1>3 DEF Words
  <2>2. b <= k
    BY <1>4, <1>7, <2>1 DEF Within
  <2>3. b <= x
    BY <1>1, <1>6, <2>1, <2>2
  <2> QED BY <1>7, <1>8, <2>3 DEF Within
<1>16. Merging(word, heaps[i], cur, possible')
  <2>1. Sized(possible')
    BY <1>13
  <2>2. word[cur - 4].size <= possible'
    <3>1. PICK s \in Nat : s = word[cur - 4].size
      BY <1>1, <1>3, WordFields
    <3>2. s <= m
      BY <1>3, <1>12, <3>1 DEF Merging
    <3> QED BY <1>13, <3>1, <3>2
  <2>3. f = Top(heaps[i]) \/ (f < Top(heaps[i]) /\ f \in DOMAIN word)
    BY <1>1, <1>9, <1>10, <1>14, <1>15 DEF Tiled, Tiles
  <2>4. ASSUME NEW a \in Taken(word) PROVE a < cur \/ f <= a
    <3>1. a \in DOMAIN word /\ a \in Nat /\ a # x
      BY <1>1, <1>11, TakenWords
    <3>2. a <= x \/ f <= a
      BY <1>1, <1>9, <1>10, <1>14, <3>1 DEF Tiled, Apart
    <3>3. a < cur \/ x <= a
      BY <1>3, <1>6 DEF Merging
    <3> QED BY <1>1, <3>1, <3>2, <3>3
  <2> QED BY <1>14, <2>1, <2>2, <2>3, <2>4 DEF Merging
<1>17. Merging(word', MergeHeap', cur', possible')
  BY <1>2, <1>4, <1>5, <1>16
<1>18. Calls'
  <2>1. pc' # "alloc" /\ pc' # "search"
    BY <1>2
  <2>2. Asked'
    BY <1>2, <1>3 DEF Asked
  <2>3. pc = "merge" => AtBuffer' /\ cur' - 4 \notin Taken(word')
    BY <1>2 DEF IInv, Calls, AtBuffer, FreeHeap
  <2>4. pc = "extend" => req'.old = cur' /\ cur' \in DOMAIN blocks'
    BY <1>2 DEF IInv, Calls
  <2> QED BY <1>2, <1>17, <2>1, <2>2, <2>3, <2>4 DEF Calls
<1>19. Searched'
  <2>1. FreeHeap' = FreeHeap
    BY <1>2 DEF FreeHeap
  <2>2. \A j : Done(j)' <=> Done(j)
    BY <1>2 DEF Done
  <2>3. pc = "merge" =>
          /\ NoRoomBefore(word, FreeHeap, cur - 4, req.size)
          /\ \A j \in 1 .. Len(heaps) : Done(j) => NoRoom(word, heaps[j], req.size)
    BY DEF IInv, Searched
  <2> QED BY <1>2, <2>1, <2>2, <2>3 DEF Searched
<1>20. TypeOK'
  <2>1. possible' \in Nat
    BY <1>13
  <2> QED BY <1>2, <2>1 DEF IInv, TypeOK
<1>21. Phase'
  BY <1>2 DEF IInv, Phase, Fresh, Growing, Exhausted
<1>22. Shape(heaps', Break') /\ Tiled(word', heaps') /\ Held(word', blocks')
  BY <1>1, <1>2 DEF Break
<1> QED BY <1>18, <1>19, <1>20, <1>21, <1>22 DEF IInv

\* The end of merge_contiguous: one buffer of size to, and the rest is free.
LEMMA Merged ==
  ASSUME IInv, pc \in {"merge", "extend"}, NEW to \in Nat, Sized(to), to <= possible,
         NEW alloc \in BOOLEAN, NEW u, u = Combined(cur, to, possible, alloc)
  PROVE  /\ Words(u) /\ Joined(word, u, cur, to, possible) /\ Tiled(u, heaps)
         /\ cur - 4 \in DOMAIN u /\ u[cur - 4].size = to
         /\ cur - 4 \in Taken(u) <=> alloc
         /\ \A a : a # cur - 4 => (a \in Taken(u) <=> a \in Taken(word))
         /\ \A a \in Taken(word) : a # cur - 4 => u[a].size = word[a].size
<1>1. /\ heaps \in Seq(Heap) /\ Break \in Nat /\ Shape(heaps, Break)
      /\ Words(word) /\ Tiled(word, heaps) /\ cur \in Nat /\ possible \in Nat
  BY Facts
<1>2. Merging(word, MergeHeap, cur, possible) /\ cur - 4 \in DOMAIN word
  BY InMerge
<1>3. PICK i \in 1 .. Len(heaps) : MergeHeap = heaps[i] /\ Within(heaps[i], cur - 4)
  BY InMerge
<1>4. PICK total \in Nat : total = possible /\ Sized(total)
  BY <1>1, <1>2 DEF Merging
<1>5. to < total => to + 4 <= total
  BY <1>4, SizedRest
<1>6. PICK at \in Nat : at = cur
  BY <1>1
<1>7. at - 4 \in DOMAIN word /\ u = Combined(at, to, total, alloc)
  BY <1>2, <1>4, <1>6
<1>8. /\ Words(u) /\ Joined(word, u, at, to, total)
      /\ \A a : a \in Taken(u) <=>
           IF a = at - 4 THEN alloc
           ELSE a \in Taken(word) /\ (a < at \/ at + total <= a)
                  /\ ~(total > to /\ a = at + to)
  BY <1>1, <1>5, <1>7, CombinedJoined
<1>9. Merging(word, heaps[i], at, total) /\ Within(heaps[i], at - 4) /\ to <= total
  BY <1>2, <1>3, <1>4, <1>6
<1>10. Tiled(u, heaps)
  BY <1>1, <1>7, <1>8, <1>9, TiledJoined
<1>11. PICK k \in DOMAIN word : k = at - 4 /\ k \in Nat
  BY <1>1, <1>7 DEF Words
<1>12. k \in DOMAIN u /\ u[k].size = to
  <2>1. k < at /\ k # at + to
    BY <1>11
  <2>2. k \in DOMAIN u
    BY <1>8, <2>1 DEF Joined
  <2> QED BY <1>8, <1>11, <2>1, <2>2 DEF Joined
<1>13. ASSUME NEW a \in Taken(word)
       PROVE  /\ a \in DOMAIN word /\ (a < at \/ at + total <= a)
              /\ ~(total > to /\ a = at + to)
  <2>1. a \in DOMAIN word /\ a \in Nat
    BY <1>1, TakenWords
  <2>2. a < at \/ at + total <= a
    BY <1>9 DEF Merging
  <2> QED BY <2>1, <2>2
<1>14. /\ k \in Taken(u) <=> alloc
       /\ \A a : a # k => (a \in Taken(u) <=> a \in Taken(word))
  BY <1>8, <1>11, <1>13
<1>15. ASSUME NEW a \in Taken(word), a # k PROVE u[a].size = word[a].size
  <2>1. a \in DOMAIN u
    BY <1>14, <1>15 DEF Taken
  <2>2. ~(total > to /\ a = at + to)
    BY <1>13
  <2> QED BY <1>8, <1>11, <1>15, <2>1, <2>2 DEF Joined
<1> QED BY <1>4, <1>6, <1>8, <1>10, <1>11, <1>12, <1>14, <1>15

LEMMA MergeFoundInv ==
  ASSUME IInv, MergeFound
  PROVE  IInv'
<1>1. /\ heaps \in Seq(Heap) /\ Break \in Nat /\ Shape(heaps, Break)
      /\ Words(word) /\ cur \in Nat /\ req.size \in Nat
  BY Facts
<1>2. /\ pc = "merge" /\ possible >= req.size
      /\ UNCHANGED <<heaps, active, active_free, actual, mem>>
  BY DEF MergeFound
<1>3. Exhausted /\ Asked
  BY <1>2, InSearch
<1>4. PICK to \in Nat : to = req.size /\ Sized(to) /\ to <= possible
  BY <1>1, <1>2, <1>3, Facts DEF Asked
<1>5. PICK u : u = Combined(cur, to, possible, TRUE)
  OBVIOUS
<1>6. Return(cur, u)
  BY <1>4, <1>5 DEF MergeFound
<1>7. cur - 4 \notin Taken(word)
  BY <1>2 DEF IInv, Calls
<1>8. /\ Words(u) /\ Tiled(u, heaps) /\ u[cur - 4].size = to
      /\ cur - 4 \in Taken(u)
      /\ \A a : a # cur - 4 => (a \in Taken(u) <=> a \in Taken(word))
      /\ \A a \in Taken(word) : a # cur - 4 => u[a].size = word[a].size
  <2>1. PICK alloc \in BOOLEAN : alloc = TRUE
    OBVIOUS
  <2>2. u = Combined(cur, to, possible, alloc)
    BY <1>5, <2>1
  <2>3. pc \in {"merge", "extend"}
    BY <1>2
  <2>4. /\ Words(u) /\ Tiled(u, heaps) /\ u[cur - 4].size = to
        /\ cur - 4 \in Taken(u) <=> alloc
        /\ \A a : a # cur - 4 => (a \in Taken(u) <=> a \in Taken(word))
        /\ \A a \in Taken(word) : a # cur - 4 => u[a].size = word[a].size
    BY <1>4, <2>2, <2>3, Merged
  <2> QED BY <2>1, <2>4, Zenon
<1>9. Taken(u) = Taken(word) \cup {cur - 4}
  BY <1>8
<1>10. \A a \in Taken(word) : u[a].size = word[a].size
  BY <1>7, <1>8
<1>11. req.size <= u[cur - 4].size /\ u[cur - 4].size \in Nat
  BY <1>4, <1>8
<1>12. /\ Words(word') /\ Blocks(blocks') /\ Held(word', blocks')
       /\ SameSizes(u, word')
       /\ pc' = "idle" /\ res' = "buffer" /\ req' \in Request
       /\ cur' = 0 /\ possible' = 0 /\ end_free' = 0
  BY <1>1, <1>3, <1>6, <1>7, <1>8, <1>9, <1>10, <1>11, Returned
<1>13. Tiled(word', heaps')
  BY <1>2, <1>8, <1>12, TiledSame
<1>14. Shape(heaps', Break')
  BY <1>1, <1>2 DEF Break
<1>15. TypeOK'
  BY <1>2, <1>12 DEF IInv, TypeOK, Words, Blocks
<1>16. Phase'
  BY <1>2, <1>3, <1>12 DEF Phase, Exhausted
<1> QED BY <1>12, <1>13, <1>14, <1>15, <1>16, IdleInv

\* The merged buffer is still too small, and ends at one that is taken or at
\* the end of the heap.
LEMMA MergeTooSmallInv ==
  ASSUME IInv, MergeTooSmall
  PROVE  IInv'
<1>1. /\ heaps \in Seq(Heap) /\ Len(heaps) \in Nat /\ Break \in Nat /\ Shape(heaps, Break)
      /\ Words(word) /\ Tiled(word, heaps) /\ Held(word, blocks)
      /\ cur \in Nat /\ possible \in Nat /\ req.size \in Nat
      /\ active_free \in Nat /\ end_free \in Nat
  BY Facts
<1>2. /\ pc = "merge" /\ possible < req.size /\ ~MoreToMerge
      /\ UNCHANGED <<heaps, active, actual, mem, req>>
  BY DEF MergeTooSmall
<1>3. PICK i \in 1 .. Len(heaps) : i = active_free + 1 /\ FreeHeap = heaps[i]
  BY <1>2, InSearch
<1>4. PICK total \in Nat : total = possible /\ Sized(total) /\ total <= possible
  BY <1>1, <1>2, InMerge DEF Merging
<1>5. PICK u : u = Combined(cur, total, possible, FALSE)
  OBVIOUS
<1>6. Advance(u, total)
  BY <1>4, <1>5 DEF MergeTooSmall
<1>7. PICK k \in DOMAIN word : k = cur - 4 /\ k \in Nat /\ k + 4 = cur
                               /\ Within(heaps[i], k) /\ k \notin Taken(word)
  <2>1. cur - 4 \in DOMAIN word /\ Within(heaps[i], cur - 4)
    BY <1>2, <1>3, InSearch DEF AtBuffer
  <2>2. cur - 4 \notin Taken(word)
    BY <1>2 DEF IInv, Calls
  <2> QED BY <1>1, <2>1, <2>2 DEF Words
<1>8. /\ Words(u) /\ Joined(word, u, cur, total, possible) /\ Tiled(u, heaps)
      /\ k \in DOMAIN u /\ u[k].size = total
      /\ k \notin Taken(u)
      /\ \A a : a # k => (a \in Taken(u) <=> a \in Taken(word))
      /\ \A a \in Taken(word) : a # k => u[a].size = word[a].size
  <2>1. PICK alloc \in BOOLEAN : alloc = FALSE
    OBVIOUS
  <2>2. u = Combined(cur, total, possible, alloc)
    BY <1>5, <2>1
  <2>3. pc \in {"merge", "extend"}
    BY <1>2
  <2>4. /\ Words(u) /\ Joined(word, u, cur, total, possible) /\ Tiled(u, heaps)
        /\ cur - 4 \in DOMAIN u /\ u[cur - 4].size = total
        /\ cur - 4 \in Taken(u) <=> alloc
        /\ \A a : a # cur - 4 => (a \in Taken(u) <=> a \in Taken(word))
        /\ \A a \in Taken(word) : a # cur - 4 => u[a].size = word[a].size
    BY <1>4, <2>2, <2>3, Merged
  <2> QED BY <1>7, <2>1, <2>4, Zenon
<1>9. Taken(u) = Taken(word)
  <2>1. \A a : a \in Taken(u) <=> a \in Taken(word)
    BY <1>7, <1>8, Zenon
  <2>2. Taken(u) \subseteq Taken(word) /\ Taken(word) \subseteq Taken(u)
    BY <2>1
  <2> QED BY <2>2, Zenon
<1>10. Held(u, blocks)
  BY <1>1, <1>7, <1>8, <1>9, HeldSame
<1>11. PICK f \in Nat : f = cur + total
  BY <1>1
<1>12. \A a \in DOMAIN u : a \in DOMAIN word /\ a \in Nat /\ (a < cur \/ f <= a)
  BY <1>1, <1>4, <1>8, <1>11 DEF Joined, Words
<1>13. ASSUME NEW a \in DOMAIN u, a # k
       PROVE  Following(u, a) = Following(word, a)
  <2>1. u[a].size = word[a].size
    BY <1>1, <1>4, <1>7, <1>8, <1>13 DEF Joined
  <2> QED BY <2>1 DEF Following
<1>14. Following(u, k) = f
  <2>1. Following(u, k) = k + 4 + u[k].size
    BY <1>8, WordFields
  <2> QED BY <1>7, <1>8, <1>11, <2>1
<1>15. \A a, b : FreeRun(u, a, b) <=> FreeRun(word, a, b)
  BY <1>9 DEF FreeRun
<1>16. /\ NoRoomBefore(word, heaps[i], k, req.size)
       /\ \A j \in 1 .. Len(heaps) : Done(j) => NoRoom(word, heaps[j], req.size)
  BY <1>2, <1>3, <1>7 DEF IInv, Searched
<1>17. ASSUME NEW j \in 1 .. Len(heaps), Done(j)
       PROVE  NoRoom(u, heaps[j], req.size)
  <2>1. j # i
    BY <1>1, <1>3, <1>17 DEF Done
  <2>2. SUFFICES ASSUME NEW a \in DOMAIN u, NEW b \in DOMAIN u,
                        Within(heaps[j], a), Within(heaps[j], b), FreeRun(u, a, b)
                 PROVE  Following(u, b) - (a + size_marker) < req.size
    BY DEF NoRoom
  <2>3. b # k
    BY <1>1, <1>7, <2>1, <2>2, OneHeap
  <2>4. Following(word, b) - (a + size_marker) < req.size
    BY <1>12, <1>15, <1>16, <1>17, <2>2 DEF NoRoom
  <2> QED BY <1>13, <2>3, <2>4
<1>18. NoRoomBefore(u, heaps[i], f, req.size)
  <2>1. SUFFICES ASSUME NEW a \in DOMAIN u, NEW b \in DOMAIN u,
                        Within(heaps[i], a), Within(heaps[i], b), a < f,
                        FreeRun(u, a, b)
                 PROVE  b < f /\ Following(u, b) - (a + size_marker) < req.size
    BY DEF NoRoomBefore
  <2>2. /\ a \in DOMAIN word /\ a \in Nat /\ (a < cur \/ f <= a)
        /\ b \in DOMAIN word /\ b \in Nat /\ (b < cur \/ f <= b)
    BY <1>12
  <2>3. FreeRun(word, a, b) /\ a <= b
    BY <1>15, <2>1 DEF FreeRun
  <2>4. k < f
    BY <1>7, <1>11
  <2>5. CASE a < k
    <3>1. b < k /\ Following(word, b) - (a + size_marker) < req.size
      BY <1>16, <2>1, <2>2, <2>3, <2>5 DEF NoRoomBefore
    <3>2. b # k /\ b < f
      BY <1>7, <1>11, <2>2, <2>4, <3>1
    <3>3. Following(u, b) = Following(word, b)
      BY <1>13, <3>2
    <3> QED BY <3>1, <3>2, <3>3
  <2>6. CASE a >= k
    <3>1. PICK s \in Nat : s = word[k].size /\ Following(word, k) = k + 4 + s
      BY <1>1, WordFields
    <3>2. \A x \in DOMAIN word : x <= k \/ k + 4 + s <= x
      BY <1>1, <3>1 DEF Tiled, Apart
    <3>3. a = k
      BY <1>7, <1>11, <2>1, <2>2, <2>6, <3>2
    <3>4. CASE b = k
      <4>1. f - (k + 4) = total
        BY <1>7, <1>11
      <4>2. Following(u, b) - (a + size_marker) = total
        BY <1>14, <3>3, <3>4, <4>1
      <4> QED BY <1>2, <1>4, <2>4, <3>4, <4>2
    <3>5. CASE b # k
      <4>1. f <= b
        BY <1>7, <2>2, <2>3, <3>2, <3>3, <3>5
      <4>2. PICK e \in Nat : e = End(heaps[i])
        BY <1>1, HeapFields
      <4>3. b < e
        BY <2>1, <4>2 DEF Within
      <4>4. f < e
        BY <1>11, <2>2, <4>1, <4>3
      <4>5. MergeHeap = heaps[i]
        BY <1>2, <1>3 DEF MergeHeap
      <4>6. Read(f).alloc
        BY <1>2, <1>4, <1>11, <4>2, <4>4, <4>5 DEF MoreToMerge
      <4>7. f \in Taken(word)
        BY <4>6, Zenon DEF Read, Taken
      <4> QED BY <1>7, <2>2, <2>3, <2>4, <3>3, <4>1, <4>7 DEF FreeRun
    <3> QED BY <3>4, <3>5
  <2> QED BY <1>7, <2>2, <2>5, <2>6
<1>19. NoRoomBefore(u, FreeHeap, cur + total, req.size) /\ pc \in {"search", "merge"}
  BY <1>2, <1>3, <1>11, <1>18
<1>20. cur - 4 \in DOMAIN u /\ u[cur - 4].size = total
  BY <1>7, <1>8
<1> QED BY <1>2, <1>6, <1>8, <1>10, <1>17, <1>19, <1>20, AdvanceInv

-----------------------------------------------------------------------------
(* free and realloc.                                                       *)

LEMMA FreeInv ==
  ASSUME IInv, NEW ptr \in DOMAIN blocks, free(ptr)
  PROVE  IInv'
<1>1. /\ Shape(heaps, Break) /\ Words(word) /\ Blocks(blocks)
      /\ Tiled(word, heaps) /\ Held(word, blocks)
  BY Facts
<1>2. /\ pc = "idle" /\ word' = Freed(word, ptr)
      /\ blocks' = [p \in DOMAIN blocks \ {ptr} |-> blocks[p]]
      /\ res' = "none" /\ req' = NoRequest
      /\ UNCHANGED <<heaps, active, active_free, actual, mem, pc, locals>>
  BY DEF free
<1>3. Words(word') /\ SameSizes(word, word')
  BY <1>1, <1>2, FreedSame
<1>4. Tiled(word', heaps')
  BY <1>1, <1>2, <1>3, TiledSame
<1>5. Held(word', blocks')
  BY <1>1, <1>2, HeldFreed
<1>6. Blocks(blocks')
  BY <1>1, <1>2 DEF Blocks
<1>7. TypeOK'
  <2>1. req' \in Request
    BY <1>2 DEF NoRequest, Request
  <2> QED BY <1>2, <1>3, <1>6, <2>1 DEF IInv, TypeOK, Words, Blocks, locals
<1>8. Phase'
  BY <1>2 DEF IInv, Phase, Fresh, Growing, Exhausted
<1>9. Shape(heaps', Break')
  BY <1>1, <1>2 DEF Break
<1> QED BY <1>2, <1>4, <1>5, <1>7, <1>8, <1>9, IdleInv

\* realloc answers with the same buffer, whose size may have changed.
LEMMA InPlaceInv ==
  ASSUME IInv, pc = "idle", NEW ptr \in DOMAIN blocks, NEW len \in Nat,
         blocks' = [blocks EXCEPT ![ptr] = len], res' = "buffer", req' = NoRequest,
         UNCHANGED <<active, active_free, actual, mem, pc, locals>>,
         Words(word'), Taken(word') = Taken(word), len <= word'[ptr - 4].size,
         \A a \in Taken(word) : a # ptr - 4 => word'[a].size = word[a].size,
         heaps' \in Seq(Heap), Len(heaps') = Len(heaps), Len(heaps) > 0,
         Shape(heaps', Break), Tiled(word', heaps'),
         \A j \in 1 .. Len(heaps) :
           heaps[j].offset = heaps[j].size => heaps'[j].offset = heaps'[j].size
  PROVE  IInv'
<1>1. Words(word) /\ Blocks(blocks) /\ Held(word, blocks) /\ active \in Nat
      /\ Len(heaps) \in Nat
  BY Facts
<1>2. PICK bs : bs = blocks'
  OBVIOUS
<1>3. Held(word', bs)
  BY <1>1, <1>2, HeldResized
<1>4. Blocks(bs)
  BY <1>1, <1>2 DEF Blocks
<1>5. TypeOK'
  <2>1. req' \in Request
    BY DEF NoRequest, Request
  <2>2. Blocks(blocks')
    BY <1>2, <1>4
  <2> QED BY <2>1, <2>2 DEF IInv, TypeOK, Words, Blocks, locals
<1>6. Phase'
  <2>1. heaps # <<>>
    OBVIOUS
  <2>2. CASE Growing
    <3>1. ASSUME NEW j \in 1 .. active' PROVE heaps'[j].offset = heaps'[j].size
      <4>1. j \in 1 .. active /\ j \in 1 .. Len(heaps)
        BY <1>1, <2>2, <3>1 DEF Growing
      <4> QED BY <2>2, <4>1 DEF Growing
    <3> QED BY <2>2, <3>1 DEF Phase, Growing
  <2>3. CASE Exhausted
    BY <2>3 DEF Phase, Exhausted
  <2> QED BY <2>1, <2>2, <2>3 DEF IInv, Phase, Fresh
<1>7. Shape(heaps', Break') /\ Held(word', blocks')
  BY <1>2, <1>3 DEF Break
<1> QED BY <1>5, <1>6, <1>7, IdleInv

\* The last buffer of a heap grows to where the offset may go.
LEMMA ResizeLastInv ==
  ASSUME IInv, pc = "idle", NEW ptr \in DOMAIN blocks, NEW len \in Nat,
         NEW i \in 1 .. Len(heaps), Within(heaps[i], ptr - 4),
         NEW size \in Nat, Sized(size), len <= size,
         NEW orig \in Nat, orig = word[ptr - 4].size, orig <= size,
         ptr + size <= End(heaps[i]), ptr + orig = Top(heaps[i]),
         word' = Set(ptr - 4, size, TRUE),
         heaps' = [heaps EXCEPT ![i].offset = @ + size - orig],
         blocks' = [blocks EXCEPT ![ptr] = len], res' = "buffer", req' = NoRequest,
         UNCHANGED <<active, active_free, actual, mem, pc, locals>>
  PROVE  IInv'
<1>1. /\ heaps \in Seq(Heap) /\ Len(heaps) \in Nat /\ Break \in Nat /\ Shape(heaps, Break)
      /\ Words(word) /\ Blocks(blocks) /\ Tiled(word, heaps) /\ Held(word, blocks)
  BY Facts
<1>2. PICK p \in Nat : p = ptr
  BY <1>1 DEF Blocks
<1>3. PICK k \in DOMAIN word : k = p - 4 /\ k \in Nat /\ k \in Taken(word) /\ k + 4 = p
  <2>1. p - 4 \in Taken(word) /\ p - 4 \in DOMAIN word /\ p - 4 \in Nat
    BY <1>1, <1>2, HeldFields
  <2> QED BY <2>1
<1>4. PICK b \in Nat, o \in Nat, z \in Nat :
        b = heaps[i].base /\ o = heaps[i].offset /\ z = heaps[i].size
  BY <1>1, HeapFields
<1>5. /\ p + size <= b + z /\ p + orig = b + o
      /\ Top(heaps[i]) = b + o /\ End(heaps[i]) = b + z
  <2>1. Top(heaps[i]) = b + o /\ End(heaps[i]) = b + z
    BY <1>1, <1>4, HeapFields
  <2> QED BY <1>2, <2>1
<1>6. PICK n \in Nat : n = o + size - orig /\ n % 8 = 0 /\ n <= z
  <2>1. o % 8 = 0 /\ Sized(orig)
    BY <1>1, <1>2, <1>3, <1>4 DEF Shape, Tiled
  <2>2. o + size - orig \in Nat /\ (o + size - orig) % 8 = 0
    BY <2>1, SizedChange
  <2>3. o + size - orig <= z
    <3>1. p + size <= b + z /\ p + orig = b + o /\ orig <= size
      BY <1>5
    <3> QED BY ONLY <3>1, p \in Nat, b \in Nat, o \in Nat, z \in Nat, size \in Nat, orig \in Nat
  <2> QED BY <2>2, <2>3
<1>7. o = z => n = z
  <2>1. p + size <= b + z /\ p + orig = b + o /\ orig <= size /\ n = o + size - orig
    BY <1>5, <1>6
  <2> QED BY ONLY <2>1, p \in Nat, b \in Nat, o \in Nat, z \in Nat, n \in Nat,
                  size \in Nat, orig \in Nat
<1>8. PICK v : v = word'
  OBVIOUS
<1>9. v = Set(k, size, TRUE)
  BY <1>2, <1>3, <1>8
<1>10. Words(v) /\ Written(word, v, k, size) /\ Taken(v) = (Taken(word) \ {k}) \cup {k}
  BY <1>1, <1>3, <1>9, SetWritten
<1>11. PICK gs : gs = heaps'
  OBVIOUS
<1>12. gs \in Seq(Heap) /\ OffsetMoved(heaps, gs, i, n)
  <2>1. gs = [heaps EXCEPT ![i].offset = n]
    BY <1>4, <1>6, <1>11
  <2> QED BY <1>1, <2>1, OffsetExcept
<1>13. Tiled(v, gs)
  <2>1. Within(heaps[i], k) /\ word[k].size = orig
    BY <1>2, <1>3
  <2>2. Following(word, k) = Top(heaps[i])
    <3>1. Following(word, k) = k + 4 + word[k].size
      BY <1>1, WordFields
    <3> QED BY <1>3, <1>5, <2>1, <3>1
  <2>3. k + 4 + size <= End(heaps[i])
    BY <1>3, <1>5
  <2>4. OffsetMoved(heaps, gs, i, heaps[i].offset + size - word[k].size)
    BY <1>4, <1>6, <1>12, <2>1
  <2>5. word[k].size <= size
    BY <2>1
  <2> QED BY <1>1, <1>10, <1>12, <2>1, <2>2, <2>3, <2>4, <2>5, TiledResized
<1>14. /\ Len(gs) = Len(heaps)
       /\ \A j \in 1 .. Len(heaps) :
            /\ gs[j].base = heaps[j].base /\ gs[j].size = heaps[j].size
            /\ gs[j].offset = IF j = i THEN n ELSE heaps[j].offset
            /\ End(gs[j]) = End(heaps[j])
  BY <1>12 DEF OffsetMoved, End
<1>15. Shape(gs, Break)
  <2>1. n <= heaps[i].size
    BY <1>4, <1>6
  <2> QED BY <1>1, <1>6, <1>12, <2>1, ShapeMoved
<1>16. \A j \in 1 .. Len(heaps) :
         heaps[j].offset = heaps[j].size => gs[j].offset = gs[j].size
  BY <1>4, <1>7, <1>14
<1>17. Taken(v) = Taken(word)
  BY <1>3, <1>10
<1>18. \A a \in Taken(word) : a # ptr - 4 => v[a].size = word[a].size
  BY <1>2, <1>3, <1>10 DEF Written, Taken
<1>19. len <= v[ptr - 4].size
  BY <1>2, <1>3, <1>10 DEF Written
<1>20. Len(heaps) > 0
  BY <1>1
<1>21. /\ Words(word') /\ Taken(word') = Taken(word) /\ len <= word'[ptr - 4].size
       /\ \A a \in Taken(word) : a # ptr - 4 => word'[a].size = word[a].size
  BY <1>8, <1>10, <1>17, <1>18, <1>19
<1>22. /\ heaps' \in Seq(Heap) /\ Len(heaps') = Len(heaps)
       /\ Shape(heaps', Break) /\ Tiled(word', heaps')
       /\ \A j \in 1 .. Len(heaps) :
            heaps[j].offset = heaps[j].size => heaps'[j].offset = heaps'[j].size
  BY <1>8, <1>11, <1>12, <1>13, <1>14, <1>15, <1>16
<1> QED BY <1>20, <1>21, <1>22, InPlaceInv

LEMMA ReallocInv ==
  ASSUME IInv, NEW ptr \in DOMAIN blocks, NEW len \in Nat, realloc(ptr, len)
  PROVE  IInv'
<1>1. /\ heaps \in Seq(Heap) /\ Len(heaps) \in Nat /\ Break \in Nat /\ Shape(heaps, Break)
      /\ Words(word) /\ Blocks(blocks) /\ Tiled(word, heaps) /\ Held(word, blocks)
  BY Facts
<1>2. CASE len = 0 /\ free(ptr)
  BY <1>2, FreeInv
<1>3. CASE len # 0 /\ pc = "idle"
           /\ \E i \in 1 .. Len(heaps) : InHeap(heaps[i], ptr) /\ Resize(i, ptr, len)
  <2>1. PICK i \in 1 .. Len(heaps) : InHeap(heaps[i], ptr) /\ Resize(i, ptr, len)
    BY <1>3
  <2>2. /\ Within(heaps[i], ptr - 4)
        /\ \A j \in 1 .. Len(heaps) : InHeap(heaps[j], ptr) => j = i
    BY <2>1, HeapOf
  <2>3. PICK size \in Nat : size = adjust_to_mem_block(len) /\ len <= size /\ Sized(size)
    BY Adjusted
  <2>4. ptr - 4 \in DOMAIN word /\ ptr - 4 \in Taken(word) /\ ptr \in Nat
    BY <1>1, HeldFields DEF Blocks
  <2>5. PICK orig \in Nat : orig = word[ptr - 4].size /\ Sized(orig)
    BY <1>1, <2>4, WordFields DEF Tiled
  <2>6. Len(heaps) > 0
    BY <1>1
  <2>7. CASE EnterMalloc(len, ptr)
    BY <1>3, <2>7, EnterMallocInv
  <2>8. CASE /\ orig >= size
             /\ blocks' = [blocks EXCEPT ![ptr] = len]
             /\ res' = "buffer" /\ req' = NoRequest
             /\ UNCHANGED <<active, active_free, actual, mem, pc, locals>>
             /\ UNCHANGED <<heaps, word>>
    <3>1. len <= word[ptr - 4].size
      BY <2>3, <2>5, <2>8
    <3> QED BY <1>1, <1>3, <2>6, <2>8, <3>1, InPlaceInv
  <2>9. CASE /\ ptr + size <= End(heaps[i]) /\ orig <= size
             /\ ptr + orig = Top(heaps[i])
             /\ word' = Set(ptr - 4, size, TRUE)
             /\ heaps' = [heaps EXCEPT ![i].offset = @ + size - orig]
             /\ blocks' = [blocks EXCEPT ![ptr] = len]
             /\ res' = "buffer" /\ req' = NoRequest
             /\ UNCHANGED <<active, active_free, actual, mem, pc, locals>>
    BY <1>3, <2>2, <2>3, <2>5, <2>9, ResizeLastInv
  <2>10. CASE /\ orig < size
              /\ pc' = "extend"
              /\ req' = [len |-> len, size |-> size, old |-> ptr]
              /\ cur' = ptr /\ possible' = orig /\ res' = "none"
              /\ UNCHANGED <<heaps, active, active_free, actual, mem, word, blocks, end_free>>
    <3>1. PICK p \in Nat, k \in DOMAIN word : p = ptr /\ k = p - 4 /\ k \in Nat /\ k + 4 = p
                                              /\ k \in Taken(word) /\ k = ptr - 4
      BY <1>1, <2>4 DEF Words
    <3>2. PICK f \in Nat : f = p + orig /\ Following(word, k) = f
      <4>1. Following(word, k) = k + 4 + word[k].size
        BY <1>1, WordFields
      <4> QED BY <2>5, <3>1, <4>1
    <3>3. Merging(word, heaps[i], p, orig)
      <4>1. word[p - 4].size <= orig
        BY <2>5, <3>1
      <4>2. f = Top(heaps[i]) \/ (f < Top(heaps[i]) /\ f \in DOMAIN word)
        BY <1>1, <2>2, <3>1, <3>2 DEF Tiled, Tiles
      <4>3. ASSUME NEW a \in Taken(word) PROVE a < p \/ f <= a
        <5>1. a \in DOMAIN word /\ a \in Nat
          BY <1>1, TakenWords
        <5>2. a <= k \/ f <= a
          BY <1>1, <3>2, <5>1 DEF Tiled, Apart
        <5> QED BY <3>1, <5>1, <5>2
      <4> QED BY <2>5, <3>2, <4>1, <4>2, <4>3 DEF Merging
    <3>4. MergeHeap' = heaps[i]
      <4>1. (CHOOSE j \in 1 .. Len(heaps) : InHeap(heaps[j], ptr)) = i
        BY <2>1, <2>2
      <4> QED BY <2>10, <4>1 DEF MergeHeap
    <3>5. Merging(word', MergeHeap', cur', possible')
      BY <2>10, <3>1, <3>3, <3>4
    <3>6. req' \in Request /\ req'.size = size /\ req'.len = len /\ req'.old = ptr
      BY <2>4, <2>10 DEF Request
    <3>7. Asked'
      BY <2>3, <2>10, <3>6 DEF Asked
    <3>8. Calls'
      BY <2>10, <3>5, <3>6, <3>7 DEF Calls
    <3>9. Searched'
      BY <2>10 DEF Searched
    <3>10. TypeOK'
      BY <2>4, <2>10, <3>6 DEF IInv, TypeOK
    <3>11. Phase'
      <4>1. heaps # <<>>
        BY <2>6
      <4> QED BY <2>10, <4>1 DEF IInv, Phase, Fresh, Growing, Exhausted
    <3>12. Shape(heaps', Break') /\ Tiled(word', heaps') /\ Held(word', blocks')
      BY <1>1, <2>10 DEF Break
    <3> QED BY <3>8, <3>9, <3>10, <3>11, <3>12 DEF IInv
  <2>11. \/ EnterMalloc(len, ptr)
         \/ /\ orig > size \/ orig = size
            /\ blocks' = [blocks EXCEPT ![ptr] = len]
            /\ res' = "buffer" /\ req' = NoRequest
            /\ UNCHANGED <<active, active_free, actual, mem, pc, locals>>
            /\ UNCHANGED <<heaps, word>>
         \/ /\ ptr + size <= End(heaps[i]) /\ orig <= size
            /\ ptr + orig = Top(heaps[i])
            /\ word' = Set(ptr - 4, size, TRUE)
            /\ heaps' = [heaps EXCEPT ![i].offset = @ + size - orig]
            /\ blocks' = [blocks EXCEPT ![ptr] = len]
            /\ res' = "buffer" /\ req' = NoRequest
            /\ UNCHANGED <<active, active_free, actual, mem, pc, locals>>
         \/ /\ orig < size
            /\ pc' = "extend"
            /\ req' = [len |-> len, size |-> size, old |-> ptr]
            /\ cur' = ptr /\ possible' = orig /\ res' = "none"
            /\ UNCHANGED <<heaps, active, active_free, actual, mem, word, blocks, end_free>>
    <3>1. Resize(i, ptr, len)
      BY <2>1
    <3> QED BY <2>3, <2>5, <3>1, Zenon DEF Resize, WordOf
  <2>12. orig > size \/ orig = size => orig >= size
    OBVIOUS
  <2> QED BY <2>7, <2>8, <2>9, <2>10, <2>11, <2>12, Zenon
<1> QED BY <1>2, <1>3 DEF realloc

LEMMA ExtendDoneInv ==
  ASSUME IInv, ExtendDone
  PROVE  IInv'
<1>1. /\ heaps \in Seq(Heap) /\ Break \in Nat /\ Shape(heaps, Break)
      /\ Words(word) /\ Blocks(blocks) /\ Held(word, blocks)
      /\ cur \in Nat /\ possible \in Nat /\ req.size \in Nat /\ req.len \in Nat
  BY Facts
<1>2. /\ pc = "extend" /\ possible >= req.size
      /\ word' = Combined(cur, req.size, possible, TRUE)
      /\ blocks' = [blocks EXCEPT ![cur] = req.len]
      /\ pc' = "idle" /\ cur' = 0 /\ possible' = 0 /\ end_free' = 0
      /\ res' = "buffer" /\ req' = NoRequest
      /\ UNCHANGED <<heaps, active, active_free, actual, mem>>
  BY DEF ExtendDone, EndCall
<1>3. Asked /\ cur \in DOMAIN blocks
  BY <1>2 DEF IInv, Calls
<1>4. PICK to \in Nat : to = req.size /\ Sized(to) /\ to <= possible
  BY <1>1, <1>2, <1>3 DEF Asked
<1>5. PICK len \in Nat : len = req.len /\ len <= to
  BY <1>1, <1>3, <1>4 DEF Asked
<1>6. PICK k \in Taken(word) : k = cur - 4
  BY <1>1, <1>3, HeldFields
<1>7. PICK u : u = word'
  OBVIOUS
<1>8. /\ Words(u) /\ Tiled(u, heaps) /\ u[k].size = to
      /\ k \in Taken(u)
      /\ \A a : a # k => (a \in Taken(u) <=> a \in Taken(word))
      /\ \A a \in Taken(word) : a # k => u[a].size = word[a].size
  <2>1. PICK alloc \in BOOLEAN : alloc = TRUE
    OBVIOUS
  <2>2. u = Combined(cur, to, possible, alloc)
    BY <1>2, <1>4, <1>7, <2>1
  <2>3. pc \in {"merge", "extend"}
    BY <1>2
  <2>4. /\ Words(u) /\ Tiled(u, heaps) /\ u[cur - 4].size = to
        /\ cur - 4 \in Taken(u) <=> alloc
        /\ \A a : a # cur - 4 => (a \in Taken(u) <=> a \in Taken(word))
        /\ \A a \in Taken(word) : a # cur - 4 => u[a].size = word[a].size
    BY <1>4, <2>2, <2>3, Merged
  <2> QED BY <1>6, <2>1, <2>4, Zenon
<1>9. Taken(u) = Taken(word)
  <2>1. \A a : a \in Taken(u) <=> a \in Taken(word)
    BY <1>6, <1>8, Zenon
  <2>2. Taken(u) \subseteq Taken(word) /\ Taken(word) \subseteq Taken(u)
    BY <2>1
  <2> QED BY <2>2, Zenon
<1>10. PICK bs : bs = blocks' /\ bs = [blocks EXCEPT ![cur] = len]
  BY <1>2, <1>5
<1>11. Held(u, bs)
  <2>1. PICK at \in DOMAIN blocks : at = cur
    BY <1>3
  <2>2. len <= u[at - 4].size
    BY <1>5, <1>6, <1>8, <2>1
  <2>3. \A a \in Taken(word) : a # at - 4 => u[a].size = word[a].size
    BY <1>6, <1>8, <2>1
  <2>4. Held(u, [blocks EXCEPT ![at] = len])
    BY <1>1, <1>9, <2>2, <2>3, HeldResized
  <2> QED BY <1>10, <2>1, <2>4
<1>12. Blocks(bs)
  BY <1>1, <1>10 DEF Blocks
<1>13. TypeOK'
  <2>1. req' \in Request
    BY <1>2 DEF NoRequest, Request
  <2>2. Words(word') /\ Blocks(blocks')
    BY <1>7, <1>8, <1>10, <1>12
  <2> QED BY <1>2, <2>1, <2>2 DEF IInv, TypeOK, Words, Blocks
<1>14. Phase'
  BY <1>2 DEF IInv, Phase, Fresh, Growing, Exhausted
<1>15. Shape(heaps', Break') /\ Tiled(word', heaps') /\ Held(word', blocks')
  BY <1>1, <1>2, <1>7, <1>8, <1>10, <1>11 DEF Break
<1> QED BY <1>2, <1>13, <1>14, <1>15, IdleInv

\* Nothing was merged: a new buffer is looked for, and the old one is kept
\* until it is found.
LEMMA ExtendFailedInv ==
  ASSUME IInv, ExtendFailed
  PROVE  IInv'
<1>1. pc = "extend" /\ EnterMalloc(req.len, cur)
  BY DEF ExtendFailed
<1>2. cur \in DOMAIN blocks
  BY <1>1 DEF IInv, Calls
<1>3. PICK len \in Nat : len = req.len
  BY Facts
<1>4. EnterMalloc(len, cur)
  BY <1>1, <1>3
<1> QED BY <1>1, <1>2, <1>4, EnterMallocInv

-----------------------------------------------------------------------------
(* The theorems.                                                           *)

LEMMA StutterInv ==
  ASSUME IInv, UNCHANGED vars
  PROVE  IInv'
<1>1. TypeOK'
  BY DEF IInv, TypeOK, vars
<1>2. Shape(heaps', Break') /\ Tiled(word', heaps') /\ Held(word', blocks')
  BY DEF IInv, Break, vars
<1>3. Phase'
  BY DEF IInv, Phase, Fresh, Growing, Exhausted, vars
<1>4. FreeHeap' = FreeHeap /\ MergeHeap' = MergeHeap
  BY DEF FreeHeap, MergeHeap, vars
<1>5. (Asked' <=> Asked) /\ (AtBuffer' <=> AtBuffer) /\ \A i : Done(i)' <=> Done(i)
  BY <1>4 DEF Asked, AtBuffer, Done, vars
<1>6. Calls'
  <2>1. Calls /\ UNCHANGED <<pc, word, req, cur, blocks, possible>>
    BY DEF IInv, vars
  <2> QED BY <1>4, <1>5, <2>1 DEF Calls
<1>7. Searched'
  <2>1. Searched /\ UNCHANGED <<pc, res, word, heaps, req, cur>>
    BY DEF IInv, vars
  <2> QED BY <1>4, <1>5, <2>1 DEF Searched
<1> QED BY <1>1, <1>2, <1>3, <1>6, <1>7 DEF IInv

LEMMA StepInv ==
  ASSUME IInv, MergesFreedOnly', [Next]_vars
  PROVE  IInv'
<1>1. Sizes \subseteq Nat /\ ReallocSizes \subseteq Nat /\ CallocArgs \subseteq (Nat \X Nat)
  BY MallocHeapAssumption
<1>2. ASSUME NEW len \in Sizes, malloc(len) PROVE IInv'
  BY <1>1, <1>2, MallocInv
<1>3. ASSUME NEW a \in CallocArgs, calloc(a[1], a[2]) PROVE IInv'
  <2>1. PICK n \in Nat : n = a[1] * a[2]
    BY <1>1
  <2>2. malloc(n)
    BY <1>3, <2>1 DEF calloc
  <2> QED BY <2>2, MallocInv
<1>4. ASSUME NEW ptr \in DOMAIN blocks, NEW len \in ReallocSizes, realloc(ptr, len)
      PROVE  IInv'
  BY <1>1, <1>4, ReallocInv
<1>5. ASSUME NEW ptr \in DOMAIN blocks, free(ptr) PROVE IInv'
  BY <1>5, FreeInv
<1>6. CASE Step
  <2>1. CASE memory_malloc BY <2>1, MemoryMallocInv
  <2>2. CASE GrowActiveHeap BY <2>2, GrowActiveHeapInv
  <2>3. CASE RefuseActiveHeap BY <2>3, RefuseActiveHeapInv
  <2>4. CASE SkipAllocated BY <2>4, SkipAllocatedInv
  <2>5. CASE StartMerge BY <2>5, StartMergeInv
  <2>6. CASE MergeNext BY <2>6, MergeNextInv
  <2>7. CASE MergeFound BY <2>7, MergeFoundInv
  <2>8. CASE MergeTooSmall BY <2>8, MergeTooSmallInv
  <2>9. CASE ExtendDone BY <2>9, ExtendDoneInv
  <2>10. CASE ExtendFailed BY <2>10, ExtendFailedInv
  <2> QED BY <1>6, <2>1, <2>2, <2>3, <2>4, <2>5, <2>6, <2>7, <2>8, <2>9, <2>10 DEF Step
<1>7. CASE UNCHANGED vars
  BY <1>7, StutterInv
<1> QED BY <1>2, <1>3, <1>4, <1>5, <1>6, <1>7 DEF Next

LEMMA GivesTypeOK == IInv => TypeOK
BY DEF IInv

LEMMA GivesWordsTileHeaps == IInv => WordsTileHeaps
<1>1. SUFFICES ASSUME IInv, NEW i \in 1 .. Len(heaps)
               PROVE  /\ heaps[i].offset <= heaps[i].size
                      /\ heaps[i].offset > 0 => heaps[i].base \in WordsIn(heaps[i])
                      /\ \A a \in WordsIn(heaps[i]) :
                           /\ \/ After(a) = Top(heaps[i])
                              \/ /\ After(a) < Top(heaps[i])
                                 /\ After(a) \in WordsIn(heaps[i])
                           /\ \A b \in WordsIn(heaps[i]) : b <= a \/ After(a) <= b
  BY DEF WordsTileHeaps
<1>2. /\ heaps \in Seq(Heap) /\ Break \in Nat /\ Shape(heaps, Break)
      /\ Words(word) /\ Tiled(word, heaps)
  BY <1>1, Facts
<1>3. \A a \in WordsIn(heaps[i]) : a \in DOMAIN word /\ Within(heaps[i], a)
  BY DEF WordsIn, Within
<1>4. PICK b \in Nat, o \in Nat, z \in Nat :
        b = heaps[i].base /\ o = heaps[i].offset /\ z = heaps[i].size
  BY <1>2, HeapFields
<1>5. Top(heaps[i]) = b + o /\ End(heaps[i]) = b + z
  BY <1>2, <1>4, HeapFields
<1>6. o <= z /\ z > 0
  BY <1>2, <1>4 DEF Shape
<1>7. o > 0 => b \in WordsIn(heaps[i])
  <2>1. o > 0 => b \in DOMAIN word
    BY <1>2, <1>4 DEF Tiled, Tiles
  <2>2. b <= b /\ b < b + z
    BY <1>6
  <2> QED BY <1>4, <1>5, <2>1, <2>2 DEF WordsIn
<1>8. ASSUME NEW a \in WordsIn(heaps[i])
      PROVE  \/ After(a) = Top(heaps[i])
             \/ After(a) < Top(heaps[i]) /\ After(a) \in WordsIn(heaps[i])
  <2>1. After(a) = Following(word, a)
    BY DEF After, Following
  <2>2. PICK f \in Nat, s \in Nat, x \in Nat :
          f = Following(word, a) /\ s = word[a].size /\ x = a /\ f = x + 4 + s
    BY <1>2, <1>3, WordFields
  <2>3. f = Top(heaps[i]) \/ (f < Top(heaps[i]) /\ f \in DOMAIN word)
    BY <1>2, <1>3, <2>2 DEF Tiled, Tiles
  <2>4. b <= x
    BY <1>3, <1>4, <2>2 DEF Within
  <2>5. ASSUME f < Top(heaps[i]), f \in DOMAIN word PROVE f \in WordsIn(heaps[i])
    <3>1. b <= f /\ f < b + z
      BY <1>5, <1>6, <2>2, <2>4, <2>5
    <3> QED BY <1>4, <1>5, <2>5, <3>1 DEF WordsIn
  <2> QED BY <2>1, <2>2, <2>3, <2>5
<1>9. ASSUME NEW a \in WordsIn(heaps[i]), NEW c \in WordsIn(heaps[i])
      PROVE  c <= a \/ After(a) <= c
  BY <1>2, <1>3 DEF Tiled, Apart, After, Following
<1> QED BY <1>4, <1>6, <1>7, <1>8, <1>9

LEMMA GivesAllocatedIsHeld == IInv => AllocatedIsHeld
<1>1. SUFFICES ASSUME IInv PROVE AllocatedIsHeld
  OBVIOUS
<1>2. Words(word) /\ Held(word, blocks) /\ Blocks(blocks)
  BY <1>1, Facts
<1>3. \A p \in DOMAIN blocks : p - 4 \in DOMAIN word
  BY <1>2, HeldFields
<1>4. ASSUME NEW a \in DOMAIN word
      PROVE  /\ word[a].alloc <=> a + 4 \in DOMAIN blocks
             /\ word[a].alloc => blocks[a + 4] <= word[a].size
  <2>1. a \in Taken(word) <=> word[a].alloc
    BY DEF Taken
  <2>2. PICK k \in Nat, p \in Nat : k = a /\ p = a + 4 /\ p - 4 = k
    <3>1. a \in Nat
      BY <1>2 DEF Words
    <3>2. a + 4 \in Nat /\ (a + 4) - 4 = a
      BY <3>1
    <3> QED BY <3>1, <3>2
  <2>3. ASSUME p \in DOMAIN blocks PROVE k \in Taken(word) /\ blocks[p] <= word[k].size
    BY <1>2, <2>2, <2>3, HeldFields
  <2>4. a \in Taken(word) => p \in DOMAIN blocks
    BY <1>2, <2>2 DEF Held
  <2> QED BY <2>1, <2>2, <2>3, <2>4
<1> QED BY <1>3, <1>4 DEF AllocatedIsHeld

LEMMA GivesBlocksDisjoint == IInv => BlocksDisjoint
<1>1. SUFFICES ASSUME IInv, NEW p \in DOMAIN blocks
               PROVE  /\ p + blocks[p] <= mem * PageSize
                      /\ \A q \in DOMAIN blocks : q <= p \/ p + blocks[p] <= q
  BY DEF BlocksDisjoint
<1>2. /\ heaps \in Seq(Heap) /\ Break \in Nat /\ Shape(heaps, Break)
      /\ Words(word) /\ Blocks(blocks) /\ Tiled(word, heaps) /\ Held(word, blocks)
  BY <1>1, Facts
<1>3. PICK x \in Nat, n \in Nat : x = p /\ n = blocks[p]
  BY <1>2 DEF Blocks
<1>4. PICK k \in DOMAIN word : k = x - 4 /\ k \in Nat /\ n <= word[k].size
  BY <1>2, <1>3, HeldFields
<1>5. PICK s \in Nat : s = word[k].size /\ Following(word, k) = k + 4 + s
  BY <1>2, WordFields
<1>6. x + n <= k + 4 + s
  BY <1>4, <1>5
<1>7. x + n <= Break
  <2>1. PICK i \in 1 .. Len(heaps) : Within(heaps[i], k)
    BY <1>2 DEF Tiled
  <2>2. PICK t \in Nat, e \in Nat : t = Top(heaps[i]) /\ e = End(heaps[i])
    BY <1>2, HeapFields
  <2>3. k + 4 + s <= t /\ t <= e
    BY <1>2, <1>5, <2>1, <2>2, BelowTop
  <2>4. PICK l \in Nat : l = Break
    BY <1>2
  <2>5. e <= l
    BY <1>2, <2>2, <2>4 DEF Shape
  <2>6. x + n <= l
    BY <1>6, <2>3, <2>5
  <2> QED BY <2>4, <2>6
<1>8. ASSUME NEW q \in DOMAIN blocks PROVE q <= x \/ x + n <= q
  <2>1. PICK y \in Nat : y = q
    BY <1>2 DEF Blocks
  <2>2. PICK j \in DOMAIN word : j = y - 4 /\ j \in Nat
    BY <1>2, <2>1, HeldFields
  <2>3. j <= k \/ k + 4 + s <= j
    BY <1>2, <1>5 DEF Tiled, Apart
  <2>4. y <= x \/ x + n <= y
    BY <1>4, <1>6, <2>2, <2>3
  <2> QED BY <2>1, <2>4
<1> QED BY <1>3, <1>7, <1>8 DEF Break

LEMMA GivesNullOnlyWhenFull == IInv => NullOnlyWhenFull
<1>1. SUFFICES ASSUME IInv, pc = "idle", res = "null", NEW i \in 1 .. Len(heaps),
                      NEW a \in WordsIn(heaps[i]), NEW b \in WordsIn(heaps[i]),
                      a <= b, \A x \in Run(a, b) : ~word[x].alloc
               PROVE  After(b) - (a + size_marker) < req.size
  BY DEF NullOnlyWhenFull
<1>2. Words(word)
  BY <1>1, Facts
<1>3. \A x \in WordsIn(heaps[i]) : x \in DOMAIN word /\ Within(heaps[i], x)
  BY DEF WordsIn, Within
<1>4. FreeRun(word, a, b)
  <2>1. ASSUME NEW x \in Taken(word), ~(x < a), ~(b < x) PROVE FALSE
    <3>1. x \in DOMAIN word /\ x \in Nat
      BY <1>2, TakenWords
    <3>2. a \in Nat /\ b \in Nat
      BY <1>2, <1>3 DEF Words
    <3>3. a <= x /\ x <= b
      BY <2>1, <3>1, <3>2
    <3>4. x \in Run(a, b)
      BY <3>1, <3>3 DEF Run
    <3> QED BY <1>1, <3>4 DEF Taken
  <2> QED BY <1>1, <2>1 DEF FreeRun
<1>5. NoRoom(word, heaps[i], req.size)
  BY <1>1 DEF IInv, Searched
<1> QED BY <1>3, <1>4, <1>5 DEF NoRoom, After, Following

LEMMA GivesSearchesFullHeaps == IInv => SearchesFullHeaps
BY DEF IInv, Phase, Fresh, Growing, Exhausted, SearchesFullHeaps

(* The inductive invariant holds in every behaviour in which no buffer     *)
(* grows beyond _offset, which is where merge_contiguous goes wrong.       *)
THEOREM Invariant == Spec /\ []MergesFreedOnly => []IInv
<1>1. Init => IInv
  BY InitInv
<1>2. IInv /\ MergesFreedOnly' /\ [Next]_vars => IInv'
  BY StepInv
<1> QED BY <1>1, <1>2, PTL DEF Spec

(* Every variable of the manager stays in its type, whatever is asked for. *)
THEOREM TypeCorrect == Spec /\ []MergesFreedOnly => []TypeOK
BY Invariant, GivesTypeOK, PTL

(* The size words tile every heap up to its offset, after any splitting,   *)
(* merging, expanding and cleaning up: the walks of the search and of      *)
(* merge_contiguous only meet size words.                                  *)
THEOREM Tiling == Spec /\ []MergesFreedOnly => []WordsTileHeaps
BY Invariant, GivesWordsTileHeaps, PTL

(* What is marked as allocated is what clients hold, and is as large as    *)
(* they asked: realloc and a failing malloc neither leak nor hand out      *)
(* twice.                                                                  *)
THEOREM Ownership == Spec /\ []MergesFreedOnly => []AllocatedIsHeld
BY Invariant, GivesAllocatedIsHeld, PTL

(* The blocks that clients hold never overlap and lie in granted memory.   *)
THEOREM Disjointness == Spec /\ []MergesFreedOnly => []BlocksDisjoint
BY Invariant, GivesBlocksDisjoint, PTL

(* Null is returned only when no run of free buffers of any heap is large  *)
(* enough: the search round the heaps misses none, wherever it started.    *)
THEOREM Completeness == Spec /\ []MergesFreedOnly => []NullOnlyWhenFull
BY Invariant, GivesNullOnlyWhenFull, PTL

(* The check of malloc_from_freed never fails: a heap that is searched has *)
(* been filled to its end.                                                 *)
THEOREM FullWhenSearched == Spec /\ []MergesFreedOnly => []SearchesFullHeaps
BY Invariant, GivesSearchesFullHeaps, PTL

-----------------------------------------------------------------------------
(* Clients that use realloc to free only, or not at all.                   *)

FreesOnly == ReallocSizes \subseteq {0}

LEMMA NoExtendStep ==
  ASSUME FreesOnly, pc # "extend", [Next]_vars
  PROVE  pc' # "extend"
<1>1. ASSUME NEW len, malloc(len) PROVE pc' # "extend"
  BY <1>1 DEF malloc, EnterMalloc, StartSearch, EnterHeap
<1>2. ASSUME NEW ptr, free(ptr) PROVE pc' # "extend"
  BY <1>2 DEF free
<1>3. ASSUME NEW ptr, NEW len \in ReallocSizes, realloc(ptr, len) PROVE pc' # "extend"
  BY <1>2, <1>3 DEF realloc, FreesOnly
<1>4. CASE Step
  <2>1. CASE memory_malloc BY <2>1 DEF memory_malloc, Return, EndCall
  <2>2. CASE GrowActiveHeap BY <2>2 DEF GrowActiveHeap
  <2>3. CASE RefuseActiveHeap BY <2>3 DEF RefuseActiveHeap, StartSearch, EnterHeap
  <2>4. CASE SkipAllocated
    BY <2>4 DEF SkipAllocated, Advance, ReturnNull, EndCall, EnterHeap
  <2>5. CASE StartMerge BY <2>5 DEF StartMerge
  <2>6. CASE MergeNext BY <2>6 DEF MergeNext
  <2>7. CASE MergeFound BY <2>7 DEF MergeFound, Return, EndCall
  <2>8. CASE MergeTooSmall
    BY <2>8 DEF MergeTooSmall, Advance, ReturnNull, EndCall, EnterHeap
  <2>9. CASE ExtendDone BY <2>9 DEF ExtendDone
  <2>10. CASE ExtendFailed BY <2>10 DEF ExtendFailed
  <2> QED BY <1>4, <2>1, <2>2, <2>3, <2>4, <2>5, <2>6, <2>7, <2>8, <2>9, <2>10 DEF Step
<1>5. CASE UNCHANGED vars
  BY <1>5 DEF vars
<1> QED BY <1>1, <1>2, <1>3, <1>4, <1>5 DEF Next, calloc

(* A client that never asks realloc for another size meets the hypothesis  *)
(* of the theorems above.                                                  *)
THEOREM NeverExtended == Spec => [](FreesOnly => MergesFreedOnly)
<1>1. Init => (FreesOnly => pc # "extend")
  BY DEF Init
<1>2. (FreesOnly => pc # "extend") /\ [Next]_vars => (FreesOnly => pc # "extend")'
  BY NoExtendStep DEF FreesOnly
<1>3. (FreesOnly => pc # "extend") => (FreesOnly => MergesFreedOnly)
  BY DEF MergesFreedOnly
<1> QED BY <1>1, <1>2, <1>3, PTL DEF Spec

(* For such a client no hypothesis is left: no block overlaps another,     *)
(* none is lost, and null means full, for every sequence of calls.         *)
THEOREM SafeWithoutRealloc ==
  Spec => [](FreesOnly => WordsTileHeaps /\ AllocatedIsHeld /\ BlocksDisjoint
                            /\ NullOnlyWhenFull /\ SearchesFullHeaps)
<1>1. Init => (FreesOnly => IInv)
  BY InitInv
<1>2. (FreesOnly => IInv) /\ (FreesOnly => MergesFreedOnly)' /\ [Next]_vars
        => (FreesOnly => IInv)'
  <2>1. SUFFICES ASSUME FreesOnly => IInv, (FreesOnly => MergesFreedOnly)', [Next]_vars,
                        FreesOnly'
                 PROVE  IInv'
    OBVIOUS
  <2>2. FreesOnly
    BY <2>1 DEF FreesOnly
  <2>3. MergesFreedOnly'
    BY <2>1
  <2> QED BY <2>1, <2>2, <2>3, StepInv
<1>3. (FreesOnly => IInv)
        => (FreesOnly => WordsTileHeaps /\ AllocatedIsHeld /\ BlocksDisjoint
                           /\ NullOnlyWhenFull /\ SearchesFullHeaps)
  BY GivesWordsTileHeaps, GivesAllocatedIsHeld, GivesBlocksDisjoint, GivesNullOnlyWhenFull,
     GivesSearchesFullHeaps
<1> QED BY <1>1, <1>2, <1>3, NeverExtended, PTL DEF Spec
=============================================================================
