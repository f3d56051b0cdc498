-------------------------- MODULE ActionDataProofs --------------------------
(***************************************************************************)
(* What was sent is what is read, for every width of a byte and a word,    *)
(* every signature and every pair of versions of it.                       *)
(*                                                                         *)
(* The writers and readers are recursive functions, so the first part      *)
(* shows that a recursion whose calls have a smaller measure has a         *)
(* solution, by an induction that takes the property as a set.  Then each  *)
(* reader is shown to give back what its writer wrote (RoundTrip), pack to *)
(* lay the arguments one after the other, and the cursors to stay where    *)
(* one of them begins (IInv).                                              *)
(***************************************************************************)
EXTENDS ActionData, TLAPS, SequenceTheorems, FiniteSetTheorems, WellFoundedInduction

-----------------------------------------------------------------------------
(***************************************************************************)
(* Induction over a measure, with the property as a set, and recursive     *)
(* functions whose calls have a smaller measure.                           *)
(***************************************************************************)
LEMMA MeasureInduction ==
  ASSUME NEW D, NEW m \in [D -> Nat], NEW T,
         \A x \in D : (\A y \in D : m[y] < m[x] => y \in T) => x \in T
  PROVE  \A x \in D : x \in T
<1> DEFINE U == {n \in Nat : \E x \in D : m[x] = n /\ x \notin T}
           R == OpToRel(<, Nat)
<1>1. R = {ss \in Nat \X Nat : ss[1] < ss[2]}
  BY DEF OpToRel
<1>2. IsWellFoundedOn(R, Nat)
  BY NatLessThanWellFounded
<1> SUFFICES ASSUME NEW z \in D, z \notin T PROVE FALSE
  OBVIOUS
<1>3. U \in SUBSET Nat /\ U # {}
  <2>1. m[z] \in U
    OBVIOUS
  <2> QED BY <2>1
<1> HIDE DEF R
<1>4. PICK n \in U : \A k \in U : ~(<<k, n>> \in R)
  BY <1>2, <1>3, WFMin
<1>5. PICK x \in D : m[x] = n /\ x \notin T
  OBVIOUS
<1>6. ASSUME NEW y \in D, m[y] < m[x] PROVE y \in T
  <2> SUFFICES ASSUME y \notin T PROVE FALSE
    OBVIOUS
  <2>1. m[y] \in U /\ m[y] \in Nat /\ n \in Nat /\ m[y] < n
    BY <1>5, <1>6
  <2> HIDE DEF U
  <2>2. <<m[y], n>> \in R
    BY <1>1, <2>1
  <2> QED BY <1>4, <2>1, <2>2
<1> QED BY <1>5, <1>6

\* F is one turn of a recursion on D with values in R: what it gives at x
\* depends on what its argument gives where the measure m is smaller.
Recursion(F, D, m, R) ==
  /\ m \in [D -> Nat]
  /\ F \in [[D -> R] -> [D -> R]]
  /\ \A g, h \in [D -> R] : \A x \in D :
       (\A y \in D : m[y] < m[x] => g[y] = h[y]) => F[g][x] = F[h][x]

\* g is a solution where the measure is less than k.
SolvesBelow(F, D, m, R, k, g) ==
  g \in [D -> R] /\ \A x \in D : m[x] < k => g[x] = F[g][x]

LEMMA SolutionsAgree ==
  ASSUME NEW F, NEW D, NEW m, NEW R, Recursion(F, D, m, R),
         NEW j \in Nat, NEW k \in Nat, NEW g, NEW h,
         SolvesBelow(F, D, m, R, j, g), SolvesBelow(F, D, m, R, k, h)
  PROVE  \A x \in D : m[x] < j /\ m[x] < k => g[x] = h[x]
<1> DEFINE T == {x \in D : m[x] < j /\ m[x] < k => g[x] = h[x]}
<1>0. m \in [D -> Nat]
  BY DEF Recursion
<1>1. ASSUME NEW x \in D, \A y \in D : m[y] < m[x] => y \in T
      PROVE  x \in T
  <2> SUFFICES ASSUME m[x] < j, m[x] < k PROVE g[x] = h[x]
    OBVIOUS
  <2>1. \A y \in D : m[y] < m[x] => g[y] = h[y]
    BY <1>0, <1>1
  <2>2. F[g][x] = F[h][x]
    BY <2>1 DEF Recursion, SolvesBelow
  <2> QED BY <2>2 DEF SolvesBelow
<1> HIDE DEF T
<1>2. \A x \in D : x \in T
  BY <1>0, <1>1, MeasureInduction
<1> QED BY <1>2 DEF T

LEMMA SolutionsBelow ==
  ASSUME NEW F, NEW D, NEW m, NEW R, Recursion(F, D, m, R), R # {}, NEW k \in Nat
  PROVE  \E g : SolvesBelow(F, D, m, R, k, g)
<1> DEFINE S == {n \in Nat : \E g : SolvesBelow(F, D, m, R, n, g)}
           id == [n \in Nat |-> n]
<1>1. ASSUME NEW n \in Nat, \A j \in Nat : id[j] < id[n] => j \in S
      PROVE  n \in S
  <2>1. CASE n = 0
    <3>1. PICK r \in R : TRUE
      OBVIOUS
    <3> DEFINE g == [x \in D |-> r]
    <3>2. g \in [D -> R]
      OBVIOUS
    <3>3. \A x \in D : ~(m[x] < 0)
      BY DEF Recursion
    <3> HIDE DEF g
    <3>4. SolvesBelow(F, D, m, R, n, g)
      BY <2>1, <3>2, <3>3 DEF SolvesBelow
    <3> QED BY <3>4
  <2>2. CASE n # 0
    <3>1. n - 1 \in S
      BY <1>1, <2>2
    <3>2. PICK g : SolvesBelow(F, D, m, R, n - 1, g)
      BY <3>1
    <3> DEFINE h == F[g]
    <3>3. h \in [D -> R] /\ g \in [D -> R]
      BY <3>2 DEF SolvesBelow, Recursion
    <3>4. ASSUME NEW x \in D, m[x] < n PROVE h[x] = F[h][x]
      <4>1. ASSUME NEW y \in D, m[y] < m[x] PROVE g[y] = h[y]
        <5>1. m[y] \in Nat /\ m[x] \in Nat
          BY DEF Recursion
        <5>2. m[y] < n - 1
          BY <3>4, <4>1, <5>1
        <5> QED BY <3>2, <5>2 DEF SolvesBelow
      <4> QED BY <3>3, <4>1 DEF Recursion
    <3> HIDE DEF h
    <3>5. SolvesBelow(F, D, m, R, n, h)
      BY <3>3, <3>4 DEF SolvesBelow
    <3> QED BY <3>5
  <2> QED BY <2>1, <2>2
<1>2. id \in [Nat -> Nat]
  OBVIOUS
<1> HIDE DEF S, id
<1>3. \A n \in Nat : n \in S
  BY <1>1, <1>2, MeasureInduction
<1> QED BY <1>3 DEF S

\* A recursion has a solution.
LEMMA RecursionSolved ==
  ASSUME NEW F, NEW D, NEW m, NEW R, Recursion(F, D, m, R), R # {}
  PROVE  \E f \in [D -> R] : \A x \in D : f[x] = F[f][x]
<1> DEFINE G(k) == CHOOSE g : SolvesBelow(F, D, m, R, k, g)
           f == [x \in D |-> G(m[x] + 1)[x]]
<1>1. ASSUME NEW k \in Nat PROVE SolvesBelow(F, D, m, R, k, G(k))
  BY SolutionsBelow
<1>2. \A x \in D : m[x] \in Nat
  BY DEF Recursion
<1>3. ASSUME NEW k \in Nat PROVE G(k) \in [D -> R]
  <2> HIDE DEF G
  <2> QED BY <1>1 DEF SolvesBelow
<1>4. ASSUME NEW x \in D PROVE f[x] \in R /\ f[x] = G(m[x] + 1)[x]
  <2>1. m[x] + 1 \in Nat
    BY <1>2
  <2> HIDE DEF G
  <2> QED BY <1>3, <2>1
<1>5. f \in [D -> R]
  <2> HIDE DEF G
  <2> QED BY <1>4
<1> HIDE DEF f, G
<1>6. ASSUME NEW x \in D PROVE f[x] = F[f][x]
  <2> DEFINE g == G(m[x] + 1)
  <2>0. m[x] \in Nat /\ m[x] + 1 \in Nat
    BY <1>2
  <2>1. g \in [D -> R] /\ SolvesBelow(F, D, m, R, m[x] + 1, g)
    BY <1>1, <1>3, <2>0
  <2>2. ASSUME NEW y \in D, m[y] < m[x] PROVE f[y] = g[y]
    <3>1. m[y] \in Nat /\ m[y] + 1 \in Nat
      BY <1>2
    <3>2. SolvesBelow(F, D, m, R, m[y] + 1, G(m[y] + 1))
      BY <1>1, <3>1
    <3>3. m[y] < m[y] + 1 /\ m[y] < m[x] + 1
      BY <2>0, <2>2, <3>1
    <3> HIDE DEF g
    <3>4. G(m[y] + 1)[y] = g[y]
      BY <2>0, <2>1, <3>1, <3>2, <3>3, SolutionsAgree
    <3> QED BY <1>4, <3>4
  <2>3. F[f][x] = F[g][x]
    <3> HIDE DEF g
    <3> QED BY <1>5, <2>1, <2>2 DEF Recursion
  <2>4. g[x] = F[g][x]
    <3> HIDE DEF g
    <3> QED BY <2>0, <2>1 DEF SolvesBelow
  <2> QED BY <1>4, <2>3, <2>4
<1> QED BY <1>5, <1>6

-----------------------------------------------------------------------------
(***************************************************************************)
(* Division.                                                               *)
(***************************************************************************)
LEMMA DivMod ==
  ASSUME NEW a \in Nat, NEW b \in Nat, b > 0
  PROVE  /\ a \div b \in Nat /\ a % b \in 0 .. b - 1
         /\ a = b * (a \div b) + (a % b)
  OBVIOUS

LEMMA DivLess ==
  ASSUME NEW a \in Nat, NEW b \in Nat, b > 1, a >= b
  PROVE  a \div b \in Nat /\ a \div b < a /\ a \div b > 0
<1> DEFINE q == a \div b
           r == a % b
<1>1. q \in Nat /\ r \in 0 .. b - 1 /\ a = b * q + r
  BY DivMod
<1> HIDE DEF q, r
<1>2. q > 0
  <2> SUFFICES ASSUME q = 0 PROVE FALSE
    BY <1>1
  <2> QED BY <1>1
<1>3. b * q >= 2 * q
  BY <1>1
<1>4. q < a
  BY <1>1, <1>2, <1>3
<1> QED BY <1>1, <1>2, <1>4 DEF q

Bytes == 0 .. Byte - 1

LEMMA ByteFacts == Group \in Nat /\ Group > 1 /\ Byte \in Nat /\ Byte = 2 * Group
                   /\ Word \in Nat /\ Word > 1 /\ Word % 2 = 0
BY DatastreamAssumption DEF Byte

-----------------------------------------------------------------------------
(***************************************************************************)
(* Writing.                                                                *)
(***************************************************************************)
WriteTurn(g, v) ==
  IF v < Group THEN <<v>> ELSE <<(v % Group) + Group>> \o g[v \div Group]

LEMMA WriteTurnTyped ==
  ASSUME NEW v \in 0 .. Word - 1, NEW g, v >= Group => g[v \div Group] \in Seq(Bytes)
  PROVE  WriteTurn(g, v) \in Seq(Bytes)
<1>1. CASE v < Group
  BY <1>1, ByteFacts DEF WriteTurn, Bytes
<1>2. CASE v >= Group
  <2>1. (v % Group) + Group \in Bytes
    BY ByteFacts, DivMod DEF Bytes
  <2>2. WriteTurn(g, v) = <<(v % Group) + Group>> \o g[v \div Group]
    BY <1>2, ByteFacts DEF WriteTurn
  <2> QED BY <1>2, <2>1, <2>2, ConcatProperties
<1> QED BY <1>1, <1>2, ByteFacts

LEMMA WriteUnsigned ==
  /\ \A v \in 0 .. Word - 1 : write_unsigned[v] = WriteTurn(write_unsigned, v)
  /\ write_unsigned \in [0 .. Word - 1 -> Seq(Bytes)]
<1> DEFINE D == 0 .. Word - 1
           R == Seq(Bytes)
           F == [g \in [D -> R] |-> [v \in D |-> WriteTurn(g, v)]]
           m == [v \in D |-> v]
           Body(g) == [v \in D |-> WriteTurn(g, v)]
<1>0. m \in [D -> Nat] /\ \A v \in D : m[v] = v
  BY ByteFacts
<1>1. ASSUME NEW v \in D, v >= Group
      PROVE  v \div Group \in D /\ v \div Group < v
  BY <1>1, ByteFacts, DivLess
<1>2. Recursion(F, D, m, R)
  <2>1. ASSUME NEW g \in [D -> R], NEW v \in D PROVE WriteTurn(g, v) \in R
    <3>1. v >= Group => g[v \div Group] \in Seq(Bytes)
      BY <1>1
    <3> QED BY <3>1, WriteTurnTyped
  <2>2. \A g \in [D -> R] : \A v \in D : F[g][v] = WriteTurn(g, v)
    OBVIOUS
  <2>3. F \in [[D -> R] -> [D -> R]]
    BY <2>1
  <2>4. ASSUME NEW g \in [D -> R], NEW h \in [D -> R], NEW v \in D,
               \A y \in D : m[y] < m[v] => g[y] = h[y]
        PROVE  F[g][v] = F[h][v]
    <3>1. v >= Group => g[v \div Group] = h[v \div Group]
      BY <1>0, <1>1, <2>4
    <3>2. WriteTurn(g, v) = WriteTurn(h, v)
      BY <3>1, ByteFacts DEF WriteTurn
    <3> QED BY <2>2, <3>2
  <2> HIDE DEF F, m, D, R
  <2> QED BY <1>0, <2>3, <2>4 DEF Recursion
<1>3. PICK f \in [D -> R] : \A v \in D : f[v] = F[f][v]
  <2>1. R # {}
    BY EmptySeq
  <2> HIDE DEF F, m, D, R
  <2> QED BY <1>2, <2>1, RecursionSolved
<1>4. f = Body(f)
  BY <1>3
<1>5. write_unsigned = CHOOSE g : g = Body(g)
  BY Zenon DEF write_unsigned, WriteTurn
<1> DEFINE w == write_unsigned
<1>6. w = Body(w)
  <2> HIDE DEF Body
  <2> QED BY <1>4, <1>5, Zenon
<1> HIDE DEF w
<1>7. \A v \in D : w[v] = WriteTurn(w, v)
  BY <1>6
<1> DEFINE T == {v \in D : w[v] \in Seq(Bytes)}
<1>8. ASSUME NEW v \in D, \A y \in D : m[y] < m[v] => y \in T PROVE v \in T
  <2>1. v >= Group => w[v \div Group] \in Seq(Bytes)
    BY <1>0, <1>1, <1>8
  <2> QED BY <1>7, <2>1, WriteTurnTyped
<1>9. \A v \in D : v \in T
  <2> HIDE DEF T, m, D
  <2> QED BY <1>0, <1>8, MeasureInduction
<1>10. w \in [D -> Seq(Bytes)]
  BY <1>6, <1>9
<1> QED BY <1>7, <1>10 DEF w

\* A varint has at least one byte.
LEMMA UnsignedTyped ==
  ASSUME NEW v \in 0 .. Word - 1
  PROVE  write_unsigned[v] \in Seq(Bytes) /\ Len(write_unsigned[v]) \in Nat \ {0}
<1>1. write_unsigned[v] \in Seq(Bytes) /\ write_unsigned[v] = WriteTurn(write_unsigned, v)
  BY WriteUnsigned
<1>2. write_unsigned[v] # <<>>
  <2>1. CASE v < Group
    BY <1>1, <2>1 DEF WriteTurn
  <2>2. CASE ~(v < Group)
    <3>1. v \div Group \in 0 .. Word - 1
      BY <2>2, ByteFacts, DivLess
    <3>2. write_unsigned[v \div Group] \in Seq(Bytes)
      BY <3>1, WriteUnsigned
    <3>3. (v % Group) + Group \in Bytes
      BY ByteFacts, DivMod DEF Bytes
    <3> QED BY <1>1, <2>2, <3>2, <3>3 DEF WriteTurn
  <2> QED BY <2>1, <2>2
<1> QED BY <1>1, <1>2, EmptySeq

LEMMA LeastNat ==
  ASSUME NEW T \in SUBSET Nat, T # {}
  PROVE  \E n \in T : \A k \in T : n <= k
<1> DEFINE id == [n \in Nat |-> n]
           U == {n \in Nat : n \notin T}
<1> SUFFICES ASSUME \A n \in T : \E k \in T : ~(n <= k) PROVE FALSE
  OBVIOUS
<1>1. \A n \in Nat : (\A k \in Nat : id[k] < id[n] => k \in U) => n \in U
  OBVIOUS
<1>2. id \in [Nat -> Nat]
  OBVIOUS
<1>3. \A n \in Nat : n \in U
  <2> HIDE DEF id, U
  <2> QED BY <1>1, <1>2, MeasureInduction
<1> QED BY <1>3

Least(s) == CHOOSE x \in s : \A y \in s : x <= y

LEMMA LeastIn ==
  ASSUME NEW s \in SUBSET Nat, s # {}
  PROVE  Least(s) \in s
<1>1. \E x \in s : \A y \in s : x <= y
  BY LeastNat
<1> QED BY <1>1 DEF Least

Sets == SUBSET (0 .. Word - 1)

LEMMA SetFacts ==
  ASSUME NEW s \in Sets
  PROVE  /\ IsFiniteSet(s) /\ Cardinality(s) \in Nat
         /\ Cardinality(s) = 0 <=> s = {}
         /\ s # {} => /\ Least(s) \in s /\ s \ {Least(s)} \in Sets
                      /\ Cardinality(s \ {Least(s)}) = Cardinality(s) - 1
<1>1. IsFiniteSet(0 .. Word - 1)
  BY ByteFacts, FS_Interval
<1>2. IsFiniteSet(s)
  BY <1>1, FS_Subset DEF Sets
<1>3. Cardinality(s) \in Nat /\ (Cardinality(s) = 0 <=> s = {})
  BY <1>2, FS_CardinalityType, FS_EmptySet
<1>4. ASSUME s # {} PROVE Least(s) \in s
  BY <1>4, ByteFacts, LeastIn DEF Sets
<1>5. ASSUME s # {} PROVE s \ {Least(s)} \in Sets
  BY DEF Sets
<1>6. ASSUME s # {} PROVE Cardinality(s \ {Least(s)}) = Cardinality(s) - 1
  BY <1>2, <1>4, <1>6, FS_RemoveElement
<1> QED BY <1>2, <1>3, <1>4, <1>5, <1>6

ElemsTurn(g, s) ==
  IF s = {} THEN <<>> ELSE write_unsigned[Least(s)] \o g[s \ {Least(s)}]

LEMMA ElemsTurnTyped ==
  ASSUME NEW s \in Sets, NEW g, s # {} => g[s \ {Least(s)}] \in Seq(Bytes)
  PROVE  ElemsTurn(g, s) \in Seq(Bytes)
<1>1. CASE s = {}
  BY <1>1 DEF ElemsTurn
<1>2. CASE s # {}
  <2>1. Least(s) \in 0 .. Word - 1
    BY <1>2, SetFacts DEF Sets
  <2>2. write_unsigned[Least(s)] \in Seq(Bytes)
    BY <2>1, UnsignedTyped
  <2> QED BY <1>2, <2>2, ConcatProperties DEF ElemsTurn
<1> QED BY <1>1, <1>2

LEMMA WriteElems ==
  /\ \A s \in Sets : write_elems[s] = ElemsTurn(write_elems, s)
  /\ \A s \in Sets : write_elems[s] \in Seq(Bytes)
<1> DEFINE R == Seq(Bytes)
           F == [g \in [Sets -> R] |-> [s \in Sets |-> ElemsTurn(g, s)]]
           m == [s \in Sets |-> Cardinality(s)]
           Body(g) == [s \in Sets |-> ElemsTurn(g, s)]
<1>0. m \in [Sets -> Nat] /\ \A s \in Sets : m[s] = Cardinality(s)
  BY SetFacts
<1>1. ASSUME NEW s \in Sets, s # {}
      PROVE  s \ {Least(s)} \in Sets /\ m[s \ {Least(s)}] < m[s]
  <2> HIDE DEF m
  <2> QED BY <1>0, <1>1, SetFacts
<1>2. Recursion(F, Sets, m, R)
  <2>1. ASSUME NEW g \in [Sets -> R], NEW s \in Sets PROVE ElemsTurn(g, s) \in R
    <3>1. s # {} => g[s \ {Least(s)}] \in Seq(Bytes)
      BY <1>1
    <3> QED BY <3>1, ElemsTurnTyped
  <2>2. \A g \in [Sets -> R] : \A s \in Sets : F[g][s] = ElemsTurn(g, s)
    OBVIOUS
  <2>3. F \in [[Sets -> R] -> [Sets -> R]]
    BY <2>1
  <2>4. ASSUME NEW g \in [Sets -> R], NEW h \in [Sets -> R], NEW s \in Sets,
               \A y \in Sets : m[y] < m[s] => g[y] = h[y]
        PROVE  F[g][s] = F[h][s]
    <3>1. s # {} => g[s \ {Least(s)}] = h[s \ {Least(s)}]
      BY <1>1, <2>4
    <3>2. ElemsTurn(g, s) = ElemsTurn(h, s)
      BY <3>1 DEF ElemsTurn
    <3> QED BY <2>2, <3>2
  <2> HIDE DEF F, m, R
  <2> QED BY <1>0, <2>3, <2>4 DEF Recursion
<1>3. PICK f \in [Sets -> R] : \A s \in Sets : f[s] = F[f][s]
  <2>1. R # {}
    BY EmptySeq
  <2> HIDE DEF F, m, R
  <2> QED BY <1>2, <2>1, RecursionSolved
<1>4. f = Body(f)
  BY <1>3
<1>5. write_elems = CHOOSE g : g = Body(g)
  BY Zenon DEF write_elems, ElemsTurn, Sets, Least
<1> DEFINE w == write_elems
<1>6. w = Body(w)
  <2> HIDE DEF Body
  <2> QED BY <1>4, <1>5, Zenon
<1> HIDE DEF w
<1>7. \A s \in Sets : w[s] = ElemsTurn(w, s)
  BY <1>6
<1> DEFINE T == {s \in Sets : w[s] \in Seq(Bytes)}
<1>8. ASSUME NEW s \in Sets, \A y \in Sets : m[y] < m[s] => y \in T PROVE s \in T
  <2>1. s # {} => w[s \ {Least(s)}] \in Seq(Bytes)
    BY <1>1, <1>8
  <2> QED BY <1>7, <2>1, ElemsTurnTyped
<1>9. \A s \in Sets : s \in T
  <2> HIDE DEF T, m
  <2> QED BY <1>0, <1>8, MeasureInduction
<1>10. \A s \in Sets : w[s] \in Seq(Bytes)
  BY <1>9
<1> QED BY <1>7, <1>10 DEF w

-----------------------------------------------------------------------------
(***************************************************************************)
(* Reading a varint.                                                       *)
(***************************************************************************)
\* The buffer d holds the bytes b from the cursor p on.
At(d, p, b) ==
  /\ p \in Nat
  /\ p + Len(b) <= Len(d)
  /\ \A i \in 1 .. Len(b) : d[p + i] = b[i]

LEMMA AtConcat ==
  ASSUME NEW d \in Seq(Bytes), NEW p, NEW a \in Seq(Bytes), NEW b \in Seq(Bytes),
         At(d, p, a \o b)
  PROVE  At(d, p, a) /\ At(d, p + Len(a), b) /\ p \in Nat
<1>1. /\ Len(a) \in Nat /\ Len(b) \in Nat /\ Len(d) \in Nat
      /\ Len(a \o b) = Len(a) + Len(b)
      /\ \A i \in 1 .. Len(a) + Len(b) :
           (a \o b)[i] = IF i <= Len(a) THEN a[i] ELSE b[i - Len(a)]
  BY ConcatProperties, LenProperties
<1>2. /\ p \in Nat /\ p + (Len(a) + Len(b)) <= Len(d)
      /\ \A i \in 1 .. Len(a) + Len(b) : d[p + i] = (a \o b)[i]
  BY <1>1 DEF At
<1>3. At(d, p, a)
  <2>1. ASSUME NEW i \in 1 .. Len(a) PROVE d[p + i] = a[i]
    <3>1. i \in 1 .. Len(a) + Len(b) /\ i <= Len(a)
      BY <1>1
    <3> QED BY <1>1, <1>2, <3>1
  <2> QED BY <1>1, <1>2, <2>1 DEF At
<1>4. At(d, p + Len(a), b)
  <2>1. ASSUME NEW i \in 1 .. Len(b) PROVE d[(p + Len(a)) + i] = b[i]
    <3>1. Len(a) + i \in 1 .. Len(a) + Len(b) /\ ~(Len(a) + i <= Len(a))
      BY <1>1
    <3>2. (p + Len(a)) + i = p + (Len(a) + i) /\ (Len(a) + i) - Len(a) = i
      BY <1>1, <1>2
    <3> QED BY <1>1, <1>2, <3>1, <3>2
  <2> QED BY <1>1, <1>2, <2>1 DEF At
<1> QED BY <1>2, <1>3, <1>4

\* The next locals of the loop of read_unsigned.
Turned(d, l) ==
  [q |-> l.q + 1, v |-> l.v + (((d[l.q + 1] % Group) * l.weight) % Word),
   weight |-> l.weight * Group]

LoopTurn(d, g, l) ==
  IF l.q >= Len(d) THEN Fail
  ELSE IF d[l.q + 1] >= Group THEN g[Turned(d, l)]
  ELSE Got(l.q + 1, Turned(d, l).v)

UnsignedLoop(d) == CHOOSE g : g = [l \in Locals |-> LoopTurn(d, g, l)]

Answers == {Fail} \cup [ok : {TRUE}, pos : Nat, val : Nat]

LEMMA TurnedTyped ==
  ASSUME NEW d \in Seq(Bytes), NEW l \in Locals, l.q < Len(d)
  PROVE  Turned(d, l) \in Locals /\ d[l.q + 1] \in Bytes
<1>1. l.q \in Nat /\ l.v \in Nat /\ l.weight \in Nat
  BY DEF Locals
<1>2. Len(d) \in Nat
  BY LenProperties
<1>3. d[l.q + 1] \in Bytes
  <2>1. l.q + 1 \in 1 .. Len(d)
    BY <1>1, <1>2
  <2> QED BY <2>1, ElementOfSeq
<1>4. d[l.q + 1] \in Nat
  BY <1>3, ByteFacts DEF Bytes
<1>5. d[l.q + 1] % Group \in Nat
  BY <1>4, ByteFacts, DivMod
<1>6. (d[l.q + 1] % Group) * l.weight \in Nat /\ l.weight * Group \in Nat
  BY <1>1, <1>5, ByteFacts
<1>7. ((d[l.q + 1] % Group) * l.weight) % Word \in Nat
  BY <1>6, ByteFacts, DivMod
<1> QED BY <1>1, <1>3, <1>6, <1>7 DEF Turned, Locals

LEMMA LoopTurnTyped ==
  ASSUME NEW d \in Seq(Bytes), NEW l \in Locals, NEW g,
         l.q < Len(d) => g[Turned(d, l)] \in Answers
  PROVE  LoopTurn(d, g, l) \in Answers
<1>1. l.q \in Nat /\ Len(d) \in Nat
  BY LenProperties DEF Locals
<1>2. CASE l.q >= Len(d)
  BY <1>2 DEF LoopTurn, Answers
<1>3. CASE l.q < Len(d)
  <2>1. Turned(d, l).v \in Nat
    BY <1>3, TurnedTyped DEF Locals
  <2>2. Got(l.q + 1, Turned(d, l).v) \in Answers
    BY <1>1, <2>1 DEF Answers, Got
  <2> QED BY <1>1, <1>3, <2>2 DEF LoopTurn
<1> QED BY <1>1, <1>2, <1>3

LEMMA UnsignedLoopIs ==
  ASSUME NEW d \in Seq(Bytes)
  PROVE  \A l \in Locals : /\ UnsignedLoop(d)[l] = LoopTurn(d, UnsignedLoop(d), l)
                           /\ UnsignedLoop(d)[l] \in Answers
<1> DEFINE R == Answers
           F == [g \in [Locals -> R] |-> [l \in Locals |-> LoopTurn(d, g, l)]]
           m == [l \in Locals |-> IF l.q < Len(d) THEN Len(d) - l.q ELSE 0]
           Body(g) == [l \in Locals |-> LoopTurn(d, g, l)]
<1>a. Len(d) \in Nat /\ \A l \in Locals : l.q \in Nat
  BY LenProperties DEF Locals
<1>0. m \in [Locals -> Nat]
  BY <1>a
<1>1. ASSUME NEW l \in Locals, l.q < Len(d)
      PROVE  Turned(d, l) \in Locals /\ m[Turned(d, l)] < m[l]
  <2>1. Turned(d, l) \in Locals
    BY <1>1, TurnedTyped
  <2>2. Turned(d, l).q = l.q + 1
    BY DEF Turned
  <2>3. /\ m[l] = Len(d) - l.q
        /\ m[Turned(d, l)] = IF l.q + 1 < Len(d) THEN Len(d) - (l.q + 1) ELSE 0
    BY <1>1, <2>1, <2>2
  <2> HIDE DEF m
  <2> QED BY <1>a, <1>1, <2>1, <2>3
<1>2. Recursion(F, Locals, m, R)
  <2>1. ASSUME NEW g \in [Locals -> R], NEW l \in Locals PROVE LoopTurn(d, g, l) \in R
    <3>1. l.q < Len(d) => g[Turned(d, l)] \in Answers
      BY <1>1
    <3> QED BY <3>1, LoopTurnTyped
  <2>2. \A g \in [Locals -> R] : \A l \in Locals : F[g][l] = LoopTurn(d, g, l)
    OBVIOUS
  <2>3. F \in [[Locals -> R] -> [Locals -> R]]
    BY <2>1
  <2>4. ASSUME NEW g \in [Locals -> R], NEW h \in [Locals -> R], NEW l \in Locals,
               \A y \in Locals : m[y] < m[l] => g[y] = h[y]
        PROVE  F[g][l] = F[h][l]
    <3>1. l.q < Len(d) => g[Turned(d, l)] = h[Turned(d, l)]
      BY <1>1, <2>4
    <3>2. LoopTurn(d, g, l) = LoopTurn(d, h, l)
      BY <1>a, <3>1 DEF LoopTurn
    <3> QED BY <2>2, <3>2
  <2> HIDE DEF F, m, R
  <2> QED BY <1>0, <2>3, <2>4 DEF Recursion
<1>3. PICK f \in [Locals -> R] : \A l \in Locals : f[l] = F[f][l]
  <2>1. R # {}
    BY DEF Answers
  <2> HIDE DEF F, m, R
  <2> QED BY <1>2, <2>1, RecursionSolved
<1>4. f = Body(f)
  BY <1>3
<1> DEFINE w == UnsignedLoop(d)
<1>5. w = CHOOSE g : g = Body(g)
  BY DEF UnsignedLoop
<1>6. w = Body(w)
  <2> HIDE DEF Body, w
  <2> QED BY <1>4, <1>5, Zenon
<1> HIDE DEF w
<1>7. \A l \in Locals : w[l] = LoopTurn(d, w, l)
  BY <1>6
<1> DEFINE T == {l \in Locals : w[l] \in Answers}
<1>8. ASSUME NEW l \in Locals, \A y \in Locals : m[y] < m[l] => y \in T PROVE l \in T
  <2>1. l.q < Len(d) => w[Turned(d, l)] \in Answers
    BY <1>1, <1>8
  <2> QED BY <1>7, <2>1, LoopTurnTyped
<1>9. \A l \in Locals : l \in T
  <2> HIDE DEF T, m
  <2> QED BY <1>0, <1>8, MeasureInduction
<1> QED BY <1>7, <1>9 DEF w

Start(p) == [q |-> p, v |-> 0, weight |-> 1]

LEMMA ReadUnsignedIs ==
  ASSUME NEW d, NEW p
  PROVE  read_unsigned(d, p) = UnsignedLoop(d)[Start(p)]
BY Zenon DEF read_unsigned, UnsignedLoop, LoopTurn, Turned, Start

LEMMA ReadUnsignedTyped ==
  ASSUME NEW d \in Seq(Bytes), NEW p \in Nat
  PROVE  read_unsigned(d, p) \in Answers
<1>1. Start(p) \in Locals
  BY DEF Start, Locals
<1> QED BY <1>1, ReadUnsignedIs, UnsignedLoopIs

LEMMA SmallMod ==
  ASSUME NEW r \in Nat, NEW b \in Nat, r < b
  PROVE  r % b = r /\ (r + b) % b = r
<1>1. r % b = r
  BY DivMod
<1>2. (r + b) % b = r
  <2> DEFINE q == (r + b) \div b
             s == (r + b) % b
  <2>1. q \in Nat /\ s \in 0 .. b - 1 /\ r + b = b * q + s
    BY DivMod
  <2> HIDE DEF q, s
  <2>2. q > 0
    <3> SUFFICES ASSUME q = 0 PROVE FALSE
      BY <2>1
    <3> QED BY <2>1
  <2>3. q < 2
    <3> SUFFICES ASSUME q >= 2 PROVE FALSE
      BY <2>1
    <3>1. b * q >= b * 2
      BY <2>1
    <3> QED BY <2>1, <3>1
  <2>4. q = 1
    BY <2>1, <2>2, <2>3
  <2>5. s = r
    BY <2>1, <2>4
  <2> QED BY <2>5 DEF s
<1> QED BY <1>1, <1>2

\* The loop, started anywhere with room for x above what it has read, adds x
\* to it and stops behind the bytes of x.
Adds(d, x, l) ==
  x * l.weight < Word /\ At(d, l.q, write_unsigned[x])
    => UnsignedLoop(d)[l] = Got(l.q + Len(write_unsigned[x]), l.v + (x * l.weight))

LEMMA LoopLast ==
  ASSUME NEW d \in Seq(Bytes), NEW x \in 0 .. Word - 1, x < Group, NEW l \in Locals
  PROVE  Adds(d, x, l)
<1> SUFFICES ASSUME x * l.weight < Word, At(d, l.q, write_unsigned[x])
             PROVE  UnsignedLoop(d)[l] = Got(l.q + Len(write_unsigned[x]), l.v + (x * l.weight))
  BY DEF Adds
<1>1. l.q \in Nat /\ l.v \in Nat /\ l.weight \in Nat /\ Len(d) \in Nat /\ x \in Nat
  BY ByteFacts, LenProperties DEF Locals
<1>2. write_unsigned[x] = <<x>>
  BY WriteUnsigned DEF WriteTurn
<1>3. l.q < Len(d) /\ d[l.q + 1] = x
  BY <1>1, <1>2 DEF At
<1>4. x % Group = x
  BY <1>1, ByteFacts, SmallMod
<1>5. x * l.weight \in Nat
  BY <1>1
<1>6. (x * l.weight) % Word = x * l.weight
  BY <1>5, ByteFacts, SmallMod
<1>7. Turned(d, l).v = l.v + (x * l.weight)
  BY <1>3, <1>4, <1>6 DEF Turned
<1>8. UnsignedLoop(d)[l] = LoopTurn(d, UnsignedLoop(d), l)
  BY UnsignedLoopIs
<1>9. LoopTurn(d, UnsignedLoop(d), l) = Got(l.q + 1, Turned(d, l).v)
  <2>1. ~(l.q >= Len(d)) /\ ~(d[l.q + 1] >= Group)
    BY <1>1, <1>3, ByteFacts
  <2> QED BY <2>1 DEF LoopTurn
<1>10. Len(write_unsigned[x]) = 1
  BY <1>2
<1> QED BY <1>7, <1>8, <1>9, <1>10

LEMMA ProductSplit ==
  ASSUME NEW b \in Nat, NEW y \in Nat, NEW r \in Nat, NEW w \in Nat
  PROVE  /\ (b * y + r) * w = (y * (w * b)) + (r * w)
         /\ r * w \in Nat /\ y * (w * b) \in Nat
  OBVIOUS

LEMMA LoopMore ==
  ASSUME NEW d \in Seq(Bytes), NEW x \in 0 .. Word - 1, x >= Group, NEW l \in Locals,
         \A k \in Locals : Adds(d, x \div Group, k)
  PROVE  Adds(d, x, l)
<1>0. SUFFICES ASSUME x * l.weight < Word, At(d, l.q, write_unsigned[x])
               PROVE  UnsignedLoop(d)[l] = Got(l.q + Len(write_unsigned[x]), l.v + (x * l.weight))
  BY DEF Adds
<1> DEFINE y == x \div Group
           r == x % Group
           k == Turned(d, l)
<1>1. l.q \in Nat /\ l.v \in Nat /\ l.weight \in Nat /\ Len(d) \in Nat /\ x \in Nat
  BY ByteFacts, LenProperties DEF Locals
<1>2. y \in 0 .. Word - 1 /\ y \in Nat /\ r \in Nat /\ r < Group /\ x = Group * y + r
  BY <1>1, ByteFacts, DivMod, DivLess
<1>3. write_unsigned[x] = <<r + Group>> \o write_unsigned[y]
  <2>1. write_unsigned[x] = WriteTurn(write_unsigned, x) /\ ~(x < Group)
    BY <1>1, ByteFacts, WriteUnsigned
  <2> QED BY <2>1 DEF WriteTurn
<1> HIDE DEF y, r
<1>4. write_unsigned[y] \in Seq(Bytes) /\ Len(write_unsigned[y]) \in Nat
  BY <1>2, UnsignedTyped
<1>5. r + Group \in Bytes /\ <<r + Group>> \in Seq(Bytes) /\ Len(<<r + Group>>) = 1
  BY <1>2, ByteFacts DEF Bytes
<1>6. At(d, l.q, <<r + Group>>) /\ At(d, l.q + 1, write_unsigned[y])
  BY <1>0, <1>3, <1>4, <1>5, AtConcat
<1>7. Len(write_unsigned[x]) = 1 + Len(write_unsigned[y])
  BY <1>3, <1>4, <1>5, ConcatProperties
<1>8. l.q < Len(d) /\ d[l.q + 1] = r + Group
  BY <1>1, <1>5, <1>6 DEF At
<1>9. (r + Group) % Group = r
  BY <1>2, ByteFacts, SmallMod
<1>10. (x * l.weight) = (y * (l.weight * Group)) + (r * l.weight)
  <2>1. (Group * y + r) * l.weight = (y * (l.weight * Group)) + (r * l.weight)
    <3> DEFINE w == l.weight
    <3>1. Group \in Nat /\ y \in Nat /\ r \in Nat /\ w \in Nat
      BY <1>1, <1>2, ByteFacts
    <3> HIDE DEF w
    <3>2. (Group * y + r) * w = (y * (w * Group)) + (r * w)
      BY <3>1, ProductSplit
    <3> QED BY <3>2 DEF w
  <2> QED BY <1>2, <2>1, Zenon
<1>11. r * l.weight \in Nat /\ y * (l.weight * Group) \in Nat
  BY <1>1, <1>2, ByteFacts, ProductSplit
<1>12. r * l.weight < Word /\ y * (l.weight * Group) < Word
  <2> DEFINE a == r * l.weight
             b == y * (l.weight * Group)
             c == x * l.weight
  <2>1. a \in Nat /\ b \in Nat /\ c = b + a /\ c < Word
    BY <1>0, <1>10, <1>11
  <2> HIDE DEF a, b, c
  <2>2. a < Word /\ b < Word
    BY <2>1, ByteFacts
  <2> QED BY <2>2 DEF a, b
<1>13. (r * l.weight) % Word = r * l.weight
  BY <1>11, <1>12, ByteFacts, SmallMod
<1>14. k \in Locals /\ k.q = l.q + 1 /\ k.v = l.v + (r * l.weight) /\ k.weight = l.weight * Group
  BY <1>8, <1>9, <1>13, TurnedTyped DEF Turned
<1>15. UnsignedLoop(d)[l] = UnsignedLoop(d)[k]
  <2>1. ~(l.q >= Len(d)) /\ d[l.q + 1] >= Group
    BY <1>1, <1>2, <1>8, ByteFacts
  <2>2. UnsignedLoop(d)[l] = LoopTurn(d, UnsignedLoop(d), l)
    BY UnsignedLoopIs
  <2> QED BY <2>1, <2>2 DEF LoopTurn
<1> HIDE DEF k
<1>16. UnsignedLoop(d)[k] = Got((l.q + 1) + Len(write_unsigned[y]),
                                (l.v + (r * l.weight)) + (y * (l.weight * Group)))
  <2>1. Adds(d, y, k)
    BY <1>14 DEF y
  <2> QED BY <1>6, <1>12, <1>14, <2>1 DEF Adds
<1>17. (l.q + 1) + Len(write_unsigned[y]) = l.q + Len(write_unsigned[x])
  <2> DEFINE a == l.q
             b == Len(write_unsigned[y])
             c == Len(write_unsigned[x])
  <2>1. a \in Nat /\ b \in Nat /\ c = 1 + b
    BY <1>1, <1>4, <1>7
  <2> HIDE DEF a, b, c
  <2>2. (a + 1) + b = a + c
    BY <2>1
  <2> QED BY <2>2 DEF a, b, c
<1>18. (l.v + (r * l.weight)) + (y * (l.weight * Group)) = l.v + (x * l.weight)
  BY <1>1, <1>10, <1>11
<1> QED BY <1>15, <1>16, <1>17, <1>18

LEMMA LoopAdds ==
  ASSUME NEW d \in Seq(Bytes)
  PROVE  \A x \in 0 .. Word - 1 : \A l \in Locals : Adds(d, x, l)
<1> DEFINE D == 0 .. Word - 1
           m == [x \in D |-> x]
           T == {x \in D : \A l \in Locals : Adds(d, x, l)}
<1>0. m \in [D -> Nat] /\ \A x \in D : m[x] = x
  BY ByteFacts
<1>1. ASSUME NEW x \in D, \A y \in D : m[y] < m[x] => y \in T PROVE x \in T
  <2>1. CASE x < Group
    BY <2>1, LoopLast
  <2>2. CASE ~(x < Group)
    <3>1. x \div Group \in D /\ x \div Group < x /\ x >= Group
      BY <2>2, ByteFacts, DivLess
    <3>2. x \div Group \in T
      <4> HIDE DEF T, m
      <4> QED BY <1>0, <1>1, <3>1
    <3> QED BY <3>1, <3>2, LoopMore
  <2> QED BY <2>1, <2>2
<1> HIDE DEF T, m, D
<1>2. \A x \in D : x \in T
  BY <1>0, <1>1, MeasureInduction
<1> QED BY <1>2 DEF T, D

\* What unsigned_int writes, it reads back.
LEMMA UnsignedBack ==
  ASSUME NEW d \in Seq(Bytes), NEW p, NEW x \in 0 .. Word - 1, At(d, p, write_unsigned[x])
  PROVE  read_unsigned(d, p) = Got(p + Len(write_unsigned[x]), x)
<1>1. p \in Nat /\ x \in Nat /\ x < Word
  BY ByteFacts DEF At
<1>2. Start(p) \in Locals /\ Start(p).weight = 1 /\ Start(p).q = p /\ Start(p).v = 0
  BY <1>1 DEF Start, Locals
<1>3. x * 1 = x /\ 0 + x = x
  BY <1>1
<1>4. Adds(d, x, Start(p))
  BY <1>2, LoopAdds
<1> QED BY <1>1, <1>2, <1>3, <1>4, ReadUnsignedIs DEF Adds

-----------------------------------------------------------------------------
(***************************************************************************)
(* Reading sets: the loop of read_set.                                     *)
(***************************************************************************)
SetLocals == [n : Nat, q : Nat, s : SUBSET Nat]

SetTurned(l, v) == [n |-> l.n - 1, q |-> v.pos, s |-> l.s \cup {v.val}]

SetTurn(d, g, l) ==
  IF l.n = 0 THEN Got(l.q, l.s)
  ELSE IF read_unsigned(d, l.q).ok THEN g[SetTurned(l, read_unsigned(d, l.q))] ELSE Fail

SetLoop(d) == CHOOSE g : g = [l \in SetLocals |-> SetTurn(d, g, l)]

SetAnswers == {Fail} \cup [ok : {TRUE}, pos : Nat, val : SUBSET Nat]

LEMMA SetTurnedTyped ==
  ASSUME NEW d \in Seq(Bytes), NEW l \in SetLocals, l.n # 0, read_unsigned(d, l.q).ok
  PROVE  /\ SetTurned(l, read_unsigned(d, l.q)) \in SetLocals
         /\ SetTurned(l, read_unsigned(d, l.q)).n = l.n - 1
<1>1. l.n \in Nat /\ l.q \in Nat /\ l.s \in SUBSET Nat
  BY DEF SetLocals
<1> DEFINE v == read_unsigned(d, l.q)
<1>2. v \in Answers
  BY <1>1, ReadUnsignedTyped
<1>3. v.ok
  OBVIOUS
<1> HIDE DEF v
<1>4. v # Fail
  <2>1. ~Fail.ok
    BY DEF Fail
  <2> QED BY <1>3, <2>1
<1>5. v.pos \in Nat /\ v.val \in Nat
  BY <1>2, <1>4 DEF Answers
<1>6. l.n - 1 \in Nat
  BY <1>1
<1>7. SetTurned(l, v) \in SetLocals /\ SetTurned(l, v).n = l.n - 1
  BY <1>1, <1>5, <1>6 DEF SetTurned, SetLocals
<1> QED BY <1>7 DEF v

LEMMA SetTurnTyped ==
  ASSUME NEW d \in Seq(Bytes), NEW l \in SetLocals, NEW g,
         l.n # 0 /\ read_unsigned(d, l.q).ok
           => g[SetTurned(l, read_unsigned(d, l.q))] \in SetAnswers
  PROVE  SetTurn(d, g, l) \in SetAnswers
<1>1. CASE l.n = 0
  <2>1. Got(l.q, l.s) \in SetAnswers
    BY DEF Got, SetLocals, SetAnswers
  <2> QED BY <1>1, <2>1 DEF SetTurn
<1>2. CASE l.n # 0 /\ read_unsigned(d, l.q).ok
  BY <1>2 DEF SetTurn
<1>3. CASE l.n # 0 /\ ~read_unsigned(d, l.q).ok
  <2>1. SetTurn(d, g, l) = Fail
    BY <1>3 DEF SetTurn
  <2> QED BY <2>1 DEF SetAnswers
<1> QED BY <1>1, <1>2, <1>3

LEMMA SetLoopIs ==
  ASSUME NEW d \in Seq(Bytes)
  PROVE  \A l \in SetLocals : SetLoop(d)[l] = SetTurn(d, SetLoop(d), l)
<1> DEFINE R == SetAnswers
           F == [g \in [SetLocals -> R] |-> [l \in SetLocals |-> SetTurn(d, g, l)]]
           m == [l \in SetLocals |-> l.n]
           Body(g) == [l \in SetLocals |-> SetTurn(d, g, l)]
           Down(l) == SetTurned(l, read_unsigned(d, l.q))
<1>0. m \in [SetLocals -> Nat] /\ \A l \in SetLocals : m[l] = l.n /\ l.n \in Nat
  BY DEF SetLocals
<1>1. ASSUME NEW l \in SetLocals, l.n # 0, read_unsigned(d, l.q).ok
      PROVE  Down(l) \in SetLocals /\ m[Down(l)] < m[l]
  <2>1. Down(l) \in SetLocals /\ Down(l).n = l.n - 1
    BY <1>1, SetTurnedTyped
  <2>2. m[Down(l)] = l.n - 1 /\ m[l] = l.n /\ l.n \in Nat
    <3> HIDE DEF Down, m
    <3> QED BY <1>0, <2>1
  <2> HIDE DEF Down, m
  <2> QED BY <2>1, <2>2
<1>2. Recursion(F, SetLocals, m, R)
  <2>1. ASSUME NEW g \in [SetLocals -> R], NEW l \in SetLocals PROVE SetTurn(d, g, l) \in R
    <3>1. l.n # 0 /\ read_unsigned(d, l.q).ok => g[Down(l)] \in SetAnswers
      BY <1>1
    <3> QED BY <3>1, SetTurnTyped
  <2>2. \A g \in [SetLocals -> R] : \A l \in SetLocals : F[g][l] = SetTurn(d, g, l)
    OBVIOUS
  <2>3. F \in [[SetLocals -> R] -> [SetLocals -> R]]
    BY <2>1
  <2>4. ASSUME NEW g \in [SetLocals -> R], NEW h \in [SetLocals -> R], NEW l \in SetLocals,
               \A y \in SetLocals : m[y] < m[l] => g[y] = h[y]
        PROVE  F[g][l] = F[h][l]
    <3>1. l.n # 0 /\ read_unsigned(d, l.q).ok => g[Down(l)] = h[Down(l)]
      BY <1>1, <2>4
    <3>2. SetTurn(d, g, l) = SetTurn(d, h, l)
      BY <3>1 DEF SetTurn
    <3> QED BY <2>2, <3>2
  <2> HIDE DEF F, m, R
  <2> QED BY <1>0, <2>3, <2>4 DEF Recursion
<1>3. PICK f \in [SetLocals -> R] : \A l \in SetLocals : f[l] = F[f][l]
  <2>1. R # {}
    BY DEF SetAnswers
  <2> HIDE DEF F, m, R
  <2> QED BY <1>2, <2>1, RecursionSolved
<1>4. f = Body(f)
  BY <1>3
<1> DEFINE w == SetLoop(d)
<1>5. w = CHOOSE g : g = Body(g)
  BY DEF SetLoop
<1>6. w = Body(w)
  <2> HIDE DEF Body, w
  <2> QED BY <1>4, <1>5, Zenon
<1> HIDE DEF w
<1>7. \A l \in SetLocals : w[l] = SetTurn(d, w, l)
  BY <1>6
<1> QED BY <1>7 DEF w

LEMMA ReadSetIs ==
  ASSUME NEW d, NEW p
  PROVE  read_set(d, p) = IF read_unsigned(d, p).ok
                          THEN SetLoop(d)[[n |-> read_unsigned(d, p).val,
                                           q |-> read_unsigned(d, p).pos, s |-> {}]]
                          ELSE Fail
BY Zenon DEF read_set, SetLoop, SetTurn, SetTurned, SetLocals

\* The loop, started with as many turns as e has elements, adds these.
Collects(d, e, l) ==
  l.n = Cardinality(e) /\ At(d, l.q, write_elems[e])
    => SetLoop(d)[l] = Got(l.q + Len(write_elems[e]), l.s \cup e)

LEMMA CollectsMore ==
  ASSUME NEW d \in Seq(Bytes), NEW e \in Sets, NEW l \in SetLocals, e # {},
         \A k \in SetLocals : Collects(d, e \ {Least(e)}, k)
  PROVE  Collects(d, e, l)
<1>0. SUFFICES ASSUME l.n = Cardinality(e), At(d, l.q, write_elems[e])
               PROVE  SetLoop(d)[l] = Got(l.q + Len(write_elems[e]), l.s \cup e)
  BY DEF Collects
<1> DEFINE x == Least(e)
           o == e \ {x}
           wx == write_unsigned[x]
           wo == write_elems[o]
           v == read_unsigned(d, l.q)
           k == SetTurned(l, v)
<1>1. l.n \in Nat /\ l.q \in Nat /\ l.s \in SUBSET Nat
  BY DEF SetLocals
<1>2. /\ x \in e /\ x \in 0 .. Word - 1 /\ x \in Nat /\ o \in Sets
      /\ Cardinality(e) \in Nat /\ Cardinality(e) # 0 /\ Cardinality(o) = Cardinality(e) - 1
  <2>1. /\ x \in e /\ o \in Sets /\ Cardinality(e) \in Nat /\ Cardinality(e) # 0
        /\ Cardinality(o) = Cardinality(e) - 1
    BY SetFacts
  <2>2. x \in 0 .. Word - 1 /\ x \in Nat
    <3> HIDE DEF x
    <3> QED BY <2>1, ByteFacts DEF Sets
  <2> QED BY <2>1, <2>2
<1>3. write_elems[e] = wx \o wo
  <2>1. write_elems[e] = ElemsTurn(write_elems, e)
    BY WriteElems
  <2> QED BY <2>1 DEF ElemsTurn
<1>4. wx \in Seq(Bytes) /\ wo \in Seq(Bytes) /\ Len(wx) \in Nat /\ Len(wo) \in Nat
  BY <1>2, UnsignedTyped, WriteElems, LenProperties
<1> HIDE DEF wo
<1>5. At(d, l.q, wx) /\ At(d, l.q + Len(wx), wo)
  <2> HIDE DEF wx
  <2> QED BY <1>0, <1>3, <1>4, AtConcat
<1>6. v = Got(l.q + Len(wx), x)
  BY <1>2, <1>5, UnsignedBack
<1> HIDE DEF x, o, wx, v, k
<1>7. v.ok /\ v.pos = l.q + Len(wx) /\ v.val = x
  BY <1>6 DEF Got
<1>8. /\ k \in SetLocals /\ k.n = Cardinality(o) /\ k.q = l.q + Len(wx)
      /\ k.s = l.s \cup {x}
  BY <1>0, <1>1, <1>2, <1>4, <1>7 DEF k, SetTurned, SetLocals
<1>9. SetLoop(d)[l] = SetLoop(d)[k]
  <2>1. SetLoop(d)[l] = SetTurn(d, SetLoop(d), l)
    BY SetLoopIs
  <2>2. l.n # 0
    BY <1>0, <1>2
  <2> QED BY <1>7, <2>1, <2>2 DEF SetTurn, k, v
<1>10. SetLoop(d)[k] = Got((l.q + Len(wx)) + Len(wo), (l.s \cup {x}) \cup o)
  <2>1. Collects(d, o, k)
    BY <1>8 DEF o, x
  <2> QED BY <1>5, <1>8, <2>1 DEF Collects, wo
<1>11. (l.s \cup {x}) \cup o = l.s \cup e
  BY <1>2 DEF o
<1>12. (l.q + Len(wx)) + Len(wo) = l.q + Len(write_elems[e])
  <2>1. Len(write_elems[e]) = Len(wx) + Len(wo)
    BY <1>3, <1>4, ConcatProperties
  <2> QED BY <1>1, <1>4, <2>1
<1> QED BY <1>9, <1>10, <1>11, <1>12

LEMMA LoopCollects ==
  ASSUME NEW d \in Seq(Bytes)
  PROVE  \A e \in Sets : \A l \in SetLocals : Collects(d, e, l)
<1> DEFINE m == [e \in Sets |-> Cardinality(e)]
           T == {e \in Sets : \A l \in SetLocals : Collects(d, e, l)}
<1>0. m \in [Sets -> Nat] /\ \A e \in Sets : m[e] = Cardinality(e)
  BY SetFacts
<1>1. ASSUME NEW e \in Sets, \A y \in Sets : m[y] < m[e] => y \in T PROVE e \in T
  <2>1. CASE e = {}
    <3>1. ASSUME NEW l \in SetLocals, l.n = Cardinality(e), At(d, l.q, write_elems[e])
          PROVE  SetLoop(d)[l] = Got(l.q + Len(write_elems[e]), l.s \cup e)
      <4>1. l.n = 0 /\ l.q \in Nat
        BY <2>1, <3>1, SetFacts DEF SetLocals
      <4>2. write_elems[e] = <<>>
        BY <2>1, WriteElems DEF ElemsTurn
      <4>3. SetLoop(d)[l] = Got(l.q, l.s)
        BY <4>1, SetLoopIs DEF SetTurn
      <4>4. l.q + Len(write_elems[e]) = l.q
        BY <4>1, <4>2
      <4>5. l.s \cup e = l.s
        BY <2>1
      <4> QED BY <4>3, <4>4, <4>5
    <3> QED BY <3>1 DEF Collects
  <2>2. CASE e # {}
    <3>1. e \ {Least(e)} \in Sets /\ m[e \ {Least(e)}] < m[e]
      <4> DEFINE o == e \ {Least(e)}
      <4>1. o \in Sets /\ Cardinality(e) \in Nat /\ Cardinality(o) = Cardinality(e) - 1
        BY <2>2, SetFacts
      <4> HIDE DEF m, o
      <4>2. o \in Sets /\ m[o] < m[e]
        BY <1>0, <4>1
      <4> QED BY <4>2 DEF o
    <3>2. e \ {Least(e)} \in T
      <4> HIDE DEF T, m
      <4> QED BY <1>1, <3>1
    <3> QED BY <2>2, <3>2, CollectsMore
  <2> QED BY <2>1, <2>2
<1> HIDE DEF T, m
<1>2. \A e \in Sets : e \in T
  BY <1>0, <1>1, MeasureInduction
<1> QED BY <1>2 DEF T

-----------------------------------------------------------------------------
(***************************************************************************)
(* Every type reads back what it writes.                                   *)
(***************************************************************************)
LEMMA BytesBack ==
  ASSUME NEW d \in Seq(Bytes), NEW p, NEW b \in Seq(Bytes), At(d, p, b)
  PROVE  read(d, p, Len(b)) = Got(p + Len(b), b)
<1>1. /\ p \in Nat /\ Len(b) \in Nat /\ Len(d) \in Nat
      /\ DOMAIN d = 1 .. Len(d) /\ b \in [1 .. Len(b) -> Bytes]
  BY LenProperties DEF At
<1>2. p + Len(b) <= Len(d) /\ \A i \in 1 .. Len(b) : d[p + i] = b[i]
  BY DEF At
<1>3. \A i \in 1 .. Len(b) : p + i \in DOMAIN d
  BY <1>1, <1>2
<1>4. Copied(d, p, Len(b)) = [i \in 1 .. Len(b) |-> b[i]]
  BY <1>2, <1>3 DEF Copied
<1>5. Copied(d, p, Len(b)) = b
  BY <1>1, <1>4
<1>6. Len(d) - p >= Len(b)
  BY <1>1, <1>2
<1> QED BY <1>5, <1>6 DEF read

LEMMA ReadPastEnd ==
  ASSUME NEW d \in Seq(Bytes), NEW n \in Nat \ {0}
  PROVE  read(d, Len(d), n) = Fail
<1>1. Len(d) \in Nat /\ ~(Len(d) - Len(d) >= n)
  BY LenProperties
<1> QED BY <1>1 DEF read

LEMMA UnsignedPastEnd ==
  ASSUME NEW d \in Seq(Bytes)
  PROVE  read_unsigned(d, Len(d)) = Fail
<1>1. Len(d) \in Nat
  BY LenProperties
<1>2. Start(Len(d)) \in Locals /\ Start(Len(d)).q = Len(d)
  BY <1>1 DEF Start, Locals
<1>3. LoopTurn(d, UnsignedLoop(d), Start(Len(d))) = Fail
  BY <1>1, <1>2 DEF LoopTurn
<1> QED BY <1>2, <1>3, ReadUnsignedIs, UnsignedLoopIs

LEMMA FailedNotOk == Fail.ok = FALSE /\ ~Fail.ok
BY DEF Fail

LEMMA IntTyped ==
  ASSUME NEW v \in Ints
  PROVE  /\ v % Byte \in Bytes /\ v \div Byte \in Bytes
         /\ (v % Byte) + Byte * (v \div Byte) = v
         /\ write_int(v) \in Seq(Bytes) /\ Len(write_int(v)) = 2
         /\ write_int(v)[1] = v % Byte /\ write_int(v)[2] = v \div Byte
<1>0. Byte \in Nat /\ Byte > 0 /\ v \in Nat /\ v < Byte * Byte
  BY ByteFacts DEF Ints
<1> DEFINE q == v \div Byte
           r == v % Byte
<1>1. q \in Nat /\ r \in 0 .. Byte - 1 /\ v = Byte * q + r
  BY <1>0, DivMod
<1>2. write_int(v) = <<r, q>>
  BY DEF write_int
<1> HIDE DEF q, r
<1>3. q < Byte
  <2> SUFFICES ASSUME q >= Byte PROVE FALSE
    BY <1>0, <1>1
  <2>1. Byte * q >= Byte * Byte
    BY <1>0, <1>1
  <2> QED BY <1>0, <1>1, <2>1
<1>4. q \in Bytes /\ r \in Bytes
  BY <1>0, <1>1, <1>3 DEF Bytes
<1>5. <<r, q>> \in Seq(Bytes) /\ Len(<<r, q>>) = 2 /\ <<r, q>>[1] = r /\ <<r, q>>[2] = q
  BY <1>4
<1>6. r + Byte * q = v
  <2> DEFINE a == Byte * q
  <2>1. a \in Nat /\ v = a + r
    BY <1>0, <1>1
  <2> HIDE DEF a
  <2>2. r + a = v
    BY <1>1, <2>1
  <2> QED BY <2>2 DEF a
<1> QED BY <1>2, <1>4, <1>5, <1>6 DEF q, r

LEMMA IntBack ==
  ASSUME NEW v \in Ints, NEW d \in Seq(Bytes), NEW p, At(d, p, write_int(v))
  PROVE  read_int(d, p) = Got(p + 2, v)
<1> DEFINE b == write_int(v)
<1>1. /\ b \in Seq(Bytes) /\ Len(b) = 2 /\ b[1] + Byte * b[2] = v
  BY IntTyped
<1>2. read(d, p, 2) = Got(p + 2, b)
  <2>1. read(d, p, Len(b)) = Got(p + Len(b), b)
    <3> HIDE DEF b
    <3>1. At(d, p, b)
      BY DEF b
    <3> QED BY <1>1, <3>1, BytesBack
  <2> HIDE DEF b
  <2> QED BY <1>1, <2>1
<1> HIDE DEF b
<1>3. Got(p + 2, b).ok /\ Got(p + 2, b).pos = p + 2 /\ Got(p + 2, b).val = b
  BY DEF Got
<1> QED BY <1>1, <1>2, <1>3 DEF read_int

LEMMA IntPastEnd ==
  ASSUME NEW d \in Seq(Bytes)
  PROVE  read_int(d, Len(d)) = Fail
<1>1. read(d, Len(d), 2) = Fail
  BY ReadPastEnd
<1> QED BY <1>1, FailedNotOk DEF read_int

\* signed_int
LEMMA ZigZagBack ==
  ASSUME NEW v \in TypeValues("signed_int")
  PROVE  ZigZag(v) \in 0 .. Word - 1 /\ UnZigZag(ZigZag(v)) = v
<1> DEFINE h == Word \div 2
<1>1. h \in Nat /\ Word = 2 * h
  BY ByteFacts
<1>2. v \in -h .. h - 1
  BY DEF TypeValues
<1> HIDE DEF h
<1>3. CASE v >= 0
  BY <1>1, <1>2, <1>3 DEF ZigZag, UnZigZag
<1>4. CASE v < 0
  <2>1. ZigZag(v) = 2 * (-v - 1) + 1
    BY <1>1, <1>2, <1>4 DEF ZigZag
  <2>2. ZigZag(v) \in 0 .. Word - 1
    BY <1>1, <1>2, <1>4, <2>1
  <2>3. ZigZag(v) % 2 = 1 /\ ZigZag(v) \div 2 = -v - 1
    BY <1>1, <1>2, <1>4, <2>1
  <2> QED BY <1>1, <1>2, <2>2, <2>3 DEF UnZigZag
<1> QED BY <1>1, <1>2, <1>3, <1>4

LEMMA StringTyped ==
  ASSUME NEW s \in Strings
  PROVE  /\ s \in Seq(Bytes) /\ Len(s) \in 0 .. Word - 1
         /\ write_unsigned[Len(s)] \in Seq(Bytes)
         /\ Len(write_unsigned[Len(s)]) \in Nat \ {0}
         /\ write_string(s) \in Seq(Bytes)
         /\ Len(write_string(s)) = Len(write_unsigned[Len(s)]) + Len(s)
         /\ Len(write_string(s)) \in Nat \ {0}
<1>1. s \in Seq(Bytes) /\ Len(s) < Word
  BY DEF Strings, Bytes
<1>2. Len(s) \in 0 .. Word - 1
  BY <1>1, ByteFacts, LenProperties
<1>3. /\ write_unsigned[Len(s)] \in Seq(Bytes)
      /\ Len(write_unsigned[Len(s)]) \in Nat \ {0}
  BY <1>2, UnsignedTyped
<1>4. /\ write_string(s) \in Seq(Bytes)
      /\ Len(write_string(s)) = Len(write_unsigned[Len(s)]) + Len(s)
  BY <1>1, <1>3, ConcatProperties DEF write_string
<1> QED BY <1>1, <1>2, <1>3, <1>4

LEMMA StringBack ==
  ASSUME NEW s \in Strings, NEW d \in Seq(Bytes), NEW p, At(d, p, write_string(s))
  PROVE  read_string(d, p) = Got(p + Len(write_string(s)), s)
<1> DEFINE n == Len(s)
           u == write_unsigned[n]
<1>1. /\ s \in Seq(Bytes) /\ n \in 0 .. Word - 1 /\ u \in Seq(Bytes) /\ Len(u) \in Nat
      /\ Len(write_string(s)) = Len(u) + n /\ write_string(s) = u \o s
  BY StringTyped DEF write_string
<1>2. At(d, p, u) /\ At(d, p + Len(u), s)
  <2> HIDE DEF u, n
  <2> QED BY <1>1, AtConcat
<1>3. read_unsigned(d, p) = Got(p + Len(u), n)
  BY <1>1, <1>2, UnsignedBack
<1>4. read(d, p + Len(u), n) = Got((p + Len(u)) + n, s)
  BY <1>1, <1>2, BytesBack
<1> HIDE DEF u, n
<1>5. Got(p + Len(u), n).ok /\ Got(p + Len(u), n).pos = p + Len(u) /\ Got(p + Len(u), n).val = n
  BY DEF Got
<1>6. read_string(d, p) = Got((p + Len(u)) + n, s)
  BY <1>3, <1>4, <1>5 DEF read_string
<1>7. (p + Len(u)) + n = p + Len(write_string(s))
  BY <1>1, <1>2 DEF At
<1> QED BY <1>6, <1>7

LEMMA StringPastEnd ==
  ASSUME NEW d \in Seq(Bytes)
  PROVE  read_string(d, Len(d)) = Fail
BY UnsignedPastEnd, FailedNotOk DEF read_string

\* optional: a flag, and the int when it is set.
LEMMA OptionalWire ==
  ASSUME NEW o \in TypeValues("optional")
  PROVE  /\ write_optional(o) \in Seq(Bytes)
         /\ Len(write_optional(o)) \in Nat \ {0}
         /\ \A d \in Seq(Bytes) : \A p : At(d, p, write_optional(o))
              => read_optional(d, p) = Got(p + Len(write_optional(o)), o)
<1>0. 0 \in Bytes /\ 1 \in Bytes /\ <<0>> \in Seq(Bytes) /\ <<1>> \in Seq(Bytes)
  BY ByteFacts DEF Bytes
<1>1. CASE o = <<>>
  <2>1. write_optional(o) = <<0>> /\ Len(<<0>>) = 1
    BY <1>1 DEF write_optional
  <2>2. ASSUME NEW d \in Seq(Bytes), NEW p, At(d, p, << 0 >>)
        PROVE  read_optional(d, p) = Got(p + 1, o)
    <3>1. read(d, p, 1) = Got(p + 1, <<0>>)
      BY <1>0, <2>1, <2>2, BytesBack
    <3>2. Got(p + 1, <<0>>).ok /\ Got(p + 1, <<0>>).val[1] = 0 /\ Got(p + 1, <<0>>).pos = p + 1
      BY DEF Got
    <3> QED BY <1>1, <3>1, <3>2 DEF read_optional
  <2> QED BY <1>0, <2>1, <2>2
<1>2. CASE o # <<>>
  <2>1. PICK v \in Ints : o = <<v>>
    BY <1>2 DEF TypeValues
  <2> DEFINE b == write_int(v)
             one == <<1>>
  <2>2. b \in Seq(Bytes) /\ Len(b) = 2
    BY IntTyped
  <2>3. write_optional(o) = <<1>> \o b
    BY <1>2, <2>1 DEF write_optional
  <2>a. one \in Seq(Bytes) /\ Len(one) = 1 /\ one[1] = 1
    BY <1>0
  <2> HIDE DEF b, one
  <2>4. one \o b \in Seq(Bytes) /\ Len(one \o b) = 3
    <3>1. one \o b \in Seq(Bytes)
      BY <2>a, <2>2, ConcatProperties
    <3>2. Len(one \o b) = Len(one) + Len(b)
      BY <2>a, <2>2, ConcatProperties
    <3> QED BY <2>a, <2>2, <3>1, <3>2
  <2>5. ASSUME NEW d \in Seq(Bytes), NEW p, At(d, p, one \o b)
        PROVE  read_optional(d, p) = Got(p + 3, o)
    <3>1. p \in Nat /\ At(d, p, one) /\ At(d, p + 1, b)
      <4>1. p \in Nat /\ At(d, p, one) /\ At(d, p + Len(one), b)
        BY <2>a, <2>2, <2>5, AtConcat
      <4> QED BY <2>a, <4>1
    <3>2. read(d, p, 1) = Got(p + 1, one)
      <4>1. read(d, p, Len(one)) = Got(p + Len(one), one)
        BY <2>a, <3>1, BytesBack
      <4> QED BY <2>a, <4>1
    <3>3. Got(p + 1, one).ok /\ Got(p + 1, one).val[1] = 1 /\ Got(p + 1, one).pos = p + 1
      BY <2>a DEF Got
    <3>4. read_int(d, p + 1) = Got((p + 1) + 2, v)
      BY <3>1, IntBack DEF b
    <3>5. Got((p + 1) + 2, v).ok /\ Got((p + 1) + 2, v).pos = p + 3 /\ Got((p + 1) + 2, v).val = v
      BY <3>1 DEF Got
    <3> QED BY <2>1, <3>2, <3>3, <3>4, <3>5 DEF read_optional
  <2> QED BY <2>3, <2>4, <2>5 DEF one
<1> QED BY <1>1, <1>2

\* set: the size, and the elements from the least on.
LEMMA SetWire ==
  ASSUME NEW e \in TypeValues("set")
  PROVE  /\ Write("set", e) \in Seq(Bytes)
         /\ Len(Write("set", e)) \in Nat \ {0}
         /\ \A d \in Seq(Bytes) : \A p : At(d, p, Write("set", e))
              => read_set(d, p) = Got(p + Len(Write("set", e)), e)
<1> DEFINE n == Cardinality(e)
           u == write_unsigned[n]
           w == write_elems[e]
<1>0. Write("set", e) = u \o w
  BY DEF Write
<1>1. e \in Sets /\ n < Word
  BY DEF TypeValues, Sets
<1>2. n \in 0 .. Word - 1 /\ n \in Nat
  <2>1. n \in Nat
    BY <1>1, SetFacts
  <2> HIDE DEF n
  <2> QED BY <1>1, <2>1, ByteFacts
<1>3. u \in Seq(Bytes) /\ Len(u) \in Nat \ {0} /\ w \in Seq(Bytes) /\ Len(w) \in Nat
  BY <1>1, <1>2, UnsignedTyped, WriteElems, LenProperties
<1>4. u \o w \in Seq(Bytes) /\ Len(u \o w) = Len(u) + Len(w)
  <2> HIDE DEF u, w
  <2> QED BY <1>3, ConcatProperties
<1>5. ASSUME NEW d \in Seq(Bytes), NEW p, At(d, p, u \o w)
      PROVE  read_set(d, p) = Got(p + Len(u \o w), e)
  <2>1. At(d, p, u) /\ At(d, p + Len(u), w) /\ p \in Nat
    <3> HIDE DEF u, w
    <3> QED BY <1>3, <1>5, AtConcat
  <2>2. read_unsigned(d, p) = Got(p + Len(u), n)
    BY <1>2, <2>1, UnsignedBack
  <2> HIDE DEF u
  <2>3. Got(p + Len(u), n).ok /\ Got(p + Len(u), n).pos = p + Len(u) /\ Got(p + Len(u), n).val = n
    BY DEF Got
  <2> DEFINE l == [n |-> n, q |-> p + Len(u), s |-> {}]
  <2>4. l \in SetLocals /\ l.n = n /\ l.q = p + Len(u) /\ l.s = {}
    <3> HIDE DEF n
    <3> QED BY <1>2, <1>3, <2>1 DEF SetLocals
  <2>5. read_set(d, p) = SetLoop(d)[l]
    BY <2>2, <2>3, ReadSetIs
  <2> HIDE DEF l
  <2>6. Collects(d, e, l)
    BY <1>1, <2>4, LoopCollects
  <2>7. SetLoop(d)[l] = Got((p + Len(u)) + Len(w), {} \cup e)
    BY <2>1, <2>4, <2>6 DEF Collects
  <2>8. {} \cup e = e
    OBVIOUS
  <2>9. (p + Len(u)) + Len(w) = p + Len(u \o w)
    <3> HIDE DEF w
    <3> QED BY <1>3, <1>4, <2>1
  <2> QED BY <2>5, <2>7, <2>8, <2>9
<1> HIDE DEF u, w
<1>6. Len(u \o w) \in Nat \ {0}
  BY <1>3, <1>4
<1> QED BY <1>0, <1>4, <1>5, <1>6

\* variant: the index, and the alternative it names.
LEMMA VariantWire ==
  ASSUME NEW v \in TypeValues("variant")
  PROVE  /\ write_variant(v) \in Seq(Bytes)
         /\ Len(write_variant(v)) \in Nat \ {0}
         /\ \A d \in Seq(Bytes) : \A p : At(d, p, write_variant(v))
              => read_variant(d, p) = Got(p + Len(write_variant(v)), v)
<1> DEFINE u == write_unsigned[v.index]
           b == IF v.index = 0 THEN write_int(v.val) ELSE write_string(v.val)
           Rest(d, q) == IF v.index = 0 THEN read_int(d, q) ELSE read_string(d, q)
<1>0. write_variant(v) = u \o b
  BY DEF write_variant
<1>1. v \in [index : {0}, val : Ints] \/ v \in [index : {1}, val : Strings]
  BY DEF TypeValues
<1>2. /\ v.index \in {0, 1} /\ v.index \in 0 .. Word - 1
      /\ v = [index |-> v.index, val |-> v.val]
      /\ v.index = 0 => v.val \in Ints
      /\ v.index # 0 => v.val \in Strings
  BY <1>1, ByteFacts
<1>3. u \in Seq(Bytes) /\ Len(u) \in Nat \ {0}
  BY <1>2, UnsignedTyped
<1>4. b \in Seq(Bytes) /\ Len(b) \in Nat
  BY <1>2, IntTyped, StringTyped
<1>5. ASSUME NEW d \in Seq(Bytes), NEW q, At(d, q, b) PROVE Rest(d, q) = Got(q + Len(b), v.val)
  <2>1. CASE v.index = 0
    <3>1. b = write_int(v.val) /\ Len(b) = 2 /\ Rest(d, q) = read_int(d, q)
      BY <1>2, <2>1, IntTyped
    <3> HIDE DEF b
    <3> QED BY <1>2, <1>5, <2>1, <3>1, IntBack
  <2>2. CASE v.index # 0
    <3>1. b = write_string(v.val) /\ Rest(d, q) = read_string(d, q)
      BY <2>2
    <3> HIDE DEF b
    <3> QED BY <1>2, <1>5, <2>2, <3>1, StringBack
  <2> QED BY <2>1, <2>2
<1>6. u \o b \in Seq(Bytes) /\ Len(u \o b) = Len(u) + Len(b)
  <2> HIDE DEF u, b
  <2> QED BY <1>3, <1>4, ConcatProperties
<1>7. ASSUME NEW d \in Seq(Bytes), NEW p, At(d, p, u \o b)
      PROVE  read_variant(d, p) = Got(p + Len(u \o b), v)
  <2>1. At(d, p, u) /\ At(d, p + Len(u), b) /\ p \in Nat
    <3> HIDE DEF u, b
    <3> QED BY <1>3, <1>4, <1>7, AtConcat
  <2>2. read_unsigned(d, p) = Got(p + Len(u), v.index)
    BY <1>2, <2>1, UnsignedBack
  <2>3. Rest(d, p + Len(u)) = Got((p + Len(u)) + Len(b), v.val)
    BY <1>5, <2>1
  <2>4. (p + Len(u)) + Len(b) = p + Len(u \o b)
    <3> HIDE DEF u, b
    <3> QED BY <1>3, <1>4, <1>6, <2>1
  <2> HIDE DEF u, b
  <2> DEFINE i == read_unsigned(d, p)
             a == IF i.val = 0 THEN read_int(d, i.pos) ELSE read_string(d, i.pos)
  <2>5. i.ok /\ i.pos = p + Len(u) /\ i.val = v.index
    BY <2>2 DEF Got
  <2>6. a = Got((p + Len(u)) + Len(b), v.val)
    <3> HIDE DEF i
    <3> QED BY <2>3, <2>5
  <2>7. a.ok /\ a.pos = p + Len(u \o b) /\ a.val = v.val
    <3> HIDE DEF a
    <3> QED BY <2>4, <2>6 DEF Got
  <2>8. read_variant(d, p) = IF i.ok /\ i.val \in {0, 1} /\ a.ok
                             THEN Got(a.pos, [index |-> i.val, val |-> a.val]) ELSE Fail
    BY DEF read_variant
  <2> HIDE DEF i, a
  <2> QED BY <1>2, <2>5, <2>7, <2>8
<1> HIDE DEF u, b
<1>8. Len(u \o b) \in Nat \ {0}
  BY <1>3, <1>4, <1>6
<1> QED BY <1>0, <1>6, <1>7, <1>8

\* What operator<< of any type writes, operator>> of the type reads back.
THEOREM RoundTrip ==
  ASSUME NEW t \in Types, NEW v \in TypeValues(t)
  PROVE  /\ Write(t, v) \in Seq(Bytes)
         /\ Len(Write(t, v)) \in Nat \ {0}
         /\ \A d \in Seq(Bytes) : \A p : At(d, p, Write(t, v))
              => Read(t, d, p) = Got(p + Len(Write(t, v)), v)
<1>1. CASE t = "int"
  <2>1. v \in Ints /\ Write(t, v) = write_int(v) /\ \A d, p : Read(t, d, p) = read_int(d, p)
    BY <1>1 DEF TypeValues, Write, Read
  <2>2. write_int(v) \in Seq(Bytes) /\ Len(write_int(v)) = 2
    BY <2>1, IntTyped
  <2> QED BY <2>1, <2>2, IntBack
<1>2. CASE t = "unsigned_int"
  <2>1. /\ v \in 0 .. Word - 1 /\ Write(t, v) = write_unsigned[v]
        /\ \A d, p : Read(t, d, p) = read_unsigned(d, p)
    BY <1>2 DEF TypeValues, Write, Read
  <2> QED BY <2>1, UnsignedTyped, UnsignedBack
<1>3. CASE t = "signed_int"
  <2> DEFINE z == ZigZag(v)
  <2>1. /\ Write(t, v) = write_unsigned[z]
        /\ \A d, p : Read(t, d, p) = read_signed(d, p)
    BY <1>3 DEF Write, Read
  <2>2. z \in 0 .. Word - 1 /\ UnZigZag(z) = v
    BY <1>3, ZigZagBack
  <2> HIDE DEF z
  <2>3. write_unsigned[z] \in Seq(Bytes) /\ Len(write_unsigned[z]) \in Nat \ {0}
    BY <2>2, UnsignedTyped
  <2>4. ASSUME NEW d \in Seq(Bytes), NEW p, At(d, p, write_unsigned[z])
        PROVE  read_signed(d, p) = Got(p + Len(write_unsigned[z]), v)
    <3>1. read_unsigned(d, p) = Got(p + Len(write_unsigned[z]), z)
      BY <2>2, <2>4, UnsignedBack
    <3>2. /\ read_unsigned(d, p).ok /\ read_unsigned(d, p).pos = p + Len(write_unsigned[z])
          /\ read_unsigned(d, p).val = z
      BY <3>1 DEF Got
    <3> QED BY <2>2, <3>2 DEF read_signed
  <2> QED BY <2>1, <2>3, <2>4
<1>4. CASE t = "string"
  <2>1. v \in Strings /\ Write(t, v) = write_string(v) /\ \A d, p : Read(t, d, p) = read_string(d, p)
    BY <1>4 DEF TypeValues, Write, Read
  <2> QED BY <2>1, StringTyped, StringBack
<1>5. CASE t = "optional"
  <2>1. Write(t, v) = write_optional(v) /\ \A d, p : Read(t, d, p) = read_optional(d, p)
    BY <1>5 DEF Write, Read
  <2> QED BY <1>5, <2>1, OptionalWire
<1>6. CASE t = "set"
  <2>1. \A d, p : Read(t, d, p) = read_set(d, p)
    BY <1>6 DEF Read
  <2> QED BY <1>6, <2>1, SetWire
<1>7. CASE t = "variant"
  <2>1. Write(t, v) = write_variant(v) /\ \A d, p : Read(t, d, p) = read_variant(d, p)
    BY <1>7 DEF Write, Read
  <2> QED BY <1>7, <2>1, VariantWire
<1> QED BY <1>1, <1>2, <1>3, <1>4, <1>5, <1>6, <1>7 DEF Types

\* Nothing is read at the end of the data.
LEMMA PastEnd ==
  ASSUME NEW t \in Types, NEW d \in Seq(Bytes)
  PROVE  Read(t, d, Len(d)) = Fail
<1> DEFINE p == Len(d)
<1>0. read(d, p, 1) = Fail /\ read_unsigned(d, p) = Fail /\ read_int(d, p) = Fail
  BY ReadPastEnd, UnsignedPastEnd, IntPastEnd
<1> HIDE DEF p
<1>1. read_signed(d, p) = Fail /\ read_string(d, p) = Fail
  BY <1>0, FailedNotOk DEF read_signed, read_string
<1>2. read_optional(d, p) = Fail
  BY <1>0, FailedNotOk DEF read_optional
<1>3. read_set(d, p) = Fail
  BY <1>0, FailedNotOk, ReadSetIs
<1>4. read_variant(d, p) = Fail
  BY <1>0, FailedNotOk DEF read_variant
<1>5. Read(t, d, p) = Fail
  BY <1>0, <1>1, <1>2, <1>3, <1>4 DEF Read, Types
<1> QED BY <1>5 DEF p

-----------------------------------------------------------------------------
(***************************************************************************)
(* The arguments of a call.                                                *)
(***************************************************************************)
Param == [wrap : {"plain", "extension", "ignore"}, type : Types]

LEMMA DefaultTyped ==
  ASSUME NEW t \in Types
  PROVE  Default(t) \in TypeValues(t)
<1>1. 0 \in Ints
  <2>1. Byte * Byte > 0
    BY ByteFacts
  <2>2. Byte * Byte \in Nat
    BY ByteFacts
  <2> QED BY <2>1, <2>2 DEF Ints
<1>2. CASE t \in {"int", "unsigned_int", "signed_int"}
  <2>1. Word \div 2 \in Nat /\ Word \div 2 > 0
    BY ByteFacts
  <2> QED BY <1>1, <1>2, <2>1, ByteFacts DEF Default, TypeValues
<1>3. CASE t = "string"
  <2>1. <<>> \in Strings
    BY ByteFacts DEF Strings
  <2> QED BY <1>3, <2>1 DEF Default, TypeValues
<1>4. CASE t = "optional"
  BY <1>4 DEF Default, TypeValues
<1>5. CASE t = "set"
  <2>1. Cardinality({}) < Word
    BY ByteFacts, FS_EmptySet
  <2> QED BY <1>5, <2>1 DEF Default, TypeValues
<1>6. CASE t = "variant"
  BY <1>1, <1>6 DEF Default, TypeValues
<1> QED BY <1>2, <1>3, <1>4, <1>5, <1>6 DEF Types

\* What an argument stands for: an empty extension for the default value.
Meant(p, v) ==
  IF p.wrap # "extension" THEN v ELSE IF v = Empty THEN Default(p.type) ELSE v[1]

LEMMA MeantTyped ==
  ASSUME NEW p \in Param, NEW v \in ArgValues(p)
  PROVE  /\ Meant(p, v) \in TypeValues(p.type)
         /\ p.wrap = "extension" /\ v # Empty => v = <<Meant(p, v)>>
<1>0. p.type \in Types /\ Values[p.type] \subseteq TypeValues(p.type)
  BY ActionDataAssumption DEF Param
<1>1. CASE p.wrap # "extension"
  BY <1>0, <1>1 DEF ArgValues, Meant
<1>2. CASE p.wrap = "extension" /\ v = Empty
  BY <1>0, <1>2, DefaultTyped DEF Meant
<1>3. CASE p.wrap = "extension" /\ v # Empty
  <2>1. PICK w \in Values[p.type] : v = <<w>>
    BY <1>3 DEF ArgValues
  <2>2. Meant(p, v) = w
    BY <1>3, <2>1 DEF Meant
  <2> QED BY <1>0, <2>1, <2>2
<1> QED BY <1>1, <1>2, <1>3

\* Nothing is packed for a parameter that SEND_INLINE_ACTION leaves to ignore<T>.
Dropped(by, p) == by # "action_wrapper" /\ p.wrap = "ignore"

LEMMA PackArgIs ==
  ASSUME NEW by, NEW p \in Param, NEW v \in ArgValues(p)
  PROVE  /\ Dropped(by, p) => pack_arg(by, p, v) = <<>>
         /\ ~Dropped(by, p) => pack_arg(by, p, v) = Write(p.type, Meant(p, v))
         /\ pack_arg(by, p, v) \in Seq(Bytes)
<1>1. Dropped(by, p) => pack_arg(by, p, v) = <<>>
  BY DEF Dropped, pack_arg
<1>2. ~Dropped(by, p) => pack_arg(by, p, v) = Write(p.type, Meant(p, v))
  BY DEF Dropped, pack_arg, Param, Meant
<1>3. Write(p.type, Meant(p, v)) \in Seq(Bytes) /\ <<>> \in Seq(Bytes)
  BY MeantTyped, RoundTrip DEF Param
<1>4. CASE Dropped(by, p)
  BY <1>1, <1>3, <1>4
<1>5. CASE ~Dropped(by, p)
  BY <1>2, <1>3, <1>5
<1> QED BY <1>4, <1>5

\* One value for each parameter.
Fits(sig, vals) ==
  /\ sig \in Seq(Param)
  /\ DOMAIN vals = 1 .. Len(sig)
  /\ \A i \in 1 .. Len(sig) : vals[i] \in ArgValues(sig[i])

CallsTurn(sig, g, n) ==
  IF n = 0 THEN {<<>>}
  ELSE UNION {{Append(vals, v) : v \in ArgValues(sig[n])} : vals \in g[n - 1]}

LEMMA CallsTurnTyped ==
  ASSUME NEW sig \in Seq(Param), NEW n \in 0 .. Len(sig), NEW g, NEW V,
         \A i \in 1 .. Len(sig) : ArgValues(sig[i]) \subseteq V,
         n # 0 => g[n - 1] \subseteq Seq(V)
  PROVE  CallsTurn(sig, g, n) \subseteq Seq(V)
<1>1. CASE n = 0
  BY <1>1 DEF CallsTurn
<1>2. CASE n # 0
  <2>1. n \in 1 .. Len(sig)
    BY <1>2
  <2> SUFFICES ASSUME NEW vals \in g[n - 1], NEW v \in ArgValues(sig[n])
               PROVE  Append(vals, v) \in Seq(V)
    BY <1>2 DEF CallsTurn
  <2>2. vals \in Seq(V) /\ v \in V
    BY <1>2, <2>1
  <2> QED BY <2>2, AppendProperties
<1> QED BY <1>1, <1>2

LEMMA CallsTurnLast ==
  ASSUME NEW sig, NEW g, NEW n, n # 0, NEW c \in CallsTurn(sig, g, n)
  PROVE  \E b \in g[n - 1] : \E v \in ArgValues(sig[n]) : c = Append(b, v)
<1>1. CallsTurn(sig, g, n) = UNION {{Append(b, v) : v \in ArgValues(sig[n])} : b \in g[n - 1]}
  BY DEF CallsTurn
<1>2. PICK C \in {{Append(b, v) : v \in ArgValues(sig[n])} : b \in g[n - 1]} : c \in C
  BY <1>1
<1>3. PICK b \in g[n - 1] : C = {Append(b, v) : v \in ArgValues(sig[n])}
  BY <1>2
<1> QED BY <1>2, <1>3

\* A call has one value for each parameter.
LEMMA CallsFit ==
  ASSUME NEW sig \in Seq(Param), NEW vals \in Calls(sig)
  PROVE  Fits(sig, vals)
<1> DEFINE N == Len(sig)
           D == 0 .. N
           V == UNION {ArgValues(sig[i]) : i \in 1 .. N}
           R == SUBSET Seq(V)
           F == [g \in [D -> R] |-> [n \in D |-> CallsTurn(sig, g, n)]]
           m == [n \in D |-> n]
           Body(g) == [n \in D |-> CallsTurn(sig, g, n)]
<1>0. N \in Nat /\ m \in [D -> Nat] /\ \A n \in D : m[n] = n
  BY LenProperties
<1>a. \A i \in 1 .. N : ArgValues(sig[i]) \subseteq V
  OBVIOUS
<1>b. \A n \in D : n # 0 => n - 1 \in D /\ n - 1 < n
  BY <1>0
<1>2. Recursion(F, D, m, R)
  <2>1. ASSUME NEW g \in [D -> R], NEW n \in D PROVE CallsTurn(sig, g, n) \in R
    <3>1. n # 0 => g[n - 1] \subseteq Seq(V)
      BY <1>b
    <3> HIDE DEF V
    <3> QED BY <1>a, <3>1, CallsTurnTyped
  <2>2. \A g \in [D -> R] : \A n \in D : F[g][n] = CallsTurn(sig, g, n)
    OBVIOUS
  <2>3. F \in [[D -> R] -> [D -> R]]
    <3> HIDE DEF R, D
    <3> QED BY <2>1
  <2>4. ASSUME NEW g \in [D -> R], NEW h \in [D -> R], NEW n \in D,
               \A y \in D : m[y] < m[n] => g[y] = h[y]
        PROVE  F[g][n] = F[h][n]
    <3>1. n # 0 => g[n - 1] = h[n - 1]
      BY <1>0, <1>b, <2>4
    <3>2. CallsTurn(sig, g, n) = CallsTurn(sig, h, n)
      BY <3>1 DEF CallsTurn
    <3> QED BY <2>2, <3>2
  <2> HIDE DEF F, m, D, R
  <2> QED BY <1>0, <2>3, <2>4 DEF Recursion
<1>3. PICK f \in [D -> R] : \A n \in D : f[n] = F[f][n]
  <2>1. R # {}
    OBVIOUS
  <2> HIDE DEF F, m, D, R
  <2> QED BY <1>2, <2>1, RecursionSolved
<1>4. f = Body(f)
  BY <1>3
<1> DEFINE w == CHOOSE g : g = Body(g)
<1>5. Calls(sig) = w[N]
  BY Zenon DEF Calls, CallsTurn
<1>6. w = Body(w)
  <2> HIDE DEF Body
  <2> QED BY <1>4, Zenon
<1> HIDE DEF w
<1>7. \A n \in D : w[n] = CallsTurn(sig, w, n)
  BY <1>6
<1> DEFINE Good(n, c) == c \in Seq(V) /\ Len(c) = n
                         /\ \A i \in 1 .. n : c[i] \in ArgValues(sig[i])
           T == {n \in D : \A c \in w[n] : Good(n, c)}
<1>8. ASSUME NEW n \in D, \A y \in D : m[y] < m[n] => y \in T PROVE n \in T
  <2>1. CASE n = 0
    <3>1. w[n] = {<<>>}
      BY <1>7, <2>1 DEF CallsTurn
    <3> QED BY <2>1, <3>1
  <2>2. CASE n # 0
    <3>1. n - 1 \in T /\ n \in 1 .. N
      BY <1>0, <1>b, <1>8, <2>2
    <3> SUFFICES ASSUME NEW c \in w[n] PROVE Good(n, c)
      OBVIOUS
    <3>2. PICK b \in w[n - 1] : \E v \in ArgValues(sig[n]) : c = Append(b, v)
      <4>1. c \in CallsTurn(sig, w, n)
        BY <1>7
      <4> QED BY <2>2, <4>1, CallsTurnLast
    <3>3. PICK v \in ArgValues(sig[n]) : c = Append(b, v)
      BY <3>2
    <3>4. Good(n - 1, b) /\ v \in V
      BY <1>a, <3>1
    <3> HIDE DEF V
    <3>5. /\ c \in Seq(V) /\ Len(c) = n
          /\ \A i \in 1 .. n : c[i] = IF i = n THEN v ELSE b[i]
      BY <1>0, <3>1, <3>3, <3>4, AppendProperties
    <3>6. ASSUME NEW i \in 1 .. n PROVE c[i] \in ArgValues(sig[i])
      BY <1>0, <3>1, <3>4, <3>5
    <3> QED BY <3>5, <3>6
  <2> QED BY <2>1, <2>2
<1>9. \A n \in D : n \in T
  <2> HIDE DEF T, m, D
  <2> QED BY <1>0, <1>8, MeasureInduction
<1>10. N \in T
  <2>1. N \in D
    BY <1>0
  <2> HIDE DEF T, D
  <2> QED BY <1>9, <2>1
<1>11. Good(N, vals)
  BY <1>5, <1>10
<1> QED BY <1>11, LenProperties DEF Fits

-----------------------------------------------------------------------------
(***************************************************************************)
(* The packed arguments, one after the other.                              *)
(***************************************************************************)
\* The data after each argument.
Packed(by, sig, vals) ==
  LET Bytes_[i \in 0 .. Len(sig)] ==
        IF i = 0 THEN <<>> ELSE Bytes_[i - 1] \o pack_arg(by, sig[i], vals[i])
  IN Bytes_

PackTurn(by, sig, vals, g, i) ==
  IF i = 0 THEN <<>> ELSE g[i - 1] \o pack_arg(by, sig[i], vals[i])

LEMMA PackTurnTyped ==
  ASSUME NEW by, NEW sig, NEW vals, Fits(sig, vals), NEW i \in 0 .. Len(sig), NEW g,
         i # 0 => g[i - 1] \in Seq(Bytes)
  PROVE  PackTurn(by, sig, vals, g, i) \in Seq(Bytes)
<1>1. CASE i = 0
  BY <1>1 DEF PackTurn
<1>2. CASE i # 0
  <2>1. i \in 1 .. Len(sig) /\ sig \in Seq(Param)
    BY <1>2 DEF Fits
  <2>2. sig[i] \in Param /\ vals[i] \in ArgValues(sig[i])
    BY <2>1, ElementOfSeq DEF Fits
  <2>3. pack_arg(by, sig[i], vals[i]) \in Seq(Bytes)
    BY <2>2, PackArgIs
  <2>4. PackTurn(by, sig, vals, g, i) = g[i - 1] \o pack_arg(by, sig[i], vals[i])
    BY <1>2 DEF PackTurn
  <2> QED BY <1>2, <2>3, <2>4, ConcatProperties
<1> QED BY <1>1, <1>2

\* The data of i arguments is that of i - 1 and the bytes of the last.
PacksOne(P, by, sig, vals, i) == P[i] = P[i - 1] \o pack_arg(by, sig[i], vals[i])

LEMMA PackedIs ==
  ASSUME NEW by, NEW sig, NEW vals, Fits(sig, vals)
  PROVE  /\ Packed(by, sig, vals) \in [0 .. Len(sig) -> Seq(Bytes)]
         /\ pack(by, sig, vals) = Packed(by, sig, vals)[Len(sig)]
         /\ Packed(by, sig, vals)[0] = <<>>
         /\ \A i \in 1 .. Len(sig) : PacksOne(Packed(by, sig, vals), by, sig, vals, i)
<1> DEFINE N == Len(sig)
           D == 0 .. N
           R == Seq(Bytes)
           F == [g \in [D -> R] |-> [n \in D |-> PackTurn(by, sig, vals, g, n)]]
           m == [n \in D |-> n]
           Body(g) == [n \in D |-> PackTurn(by, sig, vals, g, n)]
<1>0. N \in Nat /\ m \in [D -> Nat] /\ \A n \in D : m[n] = n
  BY LenProperties DEF Fits
<1>b. \A n \in D : n # 0 => n - 1 \in D /\ n - 1 < n
  BY <1>0
<1>2. Recursion(F, D, m, R)
  <2>1. ASSUME NEW g \in [D -> R], NEW n \in D PROVE PackTurn(by, sig, vals, g, n) \in R
    <3>1. n # 0 => g[n - 1] \in Seq(Bytes)
      BY <1>b
    <3> QED BY <3>1, PackTurnTyped
  <2>2. \A g \in [D -> R] : \A n \in D : F[g][n] = PackTurn(by, sig, vals, g, n)
    OBVIOUS
  <2>3. F \in [[D -> R] -> [D -> R]]
    <3> HIDE DEF R, D
    <3> QED BY <2>1
  <2>4. ASSUME NEW g \in [D -> R], NEW h \in [D -> R], NEW n \in D,
               \A y \in D : m[y] < m[n] => g[y] = h[y]
        PROVE  F[g][n] = F[h][n]
    <3>1. n # 0 => g[n - 1] = h[n - 1]
      BY <1>0, <1>b, <2>4
    <3>2. PackTurn(by, sig, vals, g, n) = PackTurn(by, sig, vals, h, n)
      BY <3>1 DEF PackTurn
    <3> QED BY <2>2, <3>2
  <2> HIDE DEF F, m, D, R
  <2> QED BY <1>0, <2>3, <2>4 DEF Recursion
<1>3. PICK f \in [D -> R] : \A n \in D : f[n] = F[f][n]
  <2>1. R # {}
    BY EmptySeq
  <2> HIDE DEF F, m, D, R
  <2> QED BY <1>2, <2>1, RecursionSolved
<1>4. f = Body(f)
  BY <1>3
<1> DEFINE w == CHOOSE g : g = Body(g)
<1>5. pack(by, sig, vals) = w[N] /\ Packed(by, sig, vals) = w
  BY Zenon DEF pack, Packed, PackTurn
<1>6. w = Body(w)
  <2> HIDE DEF Body
  <2> QED BY <1>4, Zenon
<1> HIDE DEF w
<1>7. \A n \in D : w[n] = PackTurn(by, sig, vals, w, n)
  BY <1>6
<1> DEFINE T == {n \in D : w[n] \in Seq(Bytes)}
<1>8. ASSUME NEW n \in D, \A y \in D : m[y] < m[n] => y \in T PROVE n \in T
  <2>1. n # 0 => w[n - 1] \in Seq(Bytes)
    BY <1>0, <1>b, <1>8
  <2> QED BY <1>7, <2>1, PackTurnTyped
<1>9. \A n \in D : n \in T
  <2> HIDE DEF T, m, D
  <2> QED BY <1>0, <1>8, MeasureInduction
<1>10. w \in [D -> Seq(Bytes)]
  BY <1>6, <1>9
<1>11. w[0] = <<>>
  <2>1. 0 \in D
    BY <1>0
  <2> QED BY <1>7, <2>1, Zenon DEF PackTurn
<1>12. ASSUME NEW i \in 1 .. N PROVE PacksOne(w, by, sig, vals, i)
  <2>1. i \in D /\ i # 0
    BY <1>0
  <2> QED BY <1>7, <2>1, Zenon DEF PackTurn, PacksOne
<1> QED BY <1>5, <1>10, <1>11, <1>12, Zenon

\* Where each argument begins.
Off(by, sig, vals, i) == Len(Packed(by, sig, vals)[i])

\* The data is the arguments' bytes, each where the one before it ends.
LEMMA PackedOffsets ==
  ASSUME NEW by, NEW sig, NEW vals, Fits(sig, vals)
  PROVE  /\ pack(by, sig, vals) \in Seq(Bytes)
         /\ Off(by, sig, vals, 0) = 0
         /\ Off(by, sig, vals, Len(sig)) = Len(pack(by, sig, vals))
         /\ \A i \in 0 .. Len(sig) : Off(by, sig, vals, i) \in 0 .. Len(pack(by, sig, vals))
         /\ \A i \in 1 .. Len(sig) :
              /\ At(pack(by, sig, vals), Off(by, sig, vals, i - 1), pack_arg(by, sig[i], vals[i]))
              /\ Off(by, sig, vals, i)
                   = Off(by, sig, vals, i - 1) + Len(pack_arg(by, sig[i], vals[i]))
<1> DEFINE N == Len(sig)
           D == 0 .. N
           P == Packed(by, sig, vals)
           A(i) == pack_arg(by, sig[i], vals[i])
           m == [n \in D |-> n]
           Laid(n) == \A i \in 1 .. n : At(P[n], Len(P[i - 1]), A(i)) /\ Len(P[i]) <= Len(P[n])
           T == {n \in D : Laid(n)}
<1>0. N \in Nat /\ m \in [D -> Nat] /\ \A n \in D : m[n] = n
  BY LenProperties DEF Fits
<1>1. /\ P \in [D -> Seq(Bytes)] /\ pack(by, sig, vals) = P[N] /\ P[0] = <<>>
      /\ \A i \in 1 .. N : P[i] = P[i - 1] \o A(i)
  <2>1. P \in [D -> Seq(Bytes)]
    BY PackedIs
  <2>2. pack(by, sig, vals) = P[N] /\ P[0] = <<>>
    BY PackedIs, Zenon
  <2>3. ASSUME NEW i \in 1 .. N PROVE P[i] = P[i - 1] \o A(i)
    <3>1. PacksOne(P, by, sig, vals, i)
      BY PackedIs
    <3> QED BY <3>1, Zenon DEF PacksOne
  <2> QED BY <2>1, <2>2, <2>3, Zenon
<1>2. ASSUME NEW i \in 1 .. N PROVE A(i) \in Seq(Bytes)
  <2>1. sig[i] \in Param /\ vals[i] \in ArgValues(sig[i])
    BY ElementOfSeq DEF Fits
  <2> QED BY <2>1, PackArgIs
<1> HIDE DEF P, A
<1>3. ASSUME NEW i \in 1 .. N
      PROVE  /\ i - 1 \in D /\ i \in D
             /\ Len(P[i - 1]) \in Nat /\ Len(A(i)) \in Nat /\ Len(P[i]) \in Nat
             /\ Len(P[i]) = Len(P[i - 1]) + Len(A(i))
             /\ \A k \in 1 .. Len(P[i - 1]) : P[i][k] = P[i - 1][k]
             /\ \A k \in 1 .. Len(A(i)) : P[i][Len(P[i - 1]) + k] = A(i)[k]
  <2> DEFINE a == P[i - 1]
             b == A(i)
  <2>1. i - 1 \in D /\ i \in D
    BY <1>0
  <2>2. a \in Seq(Bytes) /\ b \in Seq(Bytes) /\ P[i] = a \o b
    BY <1>1, <1>2, <2>1
  <2> HIDE DEF a, b
  <2>3. /\ Len(a) \in Nat /\ Len(b) \in Nat /\ Len(a \o b) = Len(a) + Len(b)
        /\ \A k \in 1 .. Len(a) + Len(b) :
             (a \o b)[k] = IF k <= Len(a) THEN a[k] ELSE b[k - Len(a)]
    BY <2>2, ConcatProperties, LenProperties
  <2>4. \A k \in 1 .. Len(a) : (a \o b)[k] = a[k]
    BY <2>3
  <2>5. \A k \in 1 .. Len(b) : (a \o b)[Len(a) + k] = b[k]
    BY <2>3
  <2> QED BY <2>1, <2>2, <2>3, <2>4, <2>5 DEF a, b
<1>4. ASSUME NEW n \in D, \A y \in D : m[y] < m[n] => y \in T PROVE n \in T
  <2>1. CASE n = 0
    BY <2>1
  <2>2. CASE n # 0
    <3>1. n \in 1 .. N /\ n - 1 \in D /\ n - 1 \in T
      BY <1>0, <1>4, <2>2
    <3> SUFFICES ASSUME NEW i \in 1 .. n
                 PROVE  At(P[n], Len(P[i - 1]), A(i)) /\ Len(P[i]) <= Len(P[n])
      OBVIOUS
    <3>2. CASE i = n
      BY <1>3, <3>1, <3>2 DEF At
    <3>3. CASE i # n
      <4>1. i \in 1 .. n - 1 /\ i \in 1 .. N
        BY <1>0, <3>1, <3>3
      <4>2. At(P[n - 1], Len(P[i - 1]), A(i)) /\ Len(P[i]) <= Len(P[n - 1])
        BY <3>1, <4>1
      <4>3. /\ Len(P[n - 1]) \in Nat /\ Len(P[n]) \in Nat /\ Len(P[n - 1]) <= Len(P[n])
            /\ \A k \in 1 .. Len(P[n - 1]) : P[n][k] = P[n - 1][k]
        BY <1>3, <3>1
      <4>4. Len(P[i - 1]) \in Nat /\ Len(A(i)) \in Nat /\ Len(P[i]) \in Nat
        BY <1>3, <4>1
      <4>5. ASSUME NEW k \in 1 .. Len(A(i)) PROVE P[n][Len(P[i - 1]) + k] = A(i)[k]
        <5>1. Len(P[i - 1]) + k \in 1 .. Len(P[n - 1])
          BY <4>2, <4>3, <4>4 DEF At
        <5>2. P[n - 1][Len(P[i - 1]) + k] = A(i)[k]
          BY <4>2 DEF At
        <5> QED BY <4>3, <5>1, <5>2
      <4>6. Len(P[i - 1]) + Len(A(i)) <= Len(P[n]) /\ Len(P[i]) <= Len(P[n])
        <5>1. Len(P[i - 1]) + Len(A(i)) <= Len(P[n - 1])
          BY <4>2 DEF At
        <5> DEFINE x == Len(P[i - 1])
                   y == Len(A(i))
                   z == Len(P[n - 1])
                   u == Len(P[n])
                   t == Len(P[i])
        <5>2. x \in Nat /\ y \in Nat /\ z \in Nat /\ u \in Nat /\ t \in Nat /\ z <= u /\ t <= z /\ x + y <= z
          BY <4>2, <4>3, <4>4, <5>1
        <5> HIDE DEF x, y, z, u, t
        <5>3. x + y <= u /\ t <= u
          BY <5>2
        <5> QED BY <5>3 DEF x, y, u, t
      <4> QED BY <4>4, <4>5, <4>6 DEF At
    <3> QED BY <3>2, <3>3
  <2> QED BY <2>1, <2>2
<1>5. \A n \in D : n \in T
  <2> HIDE DEF T, m, D
  <2> QED BY <1>0, <1>4, MeasureInduction
<1>6. Laid(N)
  <2>1. N \in D
    BY <1>0
  <2>2. N \in T
    <3> HIDE DEF T, D
    <3> QED BY <1>5, <2>1
  <2> QED BY <2>2
<1>7. P[N] \in Seq(Bytes) /\ Len(P[0]) = 0
  BY <1>0, <1>1
<1>8. ASSUME NEW i \in D PROVE Len(P[i]) \in 0 .. Len(P[N])
  BY <1>0, <1>1, <1>3, <1>6, <1>7
<1>9. ASSUME NEW i \in 1 .. N
      PROVE  At(P[N], Len(P[i - 1]), A(i)) /\ Len(P[i]) = Len(P[i - 1]) + Len(A(i))
  BY <1>3, <1>6
<1> QED BY <1>1, <1>7, <1>8, <1>9 DEF Off, P, A

-----------------------------------------------------------------------------
(***************************************************************************)
(* The inductive invariant.                                                *)
(***************************************************************************)
SentUpto(k) == Off(sender.by, sender.sig, sender.vals, k)

\* The cursor after the first k parameters: at the end past those sent.
End(k) == IF k <= Known THEN SentUpto(k) ELSE Len(data)

\* Of the handler's first n parameters the first j are unpacked, the others
\* ignored.
Split(j, n) ==
  /\ \A i \in 1 .. j : handler.sig[i].wrap # "ignore"
  /\ \A i \in j + 1 .. n : handler.sig[i].wrap = "ignore"

\* What the handler gets for its i-th parameter.
Arrived(i) ==
  CASE handler.sig[i].wrap = "ignore" -> Ignored
    [] handler.sig[i].wrap # "ignore" /\ i > Known -> Empty
    [] handler.sig[i].wrap # "ignore" /\ i <= Known ->
         IF handler.sig[i].wrap = "extension" /\ sender.vals[i] = Empty
         THEN <<Default(handler.sig[i].type)>> ELSE sender.vals[i]

IsSent ==
  /\ sender.by \in {"action_wrapper", "inline"}
  /\ Fits(sender.sig, sender.vals)
  /\ IgnoresLast(sender.sig)
  /\ data = pack(sender.by, sender.sig, sender.vals)

\* Both sides were compiled from versions of one signature.
IsEntered ==
  /\ handler.way \in Ways
  /\ handler.sig \in Seq(Param)
  /\ IgnoresLast(handler.sig)
  /\ \A i \in 1 .. Len(handler.sig) : i <= Known => handler.sig[i] = sender.sig[i]
  /\ buffer = [at |-> Place(handler.way, Len(data)),
               freed |-> IF phase = "done"
                         THEN Released(handler.way, Place(handler.way, Len(data)), Len(data))
                         ELSE "none"]

\* a arguments are unpacked, the j that are not ignored from the data.
Unpacked(a, j) ==
  /\ Split(j, a)
  /\ pos = End(j)
  /\ args = [i \in 1 .. a |-> Arrived(i)]
  /\ \A i \in 1 .. j : i > Known => handler.sig[i].wrap = "extension"

\* Past the j arguments that were unpacked, the handler has read the next k.
Reading(j, k) ==
  /\ Split(j, Len(handler.sig))
  /\ _ds = End(j + k)
  /\ seen = [n \in 1 .. k |-> [at |-> j + n, val |-> sender.vals[j + n]]]
  /\ k > 0 => sender.by = "action_wrapper" /\ j + k <= Known

IsUnpacked == \E a \in 0 .. Len(handler.sig) : \E j \in 0 .. a : Unpacked(a, j)
IsReading == \E j \in 0 .. Len(handler.sig) : \E k \in 0 .. Len(handler.sig) - j : Reading(j, k)

Untouched == _ds = 0 /\ seen = <<>>

IInv ==
  /\ phase \in {"idle", "sent", "unpack", "handle", "done", "aborted"}
  /\ phase = "idle" => sender = Nobody /\ data = <<>>
  /\ phase # "idle" => IsSent
  /\ phase \in {"idle", "sent"} =>
       /\ handler = NoHandler /\ buffer = [at |-> "null", freed |-> "none"]
       /\ pos = 0 /\ args = <<>> /\ Untouched
  /\ phase \notin {"idle", "sent"} => IsEntered /\ IsUnpacked
  /\ phase = "unpack" => Untouched
  /\ phase \in {"handle", "done"} => ~MoreArgs /\ IsReading
  /\ phase = "aborted" => (Untouched \/ IsReading) /\ CompleteCallSucceeds

LEMMA EndFacts ==
  ASSUME IsSent
  PROVE  /\ data \in Seq(Bytes) /\ Len(data) \in Nat /\ Known \in Nat
         /\ End(0) = 0
         /\ \A k \in Nat : End(k) \in 0 .. Len(data)
         /\ \A k \in Nat : k >= Known => End(k) = Len(data)
<1>1. Fits(sender.sig, sender.vals) /\ data = pack(sender.by, sender.sig, sender.vals)
  BY DEF IsSent
<1>2. Known \in Nat /\ Known = Len(sender.sig)
  BY <1>1, LenProperties DEF Known, Fits
<1>3. /\ data \in Seq(Bytes) /\ SentUpto(0) = 0 /\ SentUpto(Known) = Len(data)
      /\ \A i \in 0 .. Known : SentUpto(i) \in 0 .. Len(data)
  BY <1>1, <1>2, PackedOffsets DEF SentUpto
<1>4. Len(data) \in Nat
  BY <1>3, LenProperties
<1> QED BY <1>2, <1>3, <1>4 DEF End

\* What was packed for a parameter is read where the ones before it end.
LEMMA ReadSent ==
  ASSUME IsSent, NEW i \in 1 .. Known, ~Dropped(sender.by, sender.sig[i])
  PROVE  /\ Read(sender.sig[i].type, data, End(i - 1))
              = Got(End(i), Meant(sender.sig[i], sender.vals[i]))
         /\ End(i - 1) < Len(data)
<1> DEFINE p == sender.sig[i]
           v == sender.vals[i]
           b == Write(p.type, Meant(p, v))
<1>1. Fits(sender.sig, sender.vals) /\ data = pack(sender.by, sender.sig, sender.vals)
  BY DEF IsSent
<1>2. Known \in Nat /\ Known = Len(sender.sig) /\ data \in Seq(Bytes) /\ Len(data) \in Nat
  BY EndFacts DEF Known
<1>3. p \in Param /\ v \in ArgValues(p)
  BY <1>1, <1>2, ElementOfSeq DEF Fits
<1>4. pack_arg(sender.by, p, v) = b
  BY <1>3, PackArgIs
<1>5. /\ At(data, SentUpto(i - 1), b)
      /\ SentUpto(i) = SentUpto(i - 1) + Len(b)
  BY <1>1, <1>2, <1>4, PackedOffsets DEF SentUpto
<1>6. End(i - 1) = SentUpto(i - 1) /\ End(i) = SentUpto(i)
  BY <1>2 DEF End
<1>7. p.type \in Types /\ Meant(p, v) \in TypeValues(p.type)
  BY <1>3, MeantTyped DEF Param
<1> HIDE DEF p, v
<1>8. /\ Len(b) \in Nat \ {0}
      /\ \A d \in Seq(Bytes) : \A q : At(d, q, b) => Read(p.type, d, q) = Got(q + Len(b), Meant(p, v))
  BY <1>7, RoundTrip
<1> HIDE DEF b
<1>9. Read(p.type, data, End(i - 1)) = Got(End(i), Meant(p, v))
  BY <1>2, <1>5, <1>6, <1>8
<1>10. End(i - 1) < Len(data)
  BY <1>2, <1>5, <1>6, <1>8 DEF At
<1> QED BY <1>9, <1>10 DEF p, v

\* SEND_INLINE_ACTION packs nothing for the ignored parameters at the end.
LEMMA NothingPacked ==
  ASSUME IsSent, sender.by # "action_wrapper", NEW j \in Nat,
         \A i \in j + 1 .. Known : sender.sig[i].wrap = "ignore"
  PROVE  End(j) = Len(data)
<1>1. Fits(sender.sig, sender.vals) /\ data = pack(sender.by, sender.sig, sender.vals)
  BY DEF IsSent
<1>2. Known \in Nat
  BY EndFacts
<1>a. Known = Len(sender.sig)
  BY DEF Known
<1>b. \A k \in Nat : End(k) \in Nat
  BY EndFacts
<1>c. \A k \in Nat : k >= Known => End(k) = Len(data)
  BY EndFacts
<1> DEFINE id == [n \in Nat |-> n]
           T == {k \in Nat : k >= j => End(k) = End(j)}
<1>3. ASSUME NEW k \in Nat, \A y \in Nat : id[y] < id[k] => y \in T PROVE k \in T
  <2>1. CASE k <= j
    BY <2>1
  <2>2. CASE k > j /\ k <= Known
    <3>1. k - 1 \in T /\ k - 1 >= j /\ k \in 1 .. Known /\ k \in j + 1 .. Known
      BY <1>2, <1>3, <2>2
    <3>2. sender.sig[k] \in Param /\ sender.vals[k] \in ArgValues(sender.sig[k])
      BY <1>1, <1>2, <1>a, <3>1, ElementOfSeq DEF Fits
    <3>3. pack_arg(sender.by, sender.sig[k], sender.vals[k]) = <<>>
      BY <3>1, <3>2, PackArgIs DEF Dropped
    <3>4. SentUpto(k) = SentUpto(k - 1) + Len(<<>>)
      BY <1>1, <1>a, <3>1, <3>3, PackedOffsets DEF SentUpto
    <3>5. End(k) = SentUpto(k) /\ End(k - 1) = SentUpto(k - 1)
      BY <1>2, <3>1 DEF End
    <3>6. End(k - 1) \in Nat
      BY <1>b, <3>1
    <3>7. End(k) = End(k - 1)
      BY <3>4, <3>5, <3>6
    <3> QED BY <3>1, <3>7
  <2>3. CASE k > j /\ k > Known
    <3>1. k - 1 \in T /\ k - 1 \in Nat /\ k - 1 >= j /\ k - 1 >= Known /\ k >= Known
      BY <1>2, <1>3, <2>3
    <3>2. End(k) = Len(data) /\ End(k - 1) = Len(data)
      BY <1>c, <3>1
    <3> QED BY <3>1, <3>2
  <2> QED BY <1>2, <2>1, <2>2, <2>3
<1>4. id \in [Nat -> Nat]
  OBVIOUS
<1>5. \A k \in Nat : k \in T
  <2> HIDE DEF id, T
  <2> QED BY <1>3, <1>4, MeasureInduction
<1>6. CASE j >= Known
  BY <1>c, <1>6
<1>7. CASE j < Known
  <2>1. Known \in T
    <3> HIDE DEF T
    <3> QED BY <1>2, <1>5
  <2>2. End(Known) = End(j)
    BY <1>2, <1>7, <2>1
  <2> QED BY <1>2, <1>c, <2>2
<1> QED BY <1>2, <1>6, <1>7

\* ds >> the next argument.
LEMMA UnpackArgIs ==
  ASSUME IsSent, IsEntered, NEW a \in 0 .. Len(handler.sig), NEW j \in 0 .. a,
         Unpacked(a, j), a < Len(handler.sig)
  PROVE  LET p == handler.sig[a + 1] IN
         \/ p.wrap = "ignore" /\ unpack_arg(p) = Got(End(j), Arrived(a + 1))
         \/ /\ p.wrap # "ignore" /\ j = a
            /\ unpack_arg(p) = Got(End(a + 1), Arrived(a + 1))
            /\ a + 1 > Known => p.wrap = "extension"
         \/ unpack_arg(p) = Fail /\ a + 1 > Known
<1> DEFINE p == handler.sig[a + 1]
<1>1. /\ data \in Seq(Bytes) /\ Len(data) \in Nat /\ Known \in Nat
      /\ \A k \in Nat : End(k) \in 0 .. Len(data)
      /\ \A k \in Nat : k >= Known => End(k) = Len(data)
  BY EndFacts
<1>2. /\ handler.sig \in Seq(Param) /\ Len(handler.sig) \in Nat
      /\ a + 1 \in 1 .. Len(handler.sig) /\ a \in Nat /\ a + 1 \in Nat
  BY LenProperties DEF IsEntered
<1>3. p \in Param /\ p.type \in Types
  <2>1. p \in Param
    BY <1>2, ElementOfSeq
  <2> HIDE DEF p
  <2> QED BY <2>1 DEF Param
<1>x. \A i \in 1 .. Len(handler.sig) : i <= Known => handler.sig[i] = sender.sig[i]
  BY DEF IsEntered
<1>4. pos = End(j)
  BY DEF Unpacked
<1>5. CASE p.wrap = "ignore"
  BY <1>4, <1>5 DEF unpack_arg, Arrived
<1>6. CASE p.wrap # "ignore"
  <2>1. j = a
    <3> SUFFICES ASSUME j # a PROVE FALSE
      OBVIOUS
    <3>1. a \in j + 1 .. a /\ a \in DOMAIN handler.sig /\ a + 1 \in DOMAIN handler.sig
      BY <1>2
    <3>2. handler.sig[a].wrap = "ignore"
      BY <3>1 DEF Unpacked, Split
    <3>3. a < a + 1
      BY <1>2
    <3> QED BY <1>6, <3>1, <3>2, <3>3 DEF IsEntered, IgnoresLast
  <2>2. CASE a + 1 <= Known
    <3>1. p = sender.sig[a + 1] /\ a + 1 \in 1 .. Known /\ (a + 1) - 1 = a
      <4>1. a + 1 \in 1 .. Known /\ (a + 1) - 1 = a
        BY <1>1, <1>2, <2>2
      <4> QED BY <1>x, <1>2, <2>2, <4>1
    <3> DEFINE v == sender.vals[a + 1]
               r == Read(p.type, data, pos)
    <3>2. r = Got(End(a + 1), Meant(p, v)) /\ pos < Len(data)
      <4>1. ~Dropped(sender.by, sender.sig[a + 1])
        BY <1>6, <3>1 DEF Dropped
      <4> QED BY <1>4, <2>1, <3>1, <4>1, ReadSent
    <3>3. v \in ArgValues(p)
      BY <3>1 DEF IsSent, Fits, Known
    <3>4. r.ok /\ r.pos = End(a + 1) /\ r.val = Meant(p, v)
      BY <3>2 DEF Got
    <3>5. Arrived(a + 1) = IF p.wrap = "extension" /\ v = Empty THEN <<Default(p.type)>> ELSE v
      BY <1>1, <1>2, <1>6, <2>2 DEF Arrived
    <3>6. CASE p.wrap = "plain"
      <4>1. unpack_arg(p) = r
        BY <3>6 DEF unpack_arg
      <4>2. Meant(p, v) = v
        BY <3>6 DEF Meant
      <4> QED BY <1>6, <2>1, <2>2, <3>2, <3>5, <3>6, <4>1, <4>2, <1>1, <1>2
    <3>7. CASE p.wrap = "extension"
      <4>1. pos \in Nat /\ ~(Len(data) - pos = 0)
        BY <1>1, <1>2, <1>4, <2>1, <3>2
      <4>2. unpack_arg(p) = Got(r.pos, <<r.val>>)
        BY <3>4, <3>7, <4>1 DEF unpack_arg
      <4>3. CASE v = Empty
        <5>1. Meant(p, v) = Default(p.type)
          BY <3>7, <4>3 DEF Meant
        <5>2. unpack_arg(p) = Got(End(a + 1), Arrived(a + 1))
          BY <3>4, <3>5, <3>7, <4>2, <4>3, <5>1
        <5> QED BY <1>6, <2>1, <3>7, <5>2
      <4>4. CASE v # Empty
        <5>1. v = <<Meant(p, v)>>
          BY <1>3, <3>3, <3>7, <4>4, MeantTyped
        <5>2. unpack_arg(p) = Got(End(a + 1), Arrived(a + 1))
          BY <3>4, <3>5, <4>2, <4>4, <5>1
        <5> QED BY <1>6, <2>1, <3>7, <5>2
      <4> QED BY <4>3, <4>4
    <3> QED BY <1>3, <1>6, <3>6, <3>7 DEF Param
  <2>3. CASE a + 1 > Known
    <3>1. pos = Len(data) /\ End(a + 1) = Len(data)
      BY <1>1, <1>2, <1>4, <2>1, <2>3
    <3>2. CASE p.wrap = "plain"
      <4>1. unpack_arg(p) = Read(p.type, data, Len(data))
        BY <3>1, <3>2 DEF unpack_arg
      <4> QED BY <1>1, <1>3, <2>3, <4>1, PastEnd
    <3>3. CASE p.wrap = "extension"
      <4>1. Len(data) - pos = 0
        BY <1>1, <3>1
      <4>2. unpack_arg(p) = Got(pos, Empty)
        BY <3>3, <4>1 DEF unpack_arg
      <4>3. Arrived(a + 1) = Empty
        BY <1>1, <1>2, <1>6, <2>3 DEF Arrived
      <4> QED BY <2>1, <3>1, <3>3, <4>2, <4>3
    <3> QED BY <1>3, <1>6, <3>2, <3>3 DEF Param
  <2> QED BY <1>1, <1>2, <2>2, <2>3
<1> QED BY <1>5, <1>6

LEMMA VersionFacts ==
  ASSUME NEW s \in Signatures, NEW w \in Versions(s)
  PROVE  /\ w \in Seq(Param) /\ IgnoresLast(w) /\ Len(w) \in Nat
         /\ \A i \in 1 .. Len(w) : w[i] = s[i]
<1>1. s \in Seq(Param) /\ IgnoresLast(s)
  BY ActionDataAssumption DEF Param
<1>2. Len(s) \in Nat
  BY <1>1, LenProperties
<1>3. PICK n \in 0 .. Len(s) : w = SubSeq(s, 1, n)
  BY DEF Versions
<1>4. w \in Seq(Param) /\ Len(w) = n /\ \A i \in 1 .. n : w[i] = s[i]
  BY <1>1, <1>2, <1>3
<1>5. DOMAIN w = 1 .. n /\ DOMAIN s = 1 .. Len(s)
  BY <1>1, <1>4, LenProperties
<1>6. ASSUME NEW i \in DOMAIN w, NEW j \in DOMAIN w, i < j, w[i].wrap = "ignore"
      PROVE  w[j].wrap = "ignore"
  <2>1. i \in DOMAIN s /\ j \in DOMAIN s /\ w[i] = s[i] /\ w[j] = s[j]
    BY <1>2, <1>4, <1>5
  <2> QED BY <1>1, <1>6, <2>1 DEF IgnoresLast
<1>7. IgnoresLast(w)
  BY <1>6 DEF IgnoresLast
<1> QED BY <1>2, <1>4, <1>7

\* The ignored parameters are the last ones.
LEMMA IgnoredAre ==
  ASSUME NEW sig \in Seq(Param), NEW j \in 0 .. Len(sig),
         \A i \in 1 .. j : sig[i].wrap # "ignore",
         \A i \in j + 1 .. Len(sig) : sig[i].wrap = "ignore"
  PROVE  /\ IgnoredParams(sig) = j + 1 .. Len(sig)
         /\ Cardinality(IgnoredParams(sig)) = Len(sig) - j
         /\ \A i \in j + 1 .. Len(sig) :
              Cardinality({x \in IgnoredParams(sig) : x < i}) = i - (j + 1)
<1>1. Len(sig) \in Nat /\ DOMAIN sig = 1 .. Len(sig)
  BY LenProperties
<1> DEFINE N == Len(sig)
<1>2. IgnoredParams(sig) = j + 1 .. N
  <2>1. ASSUME NEW i \in 1 .. N PROVE sig[i].wrap = "ignore" <=> i \in j + 1 .. N
    <3>1. CASE i <= j
      BY <1>1, <3>1
    <3>2. CASE i > j
      BY <1>1, <3>2
    <3> QED BY <1>1, <3>1, <3>2
  <2>2. \A i \in j + 1 .. N : i \in 1 .. N
    BY <1>1
  <2> HIDE DEF N
  <2> QED BY <1>1, <2>1, <2>2 DEF IgnoredParams, N
<1> HIDE DEF N
<1>3. Cardinality(j + 1 .. N) = N - j
  <2>1. j + 1 \in Int /\ N \in Int /\ j <= N /\ j \in Nat
    BY <1>1 DEF N
  <2>2. Cardinality(j + 1 .. N) = IF j + 1 > N THEN 0 ELSE N - (j + 1) + 1
    BY <2>1, FS_Interval
  <2> QED BY <2>1, <2>2
<1>4. ASSUME NEW i \in j + 1 .. N
      PROVE  Cardinality({x \in j + 1 .. N : x < i}) = i - (j + 1)
  <2>1. j + 1 \in Int /\ i - 1 \in Int /\ j + 1 <= i /\ i <= N /\ j \in Nat /\ N \in Nat /\ i \in Nat
    BY <1>1 DEF N
  <2>2. {x \in j + 1 .. N : x < i} = j + 1 .. i - 1
    BY <2>1
  <2>3. Cardinality(j + 1 .. i - 1) = IF j + 1 > i - 1 THEN 0 ELSE (i - 1) - (j + 1) + 1
    BY <2>1, FS_Interval
  <2>4. Cardinality(j + 1 .. i - 1) = i - (j + 1)
    BY <2>1, <2>3
  <2> QED BY <2>2, <2>4
<1> QED BY <1>2, <1>3, <1>4 DEF N

\* get_datastream() >> the next ignored parameter.
LEMMA ReadIgnoredIs ==
  ASSUME IsSent, IsEntered, NEW j \in 0 .. Len(handler.sig),
         NEW k \in 0 .. Len(handler.sig) - j, Reading(j, k),
         NEW i, i = j + k + 1, i <= Len(handler.sig)
  PROVE  LET r == Read(handler.sig[i].type, data, _ds) IN
         \/ /\ i <= Known /\ sender.by = "action_wrapper"
            /\ r = Got(End(i), sender.vals[i])
         \/ r = Fail /\ (i > Known \/ sender.by = "inline")
<1> DEFINE p == handler.sig[i]
<1>1. data \in Seq(Bytes) /\ Len(data) \in Nat
  BY EndFacts
<1>2. Known \in Nat
  BY EndFacts
<1>3. \A n \in Nat : n >= Known => End(n) = Len(data)
  BY EndFacts
<1>4. handler.sig \in Seq(Param) /\ Len(handler.sig) \in Nat
  BY LenProperties DEF IsEntered
<1>5. /\ i \in 1 .. Len(handler.sig) /\ i \in j + 1 .. Len(handler.sig) /\ i \in Nat
      /\ j + k = i - 1 /\ j \in Nat /\ k \in Nat
  BY <1>4
<1>6. p \in Param /\ p.wrap = "ignore"
  BY <1>4, <1>5, ElementOfSeq DEF Reading, Split
<1>7. p.type \in Types
  <2> HIDE DEF p
  <2> QED BY <1>6 DEF Param
<1>8. _ds = End(i - 1)
  BY <1>5 DEF Reading
<1>9. \A n \in 1 .. Len(handler.sig) : n <= Known => handler.sig[n] = sender.sig[n]
  BY DEF IsEntered
<1>10. CASE i > Known
  <2>1. _ds = Len(data)
    BY <1>2, <1>3, <1>5, <1>8, <1>10
  <2> QED BY <1>1, <1>7, <1>10, <2>1, PastEnd
<1>11. CASE i <= Known /\ sender.by = "action_wrapper"
  <2>1. i \in 1 .. Known /\ p = sender.sig[i]
    BY <1>2, <1>5, <1>9, <1>11
  <2>2. ~Dropped(sender.by, sender.sig[i])
    BY <1>11 DEF Dropped
  <2>3. Meant(p, sender.vals[i]) = sender.vals[i]
    BY <1>6 DEF Meant
  <2> QED BY <1>8, <1>11, <2>1, <2>2, <2>3, ReadSent
<1>12. CASE i <= Known /\ sender.by # "action_wrapper"
  <2>1. k = 0 /\ i = j + 1 /\ _ds = End(j)
    BY <1>5, <1>8, <1>12 DEF Reading
  <2>2. ASSUME NEW n \in j + 1 .. Known PROVE sender.sig[n].wrap = "ignore"
    <3>1. sender.sig[i].wrap = "ignore"
      BY <1>5, <1>6, <1>9, <1>12
    <3>2. n \in DOMAIN sender.sig /\ i \in DOMAIN sender.sig
      <4>1. n \in 1 .. Known /\ i \in 1 .. Known
        BY <1>2, <1>5, <1>12
      <4>2. DOMAIN sender.sig = 1 .. Known
        BY LenProperties DEF IsSent, Fits, Known
      <4> QED BY <4>1, <4>2
    <3>3. n = i \/ i < n
      BY <1>2, <1>5, <2>1
    <3> QED BY <3>1, <3>2, <3>3 DEF IsSent, IgnoresLast
  <2>3. End(j) = Len(data)
    BY <1>5, <1>12, <2>2, NothingPacked
  <2>4. sender.by = "inline"
    BY <1>12 DEF IsSent
  <2> QED BY <1>1, <1>7, <2>1, <2>3, <2>4, PastEnd
<1> QED BY <1>2, <1>5, <1>10, <1>11, <1>12

\* The invariant's parts are about the sender, the handler and the data.
LEMMA Frame ==
  ASSUME sender' = sender, data' = data, handler' = handler
  PROVE  /\ IsSent => IsSent'
         /\ Known' = Known
         /\ \A k : End(k)' = End(k)
         /\ \A i : Arrived(i)' = Arrived(i)
         /\ \A j, n : Split(j, n) => Split(j, n)'
<1>1. Known' = Known
  BY DEF Known
<1>2. \A k : End(k)' = End(k)
  BY <1>1 DEF End, SentUpto
<1>3. \A i : Arrived(i)' = Arrived(i)
  BY <1>1 DEF Arrived
<1>4. \A j, n : Split(j, n) => Split(j, n)'
  BY DEF Split
<1>5. IsSent => IsSent'
  BY DEF IsSent
<1> QED BY <1>1, <1>2, <1>3, <1>4, <1>5

-----------------------------------------------------------------------------
(***************************************************************************)
(* Every action keeps the invariant.                                       *)
(***************************************************************************)
\* One more element of a sequence given by its elements.
LEMMA AppendNext ==
  ASSUME NEW a \in Nat, NEW f, DOMAIN f = 1 .. a + 1
  PROVE  Append([i \in 1 .. a |-> f[i]], f[a + 1]) = [i \in 1 .. a + 1 |-> f[i]]
<1> DEFINE S == {f[i] : i \in 1 .. a + 1}
           s == [i \in 1 .. a |-> f[i]]
           t == [i \in 1 .. a + 1 |-> f[i]]
<1>1. s \in Seq(S) /\ Len(s) = a /\ f[a + 1] \in S
  <2>1. f[a + 1] \in S /\ \A i \in 1 .. a : f[i] \in S
    OBVIOUS
  <2> HIDE DEF S
  <2>2. s \in [1 .. a -> S]
    BY <2>1
  <2> QED BY <2>1, <2>2
<1>2. t \in Seq(S) /\ Len(t) = a + 1
  BY SeqDef
<1> HIDE DEF S
<1>3. /\ Append(s, f[a + 1]) \in Seq(S) /\ Len(Append(s, f[a + 1])) = a + 1
      /\ \A i \in 1 .. a : Append(s, f[a + 1])[i] = s[i]
      /\ Append(s, f[a + 1])[a + 1] = f[a + 1]
  BY <1>1, AppendProperties
<1>4. ASSUME NEW i \in 1 .. a + 1 PROVE Append(s, f[a + 1])[i] = t[i]
  BY <1>3
<1> QED BY <1>2, <1>3, <1>4, SeqEqual

LEMMA SendKeeps ==
  ASSUME IInv, NEW s \in Signatures, NEW sig \in Versions(s),
         NEW by \in {"action_wrapper", "inline"}, NEW vals \in Calls(sig), Send(by, sig, vals)
  PROVE  IInv'
<1>1. sig \in Seq(Param) /\ IgnoresLast(sig)
  BY VersionFacts
<1>2. Fits(sig, vals)
  BY <1>1, CallsFit
<1>3. /\ phase = "idle" /\ phase' = "sent"
      /\ sender' = [by |-> by, sig |-> sig, vals |-> vals]
      /\ data' = pack(by, sig, vals)
      /\ UNCHANGED <<handler, buffer, pos, args, _ds, seen>>
  BY DEF Send
<1>4. sender'.by = by /\ sender'.sig = sig /\ sender'.vals = vals
  BY <1>3
<1>5. IsSent'
  BY <1>1, <1>2, <1>3, <1>4 DEF IsSent
<1> QED BY <1>3, <1>5 DEF IInv, Untouched

LEMMA EnterKeeps ==
  ASSUME IInv, NEW s \in Signatures, NEW way \in Ways, NEW sig \in Versions(s),
         sender.sig \in Versions(s), Enter(way, sig)
  PROVE  IInv'
<1>1. /\ phase = "sent" /\ phase' = "unpack" /\ handler' = [way |-> way, sig |-> sig]
      /\ buffer' = [buffer EXCEPT !.at = Place(way, Len(data))]
      /\ UNCHANGED <<sender, data, pos, args, _ds, seen>>
  BY DEF Enter
<1>2. /\ IsSent /\ buffer = [at |-> "null", freed |-> "none"] /\ pos = 0 /\ args = <<>>
      /\ Untouched
  BY <1>1 DEF IInv
<1>3. /\ sig \in Seq(Param) /\ IgnoresLast(sig) /\ Len(sig) \in Nat
      /\ \A i \in 1 .. Len(sig) : sig[i] = s[i]
  BY VersionFacts
<1>4. Len(sender.sig) \in Nat /\ \A i \in 1 .. Len(sender.sig) : sender.sig[i] = s[i]
  BY VersionFacts
<1>5. handler'.way = way /\ handler'.sig = sig
  BY <1>1
<1>6. Known' = Known /\ Known = Len(sender.sig)
  BY <1>1 DEF Known
<1>7. IsSent'
  BY <1>1, <1>2 DEF IsSent
<1>8. IsEntered'
  <2>1. \A i \in 1 .. Len(sig) : i <= Known => sig[i] = sender.sig[i]
    BY <1>3, <1>4, <1>6
  <2>2. buffer' = [at |-> Place(way, Len(data)), freed |-> "none"]
    BY <1>1, <1>2
  <2> QED BY <1>1, <1>3, <1>5, <1>6, <2>1, <2>2 DEF IsEntered
<1>9. IsUnpacked'
  <2>1. End(0)' = 0
    BY <1>7, EndFacts, <1>1, <1>2, <1>6 DEF End, SentUpto
  <2>2. Unpacked(0, 0)'
    BY <1>1, <1>2, <2>1 DEF Unpacked, Split
  <2> QED BY <1>3, <1>5, <2>2 DEF IsUnpacked
<1> QED BY <1>1, <1>2, <1>7, <1>8, <1>9 DEF IInv, Untouched

LEMMA UnpackKeeps ==
  ASSUME IInv, Unpack
  PROVE  IInv'
<1> DEFINE N == Len(handler.sig)
           p == handler.sig[Len(args) + 1]
           v == unpack_arg(p)
<1>1. /\ phase = "unpack" /\ MoreArgs
      /\ UNCHANGED <<sender, data, handler, buffer, _ds, seen>>
      /\ v.ok => args' = Append(args, v.val) /\ pos' = v.pos /\ phase' = phase
      /\ ~v.ok => phase' = "aborted" /\ args' = args /\ pos' = pos
  BY DEF Unpack
<1>2. IsSent /\ IsEntered /\ Untouched
  BY <1>1 DEF IInv
<1>3. PICK a \in 0 .. N : \E j \in 0 .. a : Unpacked(a, j)
  BY <1>1 DEF IInv, IsUnpacked
<1>4. PICK j \in 0 .. a : Unpacked(a, j)
  BY <1>3
<1>5. N \in Nat /\ a \in Nat /\ j \in Nat
  BY <1>2, LenProperties DEF IsEntered
<1>6. /\ Split(j, a) /\ pos = End(j) /\ args = [i \in 1 .. a |-> Arrived(i)]
      /\ \A i \in 1 .. j : i > Known => handler.sig[i].wrap = "extension"
  BY <1>4 DEF Unpacked
<1>7. Len(args) = a
  BY <1>5, <1>6
<1>8. a < N /\ p = handler.sig[a + 1]
  BY <1>1, <1>7 DEF MoreArgs
<1>9. /\ IsSent' /\ Known' = Known /\ \A k : End(k)' = End(k)
      /\ \A i : Arrived(i)' = Arrived(i)
      /\ \A x, y : Split(x, y) => Split(x, y)'
  BY <1>1, <1>2, Frame
<1>10. phase' \in {"unpack", "aborted"}
  BY <1>1
<1>11. IsEntered'
  BY <1>1, <1>2, <1>9, <1>10 DEF IsEntered
<1>12. Untouched'
  BY <1>1, <1>2 DEF Untouched
<1>13. /\ \A n \in Nat : Got(n, Arrived(a + 1)).ok /\ Got(n, Arrived(a + 1)).pos = n
                         /\ Got(n, Arrived(a + 1)).val = Arrived(a + 1)
       /\ ~Fail.ok
  BY FailedNotOk DEF Got
<1>14. Append(args, Arrived(a + 1)) = [i \in 1 .. a + 1 |-> Arrived(i)]
  <2> DEFINE f == [i \in 1 .. a + 1 |-> Arrived(i)]
  <2>1. DOMAIN f = 1 .. a + 1 /\ \A i \in 1 .. a + 1 : f[i] = Arrived(i)
    OBVIOUS
  <2>2. args = [i \in 1 .. a |-> f[i]] /\ f[a + 1] = Arrived(a + 1) /\ f = [i \in 1 .. a + 1 |-> f[i]]
    BY <1>5, <1>6
  <2> HIDE DEF f
  <2>3. Append([i \in 1 .. a |-> f[i]], f[a + 1]) = [i \in 1 .. a + 1 |-> f[i]]
    BY <1>5, <2>1, AppendNext
  <2>4. Append(args, Arrived(a + 1)) = f
    BY <2>2, <2>3
  <2> QED BY <2>4 DEF f
<1>15. ASSUME NEW b \in 0 .. a + 1, v = Got(End(b), Arrived(a + 1)), Split(b, a + 1),
              \A i \in 1 .. b : i > Known => handler.sig[i].wrap = "extension"
       PROVE  IInv'
  <2>0. v.ok /\ v.pos = End(b) /\ v.val = Arrived(a + 1)
    BY <1>15 DEF Got
  <2>1. args' = [i \in 1 .. a + 1 |-> Arrived(i)] /\ pos' = End(b) /\ phase' = "unpack"
    BY <1>1, <1>14, <2>0
  <2>2. Unpacked(a + 1, b)'
    BY <1>1, <1>9, <1>15, <2>1 DEF Unpacked
  <2>3. a + 1 \in 0 .. Len(handler'.sig)
    BY <1>1, <1>5, <1>8
  <2>4. IsUnpacked'
    BY <2>2, <2>3 DEF IsUnpacked
  <2> QED BY <1>9, <1>11, <1>12, <2>1, <2>4 DEF IInv
<1>16. ASSUME v = Fail, a + 1 > Known
       PROVE  IInv'
  <2>1. phase' = "aborted" /\ args' = args /\ pos' = pos
    BY <1>1, <1>13, <1>16
  <2>2. Unpacked(a, j)'
    BY <1>1, <1>6, <1>9, <2>1 DEF Unpacked
  <2>3. IsUnpacked'
    BY <1>1, <2>2 DEF IsUnpacked
  <2>4. Known \in Nat
    BY <1>2, EndFacts
  <2>5. ~Complete'
    BY <1>1, <1>5, <1>8, <1>9, <1>16, <2>4 DEF Complete
  <2> QED BY <1>9, <1>11, <1>12, <2>1, <2>3, <2>5 DEF IInv, CompleteCallSucceeds
<1>17. \/ p.wrap = "ignore" /\ v = Got(End(j), Arrived(a + 1))
       \/ /\ p.wrap # "ignore" /\ j = a
          /\ v = Got(End(a + 1), Arrived(a + 1))
          /\ a + 1 > Known => p.wrap = "extension"
       \/ v = Fail /\ a + 1 > Known
  BY <1>2, <1>4, <1>8, UnpackArgIs
<1> HIDE DEF v
<1>18. CASE p.wrap = "ignore" /\ v = Got(End(j), Arrived(a + 1))
  <2>1. Split(j, a + 1)
    BY <1>5, <1>6, <1>8, <1>18 DEF Split
  <2>2. j \in 0 .. a + 1
    BY <1>5
  <2> QED BY <1>6, <1>15, <1>18, <2>1, <2>2
<1>19. CASE /\ p.wrap # "ignore" /\ j = a /\ v = Got(End(a + 1), Arrived(a + 1))
            /\ a + 1 > Known => p.wrap = "extension"
  <2>1. Split(a + 1, a + 1)
    BY <1>5, <1>6, <1>8, <1>19 DEF Split
  <2>2. \A i \in 1 .. a + 1 : i > Known => handler.sig[i].wrap = "extension"
    BY <1>5, <1>6, <1>8, <1>19
  <2>3. a + 1 \in 0 .. a + 1
    BY <1>5
  <2> QED BY <1>15, <1>19, <2>1, <2>2, <2>3
<1> QED BY <1>16, <1>17, <1>18, <1>19

LEMMA ConstructKeeps ==
  ASSUME IInv, Construct
  PROVE  IInv'
<1> DEFINE N == Len(handler.sig)
<1>1. /\ phase = "unpack" /\ ~MoreArgs /\ phase' = "handle" /\ _ds' = pos
      /\ UNCHANGED <<sender, data, handler, buffer, pos, args, seen>>
  BY DEF Construct
<1>2. IsSent /\ IsEntered /\ Untouched
  BY <1>1 DEF IInv
<1>3. PICK a \in 0 .. N : \E j \in 0 .. a : Unpacked(a, j)
  BY <1>1 DEF IInv, IsUnpacked
<1>4. PICK j \in 0 .. a : Unpacked(a, j)
  BY <1>3
<1>5. N \in Nat /\ a \in Nat /\ j \in Nat
  BY <1>2, LenProperties DEF IsEntered
<1>6. /\ Split(j, a) /\ pos = End(j) /\ args = [i \in 1 .. a |-> Arrived(i)]
      /\ \A i \in 1 .. j : i > Known => handler.sig[i].wrap = "extension"
  BY <1>4 DEF Unpacked
<1>7. Len(args) = a
  BY <1>5, <1>6
<1>8. a = N
  BY <1>1, <1>5, <1>7 DEF MoreArgs
<1>9. /\ IsSent' /\ Known' = Known /\ \A k : End(k)' = End(k)
      /\ \A i : Arrived(i)' = Arrived(i)
      /\ \A x, y : Split(x, y) => Split(x, y)'
  BY <1>1, <1>2, Frame
<1>10. IsEntered'
  BY <1>1, <1>2, <1>9 DEF IsEntered
<1>11. IsUnpacked'
  <2>1. Unpacked(a, j)'
    BY <1>1, <1>6, <1>9 DEF Unpacked
  <2> QED BY <1>1, <2>1 DEF IsUnpacked
<1>12. IsReading'
  <2>1. seen = <<>> /\ seen' = seen
    BY <1>1, <1>2 DEF Untouched
  <2>2. _ds' = End(j) /\ j + 0 = j
    BY <1>1, <1>5, <1>6
  <2>3. Split(j, Len(handler.sig))'
    BY <1>1, <1>6, <1>8, <1>9
  <2>4. _ds' = End(j + 0)'
    BY <1>9, <2>2
  <2>5. seen' = [n \in 1 .. 0 |-> [at |-> j + n, val |-> sender'.vals[j + n]]]
    BY <2>1
  <2>6. Reading(j, 0)'
    BY <2>3, <2>4, <2>5 DEF Reading
  <2>7. j \in 0 .. Len(handler'.sig) /\ 0 \in 0 .. Len(handler'.sig) - j
    BY <1>1, <1>5, <1>8
  <2> QED BY <2>6, <2>7 DEF IsReading
<1>13. ~MoreArgs'
  BY <1>1 DEF MoreArgs
<1> QED BY <1>1, <1>9, <1>10, <1>11, <1>12, <1>13 DEF IInv

LEMMA ReadIgnoredKeeps ==
  ASSUME IInv, ReadIgnored
  PROVE  IInv'
<1> DEFINE N == Len(handler.sig)
<1>1. phase = "handle" /\ UNCHANGED <<sender, data, handler, buffer, pos, args>>
  BY DEF ReadIgnored
<1>2. IsSent /\ IsEntered /\ IsUnpacked /\ ~MoreArgs /\ IsReading
  BY <1>1 DEF IInv
<1>3. PICK j \in 0 .. N : \E k \in 0 .. N - j : Reading(j, k)
  BY <1>2 DEF IsReading
<1>4. PICK k \in 0 .. N - j : Reading(j, k)
  BY <1>3
<1>5. N \in Nat /\ j \in Nat /\ k \in Nat /\ handler.sig \in Seq(Param)
  BY <1>2, LenProperties DEF IsEntered
<1> DEFINE Saw(n) == [at |-> j + n, val |-> sender.vals[j + n]]
<1>6. /\ Split(j, N) /\ _ds = End(j + k) /\ seen = [n \in 1 .. k |-> Saw(n)]
      /\ k > 0 => sender.by = "action_wrapper" /\ j + k <= Known
  BY <1>4 DEF Reading
<1>7. Len(seen) = k
  BY <1>5, <1>6
<1>8. PICK i \in IgnoredParams(handler.sig) :
        /\ Cardinality({x \in IgnoredParams(handler.sig) : x < i}) = Len(seen)
        /\ LET v == Read(handler.sig[i].type, data, _ds)
           IN IF v.ok THEN seen' = Append(seen, [at |-> i, val |-> v.val]) /\ _ds' = v.pos
                           /\ UNCHANGED phase
                      ELSE phase' = "aborted" /\ UNCHANGED <<seen, _ds>>
  BY DEF ReadIgnored
<1> DEFINE v == Read(handler.sig[i].type, data, _ds)
<1>9. IgnoredParams(handler.sig) = j + 1 .. N
      /\ \A n \in j + 1 .. N :
           Cardinality({x \in IgnoredParams(handler.sig) : x < n}) = n - (j + 1)
  BY <1>5, <1>6, IgnoredAre DEF Split
<1>10. i = j + k + 1 /\ i <= N /\ i \in Nat /\ i = j + (k + 1)
  <2>1. i \in j + 1 .. N /\ i - (j + 1) = k
    BY <1>7, <1>8, <1>9
  <2> QED BY <1>5, <2>1
<1>11. \/ i <= Known /\ sender.by = "action_wrapper" /\ v = Got(End(i), sender.vals[i])
       \/ v = Fail /\ (i > Known \/ sender.by = "inline")
  BY <1>2, <1>4, <1>10, ReadIgnoredIs
<1>12. /\ v.ok => seen' = Append(seen, [at |-> i, val |-> v.val]) /\ _ds' = v.pos
                  /\ phase' = phase
       /\ ~v.ok => phase' = "aborted" /\ seen' = seen /\ _ds' = _ds
  BY <1>8
<1> HIDE DEF v
<1>13. /\ IsSent' /\ Known' = Known /\ \A n : End(n)' = End(n)
       /\ \A x : Arrived(x)' = Arrived(x)
       /\ \A x, y : Split(x, y) => Split(x, y)'
  BY <1>1, <1>2, Frame
<1>14. phase' \in {"handle", "aborted"}
  BY <1>1, <1>12
<1>15. IsEntered'
  BY <1>1, <1>2, <1>13, <1>14 DEF IsEntered
<1>16. IsUnpacked'
  <2>1. PICK a \in 0 .. N : \E b \in 0 .. a : Unpacked(a, b)
    BY <1>2 DEF IsUnpacked
  <2>2. PICK b \in 0 .. a : Unpacked(a, b)
    BY <2>1
  <2>3. Unpacked(a, b)'
    BY <1>1, <1>13, <2>2 DEF Unpacked
  <2> QED BY <1>1, <2>3 DEF IsUnpacked
<1>17. ~MoreArgs'
  BY <1>1, <1>2 DEF MoreArgs
<1>18. CASE i <= Known /\ sender.by = "action_wrapper" /\ v = Got(End(i), sender.vals[i])
  <2>1. v.ok /\ v.pos = End(i) /\ v.val = sender.vals[i]
    BY <1>18 DEF Got
  <2>2. seen' = Append(seen, Saw(k + 1)) /\ _ds' = End(i) /\ phase' = "handle"
    BY <1>1, <1>10, <1>12, <2>1
  <2>3. Append(seen, Saw(k + 1)) = [n \in 1 .. k + 1 |-> Saw(n)]
    <3> DEFINE f == [n \in 1 .. k + 1 |-> Saw(n)]
    <3>1. DOMAIN f = 1 .. k + 1 /\ \A n \in 1 .. k + 1 : f[n] = Saw(n)
      OBVIOUS
    <3> HIDE DEF Saw
    <3>2. seen = [n \in 1 .. k |-> f[n]] /\ f[k + 1] = Saw(k + 1) /\ f = [n \in 1 .. k + 1 |-> f[n]]
      BY <1>5, <1>6
    <3> HIDE DEF f
    <3>3. Append([n \in 1 .. k |-> f[n]], f[k + 1]) = [n \in 1 .. k + 1 |-> f[n]]
      BY <1>5, <3>1, AppendNext
    <3>4. Append(seen, Saw(k + 1)) = f
      BY <3>2, <3>3
    <3> QED BY <3>4 DEF f
  <2>4. _ds' = End(j + (k + 1))'
    BY <1>10, <1>13, <2>2
  <2>5. seen' = [n \in 1 .. k + 1 |-> [at |-> j + n, val |-> sender'.vals[j + n]]]
    BY <1>1, <2>2, <2>3
  <2>6. Split(j, Len(handler.sig))'
    BY <1>1, <1>6, <1>13
  <2>7. sender'.by = "action_wrapper" /\ j + (k + 1) <= Known'
    BY <1>1, <1>10, <1>13, <1>18
  <2>8. Reading(j, k + 1)'
    BY <2>4, <2>5, <2>6, <2>7 DEF Reading
  <2>9. j \in 0 .. Len(handler'.sig) /\ k + 1 \in 0 .. Len(handler'.sig) - j
    BY <1>1, <1>5, <1>10
  <2>10. IsReading'
    BY <2>8, <2>9 DEF IsReading
  <2> QED BY <1>13, <1>15, <1>16, <1>17, <2>2, <2>10 DEF IInv
<1>19. CASE v = Fail /\ (i > Known \/ sender.by = "inline")
  <2>1. phase' = "aborted" /\ seen' = seen /\ _ds' = _ds
    BY <1>12, <1>19, FailedNotOk
  <2>2. Reading(j, k)'
    <3>1. Split(j, Len(handler.sig))'
      BY <1>1, <1>6, <1>13
    <3>2. _ds' = End(j + k)'
      BY <1>6, <1>13, <2>1
    <3>3. seen' = [n \in 1 .. k |-> [at |-> j + n, val |-> sender'.vals[j + n]]]
      BY <1>1, <1>6, <2>1
    <3>4. k > 0 => sender'.by = "action_wrapper" /\ j + k <= Known'
      BY <1>1, <1>6, <1>13
    <3> QED BY <3>1, <3>2, <3>3, <3>4 DEF Reading
  <2>3. IsReading'
    BY <1>1, <2>2 DEF IsReading
  <2>4. Known \in Nat
    BY <1>2, EndFacts
  <2>5. CompleteCallSucceeds'
    <3>1. IgnoredParams(handler.sig)' # {}
      BY <1>1, <1>8
    <3>2. i > Known => ~Complete'
      BY <1>1, <1>5, <1>10, <1>13, <2>4 DEF Complete
    <3> QED BY <1>1, <1>19, <3>1, <3>2 DEF CompleteCallSucceeds
  <2> QED BY <1>13, <1>15, <1>16, <2>1, <2>3, <2>5 DEF IInv
<1> QED BY <1>11, <1>18, <1>19

LEMMA ReturnKeeps ==
  ASSUME IInv, Return
  PROVE  IInv'
<1> DEFINE N == Len(handler.sig)
<1>1. /\ phase = "handle" /\ phase' = "done"
      /\ buffer' = [buffer EXCEPT !.freed = Released(handler.way, buffer.at, Len(data))]
      /\ UNCHANGED <<sender, data, handler, pos, args, _ds, seen>>
  BY DEF Return
<1>2. IsSent /\ IsEntered /\ IsUnpacked /\ ~MoreArgs /\ IsReading
  BY <1>1 DEF IInv
<1>3. /\ IsSent' /\ Known' = Known /\ \A n : End(n)' = End(n)
      /\ \A x : Arrived(x)' = Arrived(x)
      /\ \A x, y : Split(x, y) => Split(x, y)'
  BY <1>1, <1>2, Frame
<1>4. IsEntered'
  <2> DEFINE at == Place(handler.way, Len(data))
  <2>1. buffer = [at |-> at, freed |-> "none"]
    BY <1>1, <1>2 DEF IsEntered
  <2> HIDE DEF at
  <2>2. buffer' = [at |-> at, freed |-> Released(handler.way, at, Len(data))]
    BY <1>1, <2>1
  <2> QED BY <1>1, <1>2, <1>3, <2>2 DEF IsEntered, at
<1>5. IsUnpacked'
  <2>1. PICK a \in 0 .. N : \E b \in 0 .. a : Unpacked(a, b)
    BY <1>2 DEF IsUnpacked
  <2>2. PICK b \in 0 .. a : Unpacked(a, b)
    BY <2>1
  <2>3. Unpacked(a, b)'
    BY <1>1, <1>3, <2>2 DEF Unpacked
  <2> QED BY <1>1, <2>3 DEF IsUnpacked
<1>6. IsReading'
  <2>1. PICK j \in 0 .. N : \E k \in 0 .. N - j : Reading(j, k)
    BY <1>2 DEF IsReading
  <2>2. PICK k \in 0 .. N - j : Reading(j, k)
    BY <2>1
  <2>3. Reading(j, k)'
    BY <1>1, <1>3, <2>2 DEF Reading
  <2> QED BY <1>1, <2>3 DEF IsReading
<1>7. ~MoreArgs'
  BY <1>1, <1>2 DEF MoreArgs
<1> QED BY <1>1, <1>3, <1>4, <1>5, <1>6, <1>7 DEF IInv

LEMMA InitKeeps == Init => IInv
  BY DEF Init, IInv, Untouched

LEMMA NextKeeps == IInv /\ [Next]_vars => IInv'
<1> SUFFICES ASSUME IInv, [Next]_vars PROVE IInv'
  OBVIOUS
<1>1. ASSUME NEW sig \in UNION {Versions(s) : s \in Signatures},
             NEW by \in {"action_wrapper", "inline"}, NEW vals \in Calls(sig),
             Send(by, sig, vals)
      PROVE  IInv'
  <2>1. PICK s \in Signatures : sig \in Versions(s)
    OBVIOUS
  <2> QED BY <1>1, <2>1, SendKeeps
<1>2. ASSUME NEW s \in Signatures, NEW way \in Ways, NEW sig \in Versions(s),
             sender.sig \in Versions(s), Enter(way, sig)
      PROVE  IInv'
  BY <1>2, EnterKeeps
<1>3. CASE Unpack
  BY <1>3, UnpackKeeps
<1>4. CASE Construct
  BY <1>4, ConstructKeeps
<1>5. CASE ReadIgnored
  BY <1>5, ReadIgnoredKeeps
<1>6. CASE Return
  BY <1>6, ReturnKeeps
<1>7. CASE UNCHANGED vars
  <2>1. UNCHANGED <<phase, sender, data, handler, buffer, pos, args, _ds, seen>>
    BY <1>7 DEF vars
  <2>2. (IsSent => IsSent') /\ (Untouched => Untouched')
    BY <2>1 DEF IsSent, Untouched
  <2>3. IsEntered => IsEntered'
    BY <2>1 DEF IsEntered, Known
  <2>4. IsUnpacked => IsUnpacked'
    <3>1. \A a, j : Unpacked(a, j) => Unpacked(a, j)'
      BY <2>1, Frame DEF Unpacked
    <3> QED BY <2>1, <3>1 DEF IsUnpacked
  <2>5. IsReading => IsReading'
    <3>1. \A j, k : Reading(j, k) => Reading(j, k)'
      BY <2>1, Frame DEF Reading
    <3> QED BY <2>1, <3>1 DEF IsReading
  <2>6. (~MoreArgs => ~MoreArgs') /\ (CompleteCallSucceeds => CompleteCallSucceeds')
    BY <2>1 DEF MoreArgs, CompleteCallSucceeds, Complete, Known
  <2> QED BY <2>1, <2>2, <2>3, <2>4, <2>5, <2>6 DEF IInv
<1> QED BY <1>1, <1>2, <1>3, <1>4, <1>5, <1>6, <1>7 DEF Next

\* The bytes packed, unpacked and read are described by the invariant all along.
THEOREM Invariance == Spec => []IInv
BY InitKeeps, NextKeeps, PTL DEF Spec

-----------------------------------------------------------------------------
(***************************************************************************)
(* The properties.                                                         *)
(***************************************************************************)
LEMMA PlaceFacts ==
  ASSUME NEW way \in Ways, NEW size \in Nat
  PROVE  /\ Place(way, size) \in {"null", "stack", "heap"}
         /\ Released(way, Place(way, size), size) # "none" => Place(way, size) = "heap"
         /\ Released(way, Place(way, size), size) \in {"none", Place(way, size)}
<1>1. max_stack \in Nat
  BY ActionDataAssumption
<1>2. Place(way, size) \in {"null", "stack", "heap"}
  BY DEF Place
<1>3. CASE way = "execute_action" /\ max_stack < size
  <2>1. size # 0
    BY <1>1, <1>3
  <2> QED BY <1>3, <2>1 DEF Place, Released
<1>4. CASE ~(way = "execute_action" /\ max_stack < size)
  BY <1>2, <1>4 DEF Released
<1> QED BY <1>2, <1>3, <1>4

LEMMA IgnoredFinite ==
  ASSUME NEW sig \in Seq(Param)
  PROVE  Cardinality(IgnoredParams(sig)) \in Nat
<1>1. Len(sig) \in Nat /\ DOMAIN sig = 1 .. Len(sig)
  BY LenProperties
<1>2. IsFiniteSet(1 .. Len(sig))
  BY <1>1, FS_Interval
<1>3. IgnoredParams(sig) \subseteq 1 .. Len(sig)
  BY <1>1 DEF IgnoredParams
<1> QED BY <1>2, <1>3, FS_Subset, FS_CardinalityType

LEMMA InvTypeOK == IInv => TypeOK
<1> SUFFICES ASSUME IInv PROVE TypeOK
  OBVIOUS
<1> DEFINE N == Len(handler.sig)
<1>0. phase \in {"idle", "sent", "unpack", "handle", "done", "aborted"}
  BY DEF IInv
<1>1. data \in Seq(Bytes)
  <2>1. CASE phase = "idle"
    BY <2>1 DEF IInv
  <2>2. CASE phase # "idle"
    BY <2>2, EndFacts DEF IInv
  <2> QED BY <2>1, <2>2
<1>2. Len(data) \in Nat
  BY <1>1, LenProperties
<1>3. CASE phase \in {"idle", "sent"}
  <2>1. /\ handler = NoHandler /\ buffer = [at |-> "null", freed |-> "none"]
        /\ pos = 0 /\ args = <<>> /\ _ds = 0 /\ seen = <<>>
    BY <1>3 DEF IInv, Untouched
  <2>2. handler.sig = <<>> /\ <<>> \in Seq(Param)
    BY <2>1 DEF NoHandler
  <2>3. Cardinality(IgnoredParams(handler.sig)) \in Nat
    BY <2>2, IgnoredFinite
  <2>4. Len(args) <= Len(handler.sig) /\ Len(seen) <= Cardinality(IgnoredParams(handler.sig))
    BY <2>1, <2>2, <2>3
  <2> QED BY <1>0, <1>1, <1>2, <2>1, <2>4 DEF TypeOK, Bytes
<1>4. CASE phase \notin {"idle", "sent"}
  <2>1. IsSent /\ IsEntered /\ IsUnpacked
    BY <1>4 DEF IInv
  <2>2. handler.sig \in Seq(Param) /\ N \in Nat
    BY <2>1, LenProperties DEF IsEntered
  <2>3. \A k \in Nat : End(k) \in 0 .. Len(data)
    BY <2>1, EndFacts
  <2>4. PICK a \in 0 .. N : \E j \in 0 .. a : Unpacked(a, j)
    BY <2>1 DEF IsUnpacked
  <2>5. PICK j \in 0 .. a : Unpacked(a, j)
    BY <2>4
  <2>6. Len(args) = a /\ pos = End(j) /\ a \in Nat /\ j \in Nat
    BY <2>2, <2>5 DEF Unpacked
  <2>7. Len(args) <= N /\ pos \in 0 .. Len(data)
    BY <2>2, <2>3, <2>6
  <2>8. Cardinality(IgnoredParams(handler.sig)) \in Nat
    BY <2>2, IgnoredFinite
  <2>9. _ds \in 0 .. Len(data) /\ Len(seen) <= Cardinality(IgnoredParams(handler.sig))
    <3>1. CASE Untouched
      BY <1>2, <2>8, <3>1 DEF Untouched
    <3>2. CASE IsReading
      <4>1. PICK b \in 0 .. N : \E k \in 0 .. N - b : Reading(b, k)
        BY <3>2 DEF IsReading
      <4>2. PICK k \in 0 .. N - b : Reading(b, k)
        BY <4>1
      <4>3. Cardinality(IgnoredParams(handler.sig)) = N - b
        BY <2>2, <4>2, IgnoredAre DEF Reading, Split
      <4>4. b \in Nat /\ k \in Nat /\ k <= N - b /\ b + k \in Nat
        BY <2>2
      <4>5. Len(seen) = k /\ _ds = End(b + k)
        BY <4>2, <4>4 DEF Reading
      <4> QED BY <2>3, <4>3, <4>4, <4>5
    <3>3. Untouched \/ IsReading
      BY <1>0, <1>4 DEF IInv
    <3> QED BY <3>1, <3>2, <3>3
  <2>10. \/ buffer \in [at : {"null", "stack", "heap"}, freed : {"none"}]
         \/ buffer = [at |-> "heap", freed |-> "heap"]
    <3> DEFINE at == Place(handler.way, Len(data))
               freed == Released(handler.way, at, Len(data))
    <3>1. /\ at \in {"null", "stack", "heap"}
          /\ freed # "none" => at = "heap"
          /\ freed \in {"none", at}
      BY <1>2, <2>1, PlaceFacts DEF IsEntered
    <3>2. buffer = [at |-> at, freed |-> IF phase = "done" THEN freed ELSE "none"]
      BY <2>1 DEF IsEntered
    <3> HIDE DEF at, freed
    <3>3. CASE phase = "done" /\ freed # "none"
      <4>1. at = "heap" /\ freed = "heap"
        BY <3>1, <3>3
      <4> QED BY <3>2, <3>3, <4>1
    <3>4. CASE ~(phase = "done" /\ freed # "none")
      <4>1. buffer = [at |-> at, freed |-> "none"]
        BY <3>2, <3>4
      <4> QED BY <3>1, <4>1
    <3> QED BY <3>3, <3>4
  <2> QED BY <1>0, <1>1, <2>7, <2>9, <2>10 DEF TypeOK, Bytes
<1> QED BY <1>3, <1>4

LEMMA InvArgsAsSent == IInv => ArgsAsSent
<1> SUFFICES ASSUME IInv PROVE ArgsAsSent
  OBVIOUS
<1> DEFINE N == Len(handler.sig)
<1>1. ASSUME phase \in {"handle", "done"},
             NEW i \in DOMAIN handler.sig \ IgnoredParams(handler.sig)
      PROVE  IF i > Known THEN handler.sig[i].wrap = "extension" /\ args[i] = Empty
             ELSE args[i] = IF handler.sig[i].wrap = "extension" /\ sender.vals[i] = Empty
                            THEN <<Default(handler.sig[i].type)>> ELSE sender.vals[i]
  <2>1. IsSent /\ IsEntered /\ IsUnpacked /\ ~MoreArgs
    BY <1>1 DEF IInv
  <2>2. N \in Nat /\ DOMAIN handler.sig = 1 .. N
    BY <2>1, LenProperties DEF IsEntered
  <2>3. PICK a \in 0 .. N : \E j \in 0 .. a : Unpacked(a, j)
    BY <2>1 DEF IsUnpacked
  <2>4. PICK j \in 0 .. a : Unpacked(a, j)
    BY <2>3
  <2>5. Len(args) = a /\ args = [n \in 1 .. a |-> Arrived(n)] /\ a \in Nat /\ j \in Nat
    BY <2>2, <2>4 DEF Unpacked
  <2>6. a = N
    BY <2>1, <2>2, <2>5 DEF MoreArgs
  <2>7. i \in 1 .. N /\ handler.sig[i].wrap # "ignore"
    BY <2>2 DEF IgnoredParams
  <2>8. i \in 1 .. j
    <3>1. ~(i \in j + 1 .. a)
      BY <2>4, <2>7 DEF Unpacked, Split
    <3> QED BY <2>5, <2>6, <2>7, <3>1
  <2>9. i > Known => handler.sig[i].wrap = "extension"
    BY <2>4, <2>8 DEF Unpacked
  <2>10. args[i] = Arrived(i)
    BY <2>5, <2>6, <2>7
  <2>11. Known \in Nat
    BY <2>1, EndFacts
  <2>12. CASE i > Known
    <3>1. Arrived(i) = Empty
      BY <2>2, <2>7, <2>11, <2>12 DEF Arrived
    <3> QED BY <2>9, <2>10, <2>12, <3>1
  <2>13. CASE ~(i > Known)
    <3>1. i <= Known
      BY <2>2, <2>7, <2>11, <2>13
    <3>2. Arrived(i) = IF handler.sig[i].wrap = "extension" /\ sender.vals[i] = Empty
                       THEN <<Default(handler.sig[i].type)>> ELSE sender.vals[i]
      BY <2>7, <2>13, <3>1 DEF Arrived
    <3> QED BY <2>10, <2>13, <3>2
  <2> QED BY <2>12, <2>13
<1>2. ASSUME NEW n \in DOMAIN seen
      PROVE  seen[n].at <= Known /\ seen[n].val = sender.vals[seen[n].at]
  <2>1. Untouched \/ IsReading
    BY DEF IInv
  <2>2. CASE Untouched
    BY <2>2 DEF Untouched
  <2>3. CASE IsReading /\ ~Untouched
    <3>1. IsSent /\ IsEntered
      BY <2>3 DEF IInv
    <3>2. N \in Nat /\ Known \in Nat
      BY <3>1, LenProperties, EndFacts DEF IsEntered
    <3>3. PICK j \in 0 .. N : \E k \in 0 .. N - j : Reading(j, k)
      BY <2>3 DEF IsReading
    <3>4. PICK k \in 0 .. N - j : Reading(j, k)
      BY <3>3
    <3>5. /\ seen = [x \in 1 .. k |-> [at |-> j + x, val |-> sender.vals[j + x]]]
          /\ k > 0 => j + k <= Known
      BY <3>4 DEF Reading
    <3>6. n \in 1 .. k /\ j \in Nat /\ k \in Nat
      BY <3>2, <3>5
    <3>7. seen[n].at = j + n /\ seen[n].val = sender.vals[j + n]
      BY <3>5, <3>6
    <3> QED BY <3>2, <3>5, <3>6, <3>7
  <2> QED BY <2>1, <2>2, <2>3
<1> QED BY <1>1, <1>2 DEF ArgsAsSent

\* Both cursors stay inside the data, whatever was sent and whatever the
\* handler asks for, and execute_action frees only what it took from malloc.
THEOREM TypeCorrect == Spec => []TypeOK
BY Invariance, InvTypeOK, PTL

\* A handler compiled from a newer or an older version of the action than the
\* sender gets exactly the arguments that were sent, and what it reads for its
\* ignored parameters is what was sent for them.
THEOREM ArgumentsArrive == Spec => []ArgsAsSent
BY Invariance, InvArgsAsSent, PTL

LEMMA InvComplete == IInv => CompleteCallSucceeds
  BY DEF IInv, CompleteCallSucceeds

\* An action whose sender knew all of the handler's parameters is not stopped by
\* the datastream, but for an ignored one that SEND_INLINE_ACTION left out.
THEOREM CompleteCallsSucceed == Spec => []CompleteCallSucceeds
BY Invariance, InvComplete, PTL
=============================================================================
