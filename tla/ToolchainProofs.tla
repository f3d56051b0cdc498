-------------------------- MODULE ToolchainProofs ---------------------------
(***************************************************************************)
(* What uosio-cpp and uosio-ld write, for any contract, any number of      *)
(* sources and objects and any ABIs: the merged ABI has the definitions    *)
(* that stand and no others, it describes the functions that the           *)
(* dispatcher has stubs for, and the body of apply is one a node accepts.  *)
(***************************************************************************)
EXTENDS Toolchain, TLAPS, SequenceTheorems, FiniteSetTheorems, WellFoundedInduction

-----------------------------------------------------------------------------
(***************************************************************************)
(* Loops over a sequence.                                                  *)
(***************************************************************************)
LEMMA LeastNat ==
  ASSUME NEW T \in SUBSET Nat, T # {} PROVE \E n \in T : \A m \in T : n <= m
<1> DEFINE R == OpToRel(<, Nat)
<1>1. R = {ss \in Nat \X Nat : ss[1] < ss[2]}
  BY DEF OpToRel
<1>2. IsWellFoundedOn(R, Nat)
  BY NatLessThanWellFounded
<1> HIDE DEF R
<1>3. PICK x \in T : \A y \in T : ~(<<y, x>> \in R)
  BY <1>2, WFMin
<1>4. ASSUME NEW m \in T PROVE x <= m
  <2>1. ~(<<m, x>> \in {ss \in Nat \X Nat : ss[1] < ss[2]})
    BY <1>1, <1>3
  <2> QED BY <2>1
<1> QED BY <1>4

\* Induction over 0 .. N, with the property as a set.
LEMMA UptoInduction ==
  ASSUME NEW N \in Nat, NEW T, 0 \in T, \A n \in 1 .. N : n - 1 \in T => n \in T
  PROVE  \A n \in 0 .. N : n \in T
<1> DEFINE U == {n \in 0 .. N : n \notin T}
<1> SUFFICES ASSUME U # {} PROVE FALSE
  OBVIOUS
<1>0. U \in SUBSET Nat
  OBVIOUS
<1>1. PICK n \in U : \A m \in U : n <= m
  <2> HIDE DEF U
  <2> QED BY <1>0, LeastNat
<1>2. n \in 1 .. N
  OBVIOUS
<1>3. n - 1 \in T
  BY <1>1, <1>2
<1> QED BY <1>2, <1>3

\* A loop that starts with b and whose turn i takes r to F[i][r].
IsLoop(f, N, R, b, F) ==
  f \in [0 .. N -> R] /\ f[0] = b /\ \A i \in 1 .. N : f[i] = F[i][f[i - 1]]

LEMMA LoopExists ==
  ASSUME NEW N \in Nat, NEW R, NEW b \in R, NEW F \in [1 .. N -> [R -> R]]
  PROVE  \E f : IsLoop(f, N, R, b, F)
<1> DEFINE Loop(n, f) == /\ f \in [0 .. n -> R] /\ f[0] = b
                         /\ \A i \in 1 .. n : f[i] = F[i][f[i - 1]]
           T == {n \in 0 .. N : \E f : Loop(n, f)}
<1>1. 0 \in T
  <2> DEFINE f == [i \in 0 .. 0 |-> b]
  <2>1. Loop(0, f)
    OBVIOUS
  <2> HIDE DEF f
  <2>2. \E g : Loop(0, g)
    BY <2>1
  <2> QED BY <2>2
<1>2. ASSUME NEW n \in 1 .. N, n - 1 \in T PROVE n \in T
  <2>1. PICK f : Loop(n - 1, f)
    BY <1>2
  <2> DEFINE g == [i \in 0 .. n |-> IF i = n THEN F[n][f[n - 1]] ELSE f[i]]
  <2>2. f[n - 1] \in R /\ F[n][f[n - 1]] \in R
    BY <2>1
  <2>3. g \in [0 .. n -> R] /\ g[0] = b
    BY <2>1, <2>2
  <2>4. ASSUME NEW i \in 1 .. n PROVE g[i] = F[i][g[i - 1]]
    <3>1. CASE i = n
      BY <3>1
    <3>2. CASE i # n
      <4>1. i \in 1 .. n - 1 /\ i - 1 # n /\ i \in 0 .. n /\ i - 1 \in 0 .. n
        BY <3>2
      <4> QED BY <2>1, <3>2, <4>1
    <3> QED BY <3>1, <3>2
  <2> HIDE DEF g
  <2>5. Loop(n, g)
    BY <2>3, <2>4
  <2> QED BY <2>5
<1> HIDE DEF T
<1>3. \A n \in 0 .. N : n \in T
  BY <1>1, <1>2, UptoInduction
<1>4. N \in T
  BY <1>3
<1>5. PICK f : Loop(N, f)
  BY <1>4 DEF T
<1>6. IsLoop(f, N, R, b, F)
  BY <1>5 DEF IsLoop
<1> QED BY <1>6

-----------------------------------------------------------------------------
(***************************************************************************)
(* The ABIs that the linker collects.                                      *)
(***************************************************************************)
KeepTurn(g, i) ==
  IF i = 0 THEN <<>>
  ELSE IF objs[i].generated THEN Append(g[i - 1], objs[i].abi) ELSE g[i - 1]

\* Abis is a sequence of the ABIs of the objects that have one.
LEMMA AbisAre ==
  ASSUME NEW S, objs \in Seq(S)
  PROVE  /\ Abis \in Seq({objs[i].abi : i \in 1 .. Len(objs)})
         /\ \A a : (\E k \in 1 .. Len(Abis) : Abis[k] = a)
                     <=> \E i \in 1 .. Len(objs) : objs[i].generated /\ objs[i].abi = a
<1> DEFINE N == Len(objs)
           V == {objs[i].abi : i \in 1 .. N}
           R == Seq(V)
           A(i) == objs[i].abi
           G(i) == objs[i].generated
           F == [i \in 1 .. N |-> [r \in R |-> IF G(i) THEN Append(r, A(i)) ELSE r]]
           Body(g) == [i \in 0 .. N |-> KeepTurn(g, i)]
<1>0. N \in Nat
  BY LenProperties
<1>1. <<>> \in R /\ \A i \in 1 .. N : A(i) \in V
  OBVIOUS
<1>2. F \in [1 .. N -> [R -> R]]
  <2> HIDE DEF V, A, G
  <2>1. ASSUME NEW i \in 1 .. N, NEW r \in R
        PROVE  (IF G(i) THEN Append(r, A(i)) ELSE r) \in R
    BY <1>1, AppendProperties
  <2> QED BY <2>1
<1>3. PICK f \in [0 .. N -> R] : f[0] = <<>> /\ \A i \in 1 .. N : f[i] = F[i][f[i - 1]]
  <2> DEFINE e == <<>>
  <2>1. e \in R
    BY <1>1
  <2> HIDE DEF F, R, N, e
  <2>2. \E f : IsLoop(f, N, R, e, F)
    BY <1>0, <1>2, <2>1, LoopExists
  <2> QED BY <2>2 DEF IsLoop, e
<1>4. ASSUME NEW i \in 0 .. N PROVE f[i] = KeepTurn(f, i)
  <2>1. CASE i = 0
    BY <1>3, <2>1 DEF KeepTurn
  <2>2. CASE i # 0
    <3>1. i \in 1 .. N /\ i - 1 \in 0 .. N /\ f[i - 1] \in R
      BY <1>0, <1>3, <2>2
    <3>2. F[i][f[i - 1]] = IF G(i) THEN Append(f[i - 1], A(i)) ELSE f[i - 1]
      <4> HIDE DEF R, A, G
      <4> QED BY <3>1
    <3> HIDE DEF F
    <3> QED BY <1>3, <2>2, <3>1, <3>2 DEF KeepTurn
  <2> QED BY <2>1, <2>2
<1>5. f = Body(f)
  BY <1>3, <1>4
<1> DEFINE w == CHOOSE g : g = Body(g)
<1>6. Abis = w[N]
  BY Zenon DEF Abis, KeepTurn
<1>7. w = Body(w)
  <2> HIDE DEF Body
  <2> QED BY <1>5, Zenon
<1> HIDE DEF w
<1>8. \A i \in 0 .. N : w[i] = KeepTurn(w, i)
  BY <1>7
<1> DEFINE Kept(n) == /\ w[n] \in R
                      /\ \A a : (\E k \in 1 .. Len(w[n]) : w[n][k] = a)
                                  <=> \E i \in 1 .. n : G(i) /\ A(i) = a
           T == {n \in 0 .. N : Kept(n)}
<1>9. 0 \in T
  <2>1. w[0] = <<>>
    BY <1>0, <1>8 DEF KeepTurn
  <2> HIDE DEF A, G, R
  <2>2. Kept(0) /\ 0 \in 0 .. N
    BY <1>0, <1>1, <2>1
  <2> HIDE DEF Kept
  <2> QED BY <2>2
<1>10. ASSUME NEW n \in 1 .. N, n - 1 \in T PROVE n \in T
  <2>0. Kept(n - 1) /\ A(n) \in V /\ n \in Nat /\ n \in 0 .. N
    <3>1. A(n) \in V /\ n \in Nat /\ n \in 0 .. N
      BY <1>0, <1>1
    <3>2. Kept(n - 1)
      <4> HIDE DEF Kept
      <4> QED BY <1>10
    <3> QED BY <3>1, <3>2
  <2> DEFINE u == w[n - 1]
  <2>1. w[n] = IF G(n) THEN Append(u, A(n)) ELSE u
    <3>1. n # 0 /\ w[n] = KeepTurn(w, n)
      BY <1>0, <1>8, <2>0
    <3> QED BY <3>1, Zenon DEF KeepTurn
  <2> HIDE DEF V, A, G
  <2>2. CASE ~G(n)
    <3>1. w[n] = u
      BY <2>1, <2>2
    <3>2. \A a : (\E i \in 1 .. n : G(i) /\ A(i) = a) <=> \E i \in 1 .. n - 1 : G(i) /\ A(i) = a
      BY <2>0, <2>2
    <3> QED BY <2>0, <3>1, <3>2
  <2>3. CASE G(n)
    <3>1. w[n] = Append(u, A(n)) /\ u \in R
      BY <2>0, <2>1, <2>3
    <3>2. /\ w[n] \in R /\ Len(w[n]) = Len(u) + 1 /\ Len(u) \in Nat
          /\ \A k \in 1 .. Len(u) : w[n][k] = u[k]
          /\ w[n][Len(u) + 1] = A(n)
      BY <2>0, <3>1, AppendProperties, LenProperties
    <3> HIDE DEF u
    <3>3. ASSUME NEW a
          PROVE  (\E k \in 1 .. Len(w[n]) : w[n][k] = a)
                   <=> (\E k \in 1 .. Len(u) : u[k] = a) \/ a = A(n)
      <4> DEFINE l == Len(u)
                 x == w[n]
      <4>1. l \in Nat /\ Len(x) = l + 1 /\ (\A k \in 1 .. l : x[k] = u[k]) /\ x[l + 1] = A(n)
        BY <3>2
      <4> HIDE DEF l, x
      <4>2. ASSUME NEW k \in 1 .. l + 1, x[k] = a
            PROVE  (\E i \in 1 .. l : u[i] = a) \/ a = A(n)
        <5>1. CASE k = l + 1
          BY <4>1, <4>2, <5>1
        <5>2. CASE k # l + 1
          <6>1. k \in 1 .. l
            BY <4>1, <5>2
          <6> QED BY <4>1, <4>2, <6>1
        <5> QED BY <5>1, <5>2
      <4>3. ASSUME NEW k \in 1 .. l, u[k] = a PROVE \E i \in 1 .. l + 1 : x[i] = a
        BY <4>1, <4>3
      <4>4. a = A(n) => \E i \in 1 .. l + 1 : x[i] = a
        BY <4>1
      <4>5. (\E k \in 1 .. l + 1 : x[k] = a) <=> (\E k \in 1 .. l : u[k] = a) \/ a = A(n)
        BY <4>2, <4>3, <4>4
      <4> QED BY <4>1, <4>5 DEF l, x
    <3>4. ASSUME NEW a
          PROVE  (\E i \in 1 .. n : G(i) /\ A(i) = a)
                   <=> (\E i \in 1 .. n - 1 : G(i) /\ A(i) = a) \/ a = A(n)
      BY <2>0, <2>3
    <3>5. \A a : (\E k \in 1 .. Len(u) : u[k] = a)
                   <=> \E i \in 1 .. n - 1 : G(i) /\ A(i) = a
      BY <2>0 DEF u
    <3>6. ASSUME NEW a
          PROVE  (\E k \in 1 .. Len(w[n]) : w[n][k] = a)
                   <=> \E i \in 1 .. n : G(i) /\ A(i) = a
      BY <2>3, <3>3, <3>4, <3>5
    <3> QED BY <2>0, <3>2, <3>6
  <2> QED BY <2>2, <2>3
<1>11. N \in T
  <2> HIDE DEF T, N
  <2>1. \A n \in 0 .. N : n \in T
    BY <1>0, <1>9, <1>10, UptoInduction
  <2> QED BY <1>0, <2>1
<1> QED BY <1>6, <1>11

-----------------------------------------------------------------------------
(***************************************************************************)
(* The merge.                                                              *)
(***************************************************************************)
IsSequence(s) == \E S : s \in Seq(S)

LEMMA OrderIs ==
  ASSUME IsSequence(objs)
  PROVE  /\ Len(Abis) \in Nat /\ DOMAIN Abis = 1 .. Len(Abis)
         /\ Abis = <<>> => DOMAIN Order = {} /\ Len(Abis) = 0
         /\ Abis # <<>> => /\ DOMAIN Order = 1 .. Len(Abis) + 1 /\ Len(Abis) > 0
                           /\ Order[1] = Last(Abis)
                           /\ \A i \in 1 .. Len(Abis) : Order[i + 1] = Abis[i]
<1>1. PICK V : Abis \in Seq(V)
  BY AbisAre DEF IsSequence
<1> DEFINE a == Abis
           n == Len(a)
<1>2. a \in Seq(V) /\ n \in Nat /\ DOMAIN a = 1 .. n /\ (a = <<>> <=> n = 0)
  BY <1>1, LenProperties, EmptySeq
<1>3. Order = IF a = <<>> THEN <<>> ELSE <<Last(a)>> \o a
  BY DEF Order
<1> HIDE DEF a
<1>4. CASE a = <<>>
  BY <1>2, <1>3, <1>4 DEF a
<1>5. CASE a # <<>>
  <2> DEFINE l == <<Last(a)>>
  <2>1. n > 0
    BY <1>2, <1>5
  <2>2. l \in Seq(V) /\ Len(l) = 1 /\ l[1] = Last(a)
    BY <1>2, <2>1 DEF Last
  <2> HIDE DEF l
  <2>3. /\ l \o a \in Seq(V) /\ Len(l \o a) = Len(l) + Len(a)
        /\ \A i \in 1 .. Len(l) + Len(a) :
             (l \o a)[i] = IF i <= Len(l) THEN l[i] ELSE a[i - Len(l)]
    BY <1>2, <2>2, ConcatProperties
  <2>4. DOMAIN (l \o a) = 1 .. n + 1
    BY <1>2, <2>2, <2>3, LenProperties
  <2>5. (l \o a)[1] = Last(a)
    BY <1>2, <2>2, <2>3
  <2>6. ASSUME NEW i \in 1 .. n PROVE (l \o a)[i + 1] = a[i]
    <3>1. i + 1 \in 1 .. Len(l) + Len(a) /\ ~(i + 1 <= Len(l)) /\ (i + 1) - Len(l) = i
      BY <1>2, <2>2
    <3> QED BY <2>3, <3>1
  <2>7. Order = l \o a
    BY <1>3, <1>5 DEF l
  <2> QED BY <1>2, <1>5, <2>1, <2>4, <2>5, <2>6, <2>7 DEF a
<1> QED BY <1>4, <1>5

\* The definitions that stand when the first k of Abis are merged.
StandsAfter(k, section) ==
  UNION {{x \in Order[i][section] : \A j \in 1 .. i - 1 : ~Has(section, x.id, j)}
           : i \in {n \in DOMAIN Order : n <= k + 1}}

\* merge throws at the k-th of Abis.
ClashAt(k) == \E s \in Sections : AlreadyDefined(s, StandsAfter(k - 1, s), Abis[k][s])

LEMMA StandsIs ==
  ASSUME NEW k, NEW s, NEW x
  PROVE  /\ x \in StandsAfter(k, s)
              <=> \E i \in DOMAIN Order : /\ i <= k + 1 /\ x \in Order[i][s]
                                          /\ \A j \in 1 .. i - 1 : ~Has(s, x.id, j)
         /\ x \in Standing(s)
              <=> \E i \in DOMAIN Order : /\ x \in Order[i][s]
                                          /\ \A j \in 1 .. i - 1 : ~Has(s, x.id, j)
  BY DEF StandsAfter, Standing

\* An id that some of the ABIs have stands.
LEMMA IdStands ==
  ASSUME IsSequence(objs), NEW k \in Nat, NEW s, NEW id
  PROVE  (\E x \in StandsAfter(k, s) : x.id = id)
           <=> \E i \in DOMAIN Order : i <= k + 1 /\ Has(s, id, i)
<1>0. DOMAIN Order \subseteq Nat \ {0} /\ \A i \in DOMAIN Order : \A j \in 1 .. i - 1 : j \in DOMAIN Order
  BY OrderIs
<1>1. ASSUME NEW x \in StandsAfter(k, s), x.id = id
      PROVE  \E i \in DOMAIN Order : i <= k + 1 /\ Has(s, id, i)
  <2>1. PICK i \in DOMAIN Order : i <= k + 1 /\ x \in Order[i][s]
    BY StandsIs
  <2> QED BY <1>1, <2>1 DEF Has
<1>2. ASSUME NEW i \in DOMAIN Order, i <= k + 1, Has(s, id, i)
      PROVE  \E x \in StandsAfter(k, s) : x.id = id
  <2> DEFINE T == {n \in DOMAIN Order : n <= k + 1 /\ Has(s, id, n)}
  <2>1. T \in SUBSET Nat /\ T # {}
    BY <1>0, <1>2
  <2>2. PICK n \in T : \A m \in T : n <= m
    <3> HIDE DEF T
    <3> QED BY <2>1, LeastNat
  <2>3. PICK x \in Order[n][s] : x.id = id
    BY <2>2 DEF Has
  <2>4. ASSUME NEW j \in 1 .. n - 1 PROVE ~Has(s, x.id, j)
    <3>1. j \in DOMAIN Order /\ j < n /\ j <= k + 1 /\ n \in Nat
      BY <1>0, <2>2
    <3> QED BY <2>2, <2>3, <3>1
  <2>5. x \in StandsAfter(k, s)
    BY <2>2, <2>3, <2>4, StandsIs
  <2> QED BY <2>3, <2>5
<1> QED BY <1>1, <1>2

\* The merger begins with the last ABI.
LEMMA FirstStands ==
  ASSUME IsSequence(objs), NEW s \in Sections
  PROVE  StandsAfter(0, s) = (IF Abis = <<>> THEN EmptyABI ELSE Last(Abis))[s]
<1>1. CASE Abis = <<>>
  <2>1. DOMAIN Order = {}
    BY <1>1, OrderIs
  <2>2. \A x : x \notin StandsAfter(0, s)
    BY <2>1, StandsIs
  <2>3. EmptyABI[s] = {}
    BY DEF EmptyABI
  <2> QED BY <1>1, <2>2, <2>3
<1>2. CASE Abis # <<>>
  <2>1. DOMAIN Order = 1 .. Len(Abis) + 1 /\ Len(Abis) \in Nat /\ Order[1] = Last(Abis)
    BY <1>2, OrderIs
  <2>2. ASSUME NEW x PROVE x \in StandsAfter(0, s) <=> x \in Last(Abis)[s]
    <3>1. ASSUME x \in StandsAfter(0, s) PROVE x \in Last(Abis)[s]
      <4>1. PICK i \in DOMAIN Order : i <= 0 + 1 /\ x \in Order[i][s]
        BY <3>1, StandsIs
      <4>2. i = 1
        BY <2>1, <4>1
      <4> QED BY <2>1, <4>1, <4>2
    <3>2. ASSUME x \in Last(Abis)[s] PROVE x \in StandsAfter(0, s)
      <4>1. 1 \in DOMAIN Order /\ 1 <= 0 + 1 /\ \A j \in 1 .. 1 - 1 : ~Has(s, x.id, j)
        BY <2>1
      <4> QED BY <2>1, <3>2, <4>1, StandsIs
    <3> QED BY <3>1, <3>2
  <2> QED BY <1>2, <2>2
<1> QED BY <1>1, <1>2

\* Each turn adds what the next ABI alone has.
LEMMA NextStands ==
  ASSUME IsSequence(objs), NEW k \in Nat, k < Len(Abis), NEW s
  PROVE  StandsAfter(k + 1, s) = add_object(StandsAfter(k, s), Abis[k + 1][s])
<1>1. /\ Len(Abis) \in Nat /\ DOMAIN Order = 1 .. Len(Abis) + 1
      /\ \A i \in 1 .. Len(Abis) : Order[i + 1] = Abis[i]
  <2>1. Abis # <<>>
    BY OrderIs
  <2> QED BY <2>1, OrderIs
<1>2. Order[k + 2] = Abis[k + 1] /\ k + 2 \in DOMAIN Order
  <2>1. k + 1 \in 1 .. Len(Abis) /\ (k + 1) + 1 = k + 2
    BY <1>1
  <2> QED BY <1>1, <2>1
<1>3. ASSUME NEW x
      PROVE  x \in StandsAfter(k + 1, s)
               <=> x \in StandsAfter(k, s)
                   \/ (x \in Order[k + 2][s] /\ \A j \in 1 .. k + 1 : ~Has(s, x.id, j))
  <2>1. ASSUME x \in StandsAfter(k + 1, s)
        PROVE  x \in StandsAfter(k, s)
               \/ (x \in Order[k + 2][s] /\ \A j \in 1 .. k + 1 : ~Has(s, x.id, j))
    <3>1. PICK i \in DOMAIN Order : /\ i <= (k + 1) + 1 /\ x \in Order[i][s]
                                    /\ \A j \in 1 .. i - 1 : ~Has(s, x.id, j)
      BY <2>1, StandsIs
    <3>2. CASE i = k + 2
      <4>1. i - 1 = k + 1
        BY <3>2
      <4> QED BY <3>1, <3>2, <4>1
    <3>3. CASE i # k + 2
      <4>1. i <= k + 1
        BY <1>1, <3>1, <3>3
      <4>2. \E n \in DOMAIN Order : /\ n <= k + 1 /\ x \in Order[n][s]
                                    /\ \A j \in 1 .. n - 1 : ~Has(s, x.id, j)
        BY <3>1, <4>1
      <4>3. x \in StandsAfter(k, s)
        BY <4>2, StandsIs
      <4> QED BY <4>3
    <3> QED BY <3>2, <3>3
  <2>2. ASSUME x \in StandsAfter(k, s) PROVE x \in StandsAfter(k + 1, s)
    <3>1. PICK i \in DOMAIN Order : /\ i <= k + 1 /\ x \in Order[i][s]
                                    /\ \A j \in 1 .. i - 1 : ~Has(s, x.id, j)
      BY <2>2, StandsIs
    <3>2. i <= (k + 1) + 1
      BY <1>1, <3>1
    <3> QED BY <3>1, <3>2, StandsIs
  <2>3. ASSUME x \in Order[k + 2][s], \A j \in 1 .. k + 1 : ~Has(s, x.id, j)
        PROVE  x \in StandsAfter(k + 1, s)
    <3>1. k + 2 <= (k + 1) + 1 /\ (k + 2) - 1 = k + 1
      OBVIOUS
    <3>2. \A j \in 1 .. (k + 2) - 1 : ~Has(s, x.id, j)
      BY <2>3, <3>1
    <3> QED BY <1>2, <2>3, <3>1, <3>2, StandsIs
  <2> QED BY <2>1, <2>2, <2>3
<1>4. ASSUME NEW id
      PROVE  (\A j \in 1 .. k + 1 : ~Has(s, id, j)) <=> \A y \in StandsAfter(k, s) : y.id # id
  <2>1. (\E y \in StandsAfter(k, s) : y.id = id)
          <=> \E i \in DOMAIN Order : i <= k + 1 /\ Has(s, id, i)
    BY IdStands
  <2>2. (\E i \in DOMAIN Order : i <= k + 1 /\ Has(s, id, i)) <=> \E j \in 1 .. k + 1 : Has(s, id, j)
    <3>1. \A j \in 1 .. k + 1 : j \in DOMAIN Order /\ j <= k + 1
      BY <1>1
    <3>2. \A i \in DOMAIN Order : i <= k + 1 => i \in 1 .. k + 1
      BY <1>1
    <3> QED BY <3>1, <3>2
  <2> QED BY <2>1, <2>2
<1>5. ASSUME NEW x
      PROVE  x \in StandsAfter(k + 1, s) <=> x \in add_object(StandsAfter(k, s), Abis[k + 1][s])
  <2> DEFINE A == StandsAfter(k, s)
             B == Abis[k + 1][s]
  <2>1. (\A j \in 1 .. k + 1 : ~Has(s, x.id, j)) <=> \A y \in A : y.id # x.id
    BY <1>4
  <2>2. x \in StandsAfter(k + 1, s) <=> x \in A \/ (x \in B /\ \A j \in 1 .. k + 1 : ~Has(s, x.id, j))
    BY <1>2, <1>3
  <2> HIDE DEF A, B
  <2>3. x \in add_object(A, B) <=> x \in A \/ (x \in B /\ \A y \in A : y.id # x.id)
    BY DEF add_object
  <2>4. x \in StandsAfter(k + 1, s) <=> x \in add_object(A, B)
    BY <2>1, <2>2, <2>3
  <2> QED BY <2>4 DEF A, B
<1> QED BY <1>5

\* A clash at some turn is a conflict.
LEMMA ClashIsConflict ==
  ASSUME IsSequence(objs)
  PROVE  Conflict <=> \E k \in 1 .. Len(Abis) : ClashAt(k)
<1>0. /\ Len(Abis) \in Nat /\ DOMAIN Abis = 1 .. Len(Abis)
      /\ DOMAIN Order \subseteq 1 .. Len(Abis) + 1
  BY OrderIs
<1>1. ASSUME Conflict PROVE \E k \in 1 .. Len(Abis) : ClashAt(k)
  <2>1. PICK s \in Sections, i \in DOMAIN Abis : \E y \in Abis[i][s], x \in Standing(s) :
          x.id = y.id /\ ~IsSame(s, x, y) /\ \E j \in 1 .. i : Has(s, y.id, j)
    BY <1>1 DEF Conflict
  <2>2. PICK y \in Abis[i][s], x \in Standing(s) :
          x.id = y.id /\ ~IsSame(s, x, y) /\ \E j \in 1 .. i : Has(s, y.id, j)
    BY <2>1
  <2>3. PICK j \in 1 .. i : Has(s, x.id, j)
    BY <2>2
  <2>4. PICK n \in DOMAIN Order : x \in Order[n][s] /\ \A m \in 1 .. n - 1 : ~Has(s, x.id, m)
    BY <2>2, StandsIs
  <2>5. n <= (i - 1) + 1
    <3>1. ~(j \in 1 .. n - 1)
      BY <2>3, <2>4
    <3> QED BY <1>0, <2>1, <2>3, <2>4, <3>1
  <2>6. x \in StandsAfter(i - 1, s)
    BY <2>4, <2>5, StandsIs
  <2>7. ClashAt(i)
    BY <2>2, <2>6 DEF ClashAt, AlreadyDefined
  <2> QED BY <1>0, <2>7
<1>2. ASSUME NEW k \in 1 .. Len(Abis), ClashAt(k) PROVE Conflict
  <2>1. PICK s \in Sections : AlreadyDefined(s, StandsAfter(k - 1, s), Abis[k][s])
    BY <1>2 DEF ClashAt
  <2>2. PICK x \in StandsAfter(k - 1, s), y \in Abis[k][s] : x.id = y.id /\ ~IsSame(s, x, y)
    BY <2>1 DEF AlreadyDefined
  <2>3. PICK i \in DOMAIN Order : /\ i <= (k - 1) + 1 /\ x \in Order[i][s]
                                  /\ \A j \in 1 .. i - 1 : ~Has(s, x.id, j)
    BY <2>2, StandsIs
  <2>4. i \in 1 .. k /\ Has(s, y.id, i)
    <3>1. i \in 1 .. k
      BY <1>0, <2>3
    <3> QED BY <2>2, <2>3, <3>1 DEF Has
  <2>5. x \in Standing(s)
    BY <2>3, StandsIs
  <2> QED BY <1>0, <2>2, <2>4, <2>5 DEF Conflict
<1> QED BY <1>1, <1>2


-----------------------------------------------------------------------------
(***************************************************************************)
(* The inductive invariant: what the merger holds is what stands of the    *)
(* ABIs it has been through, none of which clashed.                        *)
(***************************************************************************)
Compiling == {"abigen", "codegen", "codegen error", "link"}
Merging == {"write abi", "failed to write abi"} \cup Installed

HoldsWhatStands ==
  /\ merged \in 0 .. Len(Abis)
  /\ \A s \in Sections : abi[s] = StandsAfter(merged, s)
  /\ \A k \in 1 .. merged : ~ClashAt(k)

MInv ==
  /\ IsSequence(objs)
  /\ phase \in Compiling => merged = 0
  /\ phase \in Merging => HoldsWhatStands
  /\ phase = "failed to write abi" => merged < Len(Abis) /\ ClashAt(merged + 1)
  /\ phase \in Installed => merged = Len(Abis)

LEMMA SameObjects ==
  ASSUME objs' = objs
  PROVE  /\ Abis' = Abis
         /\ \A k, s : StandsAfter(k, s)' = StandsAfter(k, s)
         /\ \A k : ClashAt(k)' <=> ClashAt(k)
<1>1. Abis' = Abis
  BY DEF Abis
<1>2. Order' = Order
  BY <1>1 DEF Order
<1>3. \A s, id, i : Has(s, id, i)' <=> Has(s, id, i)
  BY <1>2 DEF Has
<1>4. ASSUME NEW k, NEW s PROVE StandsAfter(k, s)' = StandsAfter(k, s)
  BY <1>2, <1>3 DEF StandsAfter
<1>5. ASSUME NEW k PROVE ClashAt(k)' <=> ClashAt(k)
  BY <1>1, <1>4 DEF ClashAt
<1> QED BY <1>1, <1>4, <1>5

\* An action that leaves the objects and the merger alone, and the phase among
\* those that say no more of them than it did.
LEMMA MergerIdle ==
  ASSUME MInv, UNCHANGED <<objs, merged, abi>>,
         phase' \in Compiling => phase \in Compiling,
         phase' \in Merging => phase \in Merging,
         phase' = "failed to write abi" => phase = "failed to write abi",
         phase' \in Installed => merged = Len(Abis)
  PROVE  MInv'
<1>1. HoldsWhatStands => HoldsWhatStands'
  BY SameObjects DEF HoldsWhatStands
<1>2. IsSequence(objs)'
  BY DEF MInv, IsSequence
<1>3. Abis' = Abis /\ (ClashAt(merged + 1)' <=> ClashAt(merged + 1))
  BY SameObjects
<1> QED BY <1>1, <1>2, <1>3 DEF MInv

LEMMA NextSourceKeeps ==
  ASSUME MInv, phase \in Compiling, UNCHANGED merged, NEW obj, NextSource(obj)
  PROVE  MInv'
<1>1. PICK S : objs \in Seq(S)
  BY DEF MInv, IsSequence
<1>2. objs' \in Seq(S \cup {obj})
  <2>1. objs \in Seq(S \cup {obj}) /\ <<obj>> \in Seq(S \cup {obj})
    BY <1>1
  <2> QED BY <2>1, ConcatProperties DEF NextSource
<1>3. IsSequence(objs)'
  BY <1>2 DEF IsSequence
<1>4. phase' \in {"link", "abigen"}
  BY DEF NextSource
<1>5. phase' \in Compiling /\ phase' \notin Merging /\ phase' \notin Installed
      /\ phase' # "failed to write abi"
  BY <1>4 DEF Compiling, Merging, Installed
<1>6. merged' = 0
  BY DEF MInv
<1> QED BY <1>3, <1>5, <1>6 DEF MInv

LEMMA AbigenKeeps ==
  ASSUME MInv, Abigen PROVE MInv'
<1>1. UNCHANGED <<abi, merged>> /\ phase = "abigen"
  BY DEF Abigen, linking
<1>2. phase \in Compiling
  BY <1>1 DEF Compiling
<1>3. CASE ag' = EmptyABI
  <2>1. NextSource([abi |-> EmptyABI, stubs |-> NoStubs, generated |-> FALSE])
    BY <1>3 DEF Abigen
  <2> QED BY <1>1, <1>2, <2>1, NextSourceKeeps
<1>4. CASE ag' # EmptyABI
  <2>1. phase' = "codegen" /\ UNCHANGED objs
    BY <1>4 DEF Abigen
  <2> QED BY <1>1, <1>2, <2>1, MergerIdle DEF Compiling, Merging, Installed
<1> QED BY <1>3, <1>4

LEMMA VisitKeeps ==
  ASSUME MInv, Visit PROVE MInv'
<1>1. phase = "codegen" /\ UNCHANGED <<objs, abi, merged>>
  BY DEF Visit, linking
<1>2. phase' \in {"codegen", "codegen error"}
  BY <1>1 DEF Visit
<1> QED BY <1>1, <1>2, MergerIdle DEF Compiling, Merging, Installed

LEMMA EndOfSourceKeeps ==
  ASSUME MInv, EndOfSource PROVE MInv'
<1>1. UNCHANGED merged /\ phase \in Compiling
  BY DEF EndOfSource, linking, Compiling
<1>2. NextSource([abi |-> to_json(ag), stubs |-> stubs, generated |-> TRUE])
  BY DEF EndOfSource
<1> QED BY <1>1, <1>2, NextSourceKeeps

LEMMA LinkKeeps ==
  ASSUME MInv, Link PROVE MInv'
<1>0. phase = "link" /\ UNCHANGED <<objs, merged>>
  BY DEF Link, compiling
<1>1. merged = 0 /\ IsSequence(objs)
  BY <1>0 DEF MInv, Compiling
<1>2. CASE phase' = "write abi" /\ abi' = IF Abis = <<>> THEN EmptyABI ELSE Last(Abis)
  <2>1. HoldsWhatStands'
    <3>1. merged' = 0 /\ merged' \in 0 .. Len(Abis)' /\ 1 .. merged' = {}
      <4>1. Len(Abis) \in Nat /\ Abis' = Abis
        BY <1>0, <1>1, OrderIs, SameObjects
      <4> QED BY <1>0, <1>1, <4>1
    <3>2. ASSUME NEW s \in Sections PROVE abi'[s] = StandsAfter(0, s)'
      <4>1. StandsAfter(0, s)' = StandsAfter(0, s)
        BY <1>0, SameObjects
      <4> QED BY <1>1, <1>2, <4>1, FirstStands
    <3> QED BY <3>1, <3>2 DEF HoldsWhatStands
  <2>2. IsSequence(objs)'
    BY <1>0, <1>1 DEF IsSequence
  <2>3. phase' \notin Compiling /\ phase' \notin Installed /\ phase' # "failed to write abi"
    BY <1>2 DEF Compiling, Installed
  <2> QED BY <2>1, <2>2, <2>3 DEF MInv
<1>3. CASE phase' = "no dispatcher" /\ UNCHANGED abi
  BY <1>0, <1>3, MergerIdle DEF Compiling, Merging, Installed
<1> QED BY <1>2, <1>3 DEF Link

LEMMA MergeNextKeeps ==
  ASSUME MInv, MergeNext PROVE MInv'
<1>0. phase = "write abi" /\ UNCHANGED objs /\ merged < Len(Abis)
  BY DEF MergeNext, compiling
<1>1. HoldsWhatStands /\ IsSequence(objs)
  BY <1>0 DEF MInv, Merging
<1>2. Len(Abis) \in Nat /\ merged \in Nat /\ Abis' = Abis
  <2>1. Len(Abis) \in Nat
    BY <1>1, OrderIs
  <2>2. merged \in Nat
    BY <1>1, <2>1 DEF HoldsWhatStands
  <2> QED BY <1>0, <2>1, <2>2, SameObjects
<1>3. IsSequence(objs)'
  BY <1>0, <1>1 DEF IsSequence
<1>4. MergeThrows(abi, Abis[merged + 1]) <=> ClashAt(merged + 1)
  <2>1. (merged + 1) - 1 = merged
    BY <1>2
  <2> QED BY <1>1, <2>1 DEF MergeThrows, ClashAt, HoldsWhatStands
<1>5. CASE MergeThrows(abi, Abis[merged + 1])
  <2>1. phase' = "failed to write abi" /\ UNCHANGED <<abi, merged>>
    BY <1>5 DEF MergeNext
  <2>2. HoldsWhatStands'
    BY <1>0, <1>1, <2>1, SameObjects DEF HoldsWhatStands
  <2>3. merged' < Len(Abis)' /\ ClashAt(merged + 1)'
    BY <1>0, <1>2, <1>4, <1>5, <2>1, SameObjects
  <2>4. phase' \notin Compiling /\ phase' \notin Installed
    BY <2>1 DEF Compiling, Installed
  <2> QED BY <1>3, <2>2, <2>3, <2>4 DEF MInv
<1>6. CASE ~MergeThrows(abi, Abis[merged + 1])
  <2>1. abi' = merge(abi, Abis[merged + 1]) /\ merged' = merged + 1 /\ phase' = "write abi"
    BY <1>0, <1>6 DEF MergeNext
  <2>0. PICK n : n = merged + 1
    OBVIOUS
  <2>2. n \in 0 .. Len(Abis) /\ \A k \in 1 .. n : k \in 1 .. merged \/ k = n
    <3>1. n \in 0 .. Len(Abis)
      <4>1. PICK L \in Nat : L = Len(Abis)
        BY <1>2
      <4>2. merged \in Nat /\ merged < L
        BY <1>0, <1>2, <4>1
      <4>3. n \in 0 .. L
        BY <2>0, <4>2
      <4> QED BY <4>1, <4>3
    <3>2. \A k \in 1 .. n : k \in 1 .. merged \/ k = n
      BY <1>2, <2>0
    <3> QED BY <3>1, <3>2
  <2>3. ASSUME NEW s \in Sections PROVE abi'[s] = StandsAfter(n, s)
    <3>1. abi'[s] = add_object(abi[s], Abis[n][s])
      BY <2>0, <2>1 DEF merge
    <3>2. abi[s] = StandsAfter(merged, s)
      BY <1>1 DEF HoldsWhatStands
    <3>3. StandsAfter(n, s) = add_object(StandsAfter(merged, s), Abis[n][s])
      BY <1>0, <1>1, <1>2, <2>0, NextStands
    <3> QED BY <3>1, <3>2, <3>3
  <2>4. \A k \in 1 .. n : ~ClashAt(k)
    BY <1>1, <1>4, <1>6, <2>0, <2>2 DEF HoldsWhatStands
  <2>5. HoldsWhatStands'
    <3>1. merged' = n
      BY <2>0, <2>1
    <3>2. merged' \in 0 .. Len(Abis)'
      BY <1>2, <2>2, <3>1
    <3>3. \A s \in Sections : abi'[s] = StandsAfter(n, s)'
      BY <1>0, <2>3, SameObjects
    <3>4. \A k \in 1 .. merged' : ~ClashAt(k)'
      BY <1>0, <2>4, <3>1, SameObjects
    <3> QED BY <3>1, <3>2, <3>3, <3>4 DEF HoldsWhatStands
  <2>6. phase' \notin Compiling /\ phase' \notin Installed /\ phase' # "failed to write abi"
    BY <2>1 DEF Compiling, Installed
  <2> QED BY <1>3, <2>5, <2>6 DEF MInv
<1> QED BY <1>5, <1>6

LEMMA SetCodeKeeps ==
  ASSUME MInv, SetCode PROVE MInv'
<1>1. phase = "write abi" /\ merged = Len(Abis) /\ UNCHANGED <<objs, abi, merged>>
  BY DEF SetCode, compiling, linking
<1>2. phase' \in {"deployed", "rejected"}
  BY DEF SetCode
<1> QED BY <1>1, <1>2, MergerIdle DEF Compiling, Merging, Installed

LEMMA NodeKeeps ==
  ASSUME MInv, (\E c \in Calls : Apply(c)) \/ CallFunction \/ Branch PROVE MInv'
<1>1. UNCHANGED <<objs, abi, merged>>
  BY DEF Apply, CallFunction, Branch, compiling, linking
<1>2. phase' \in {"apply", "aborted", "returned"}
  BY DEF Apply, CallFunction, Branch
<1> QED BY <1>1, <1>2, MergerIdle DEF Compiling, Merging, Installed

LEMMA MergeInvariance ==
  Spec => []MInv
<1>1. Init => MInv
  <2> SUFFICES ASSUME Init PROVE MInv
    OBVIOUS
  <2>1. phase = "abigen" /\ merged = 0 /\ objs = <<>>
    BY DEF Init
  <2>2. IsSequence(objs)
    <3>1. objs \in Seq({})
      BY <2>1
    <3> QED BY <3>1 DEF IsSequence
  <2> QED BY <2>1, <2>2 DEF MInv, Merging, Installed
<1>2. MInv /\ [Next]_vars => MInv'
  <2> SUFFICES ASSUME MInv, [Next]_vars PROVE MInv'
    OBVIOUS
  <2>1. CASE UNCHANGED vars
    <3>1. UNCHANGED <<objs, abi, merged, phase>>
      BY <2>1 DEF vars
    <3>2. phase' \in Installed => merged = Len(Abis)
      BY <3>1 DEF MInv
    <3> QED BY <3>1, <3>2, MergerIdle
  <2> QED BY <2>1, AbigenKeeps, VisitKeeps, EndOfSourceKeeps, LinkKeeps, MergeNextKeeps,
             SetCodeKeeps, NodeKeeps DEF Next
<1> QED BY <1>1, <1>2, PTL DEF Spec

\* ABIMerger and writeABI of uosio-ld, for any sources and any number of
\* objects: the merge fails only when some ABI defines an id otherwise than the
\* ABI that has it first, and otherwise the ABI that is written has, of each
\* section, exactly the definitions that stand.
THEOREM MergeStands ==
  Spec => []MergeKeepsStanding
<1>1. MInv => MergeKeepsStanding
  <2> SUFFICES ASSUME MInv PROVE MergeKeepsStanding
    OBVIOUS
  <2>0. IsSequence(objs) /\ Len(Abis) \in Nat /\ DOMAIN Order \subseteq 1 .. Len(Abis) + 1
    BY OrderIs DEF MInv
  <2>1. ASSUME phase = "failed to write abi" PROVE Conflict
    <3>0. merged < Len(Abis) /\ ClashAt(merged + 1) /\ HoldsWhatStands
      BY <2>1 DEF MInv, Merging
    <3>1. merged \in Nat
      BY <2>0, <3>0 DEF HoldsWhatStands
    <3>2. merged + 1 \in 1 .. Len(Abis)
      BY <2>0, <3>0, <3>1
    <3> QED BY <2>0, <3>0, <3>2, ClashIsConflict
  <2>2. ASSUME phase \in Installed PROVE ~Conflict /\ \A s \in Sections : abi[s] = Standing(s)
    <3>1. HoldsWhatStands /\ merged = Len(Abis)
      BY <2>2 DEF MInv, Merging
    <3>2. ~Conflict
      BY <2>0, <3>1, ClashIsConflict DEF HoldsWhatStands
    <3>3. ASSUME NEW s \in Sections PROVE abi[s] = Standing(s)
      <4>1. \A i \in DOMAIN Order : i <= Len(Abis) + 1
        BY <2>0
      <4>2. StandsAfter(Len(Abis), s) = Standing(s)
        <5>1. ASSUME NEW x PROVE x \in StandsAfter(Len(Abis), s) <=> x \in Standing(s)
          BY <4>1, StandsIs
        <5> QED BY <5>1
      <4> QED BY <3>1, <4>2 DEF HoldsWhatStands
    <3> QED BY <3>2, <3>3
  <2> QED BY <2>1, <2>2 DEF MergeKeepsStanding
<1> QED BY <1>1, MergeInvariance, PTL

-----------------------------------------------------------------------------
(***************************************************************************)
(* The ABI and the stubs: every own action that abigen has been through is *)
(* in the ABI of an object, and every one that codegen has been through    *)
(* has its stub, whether codegen wrote it for this source or, the names    *)
(* being known, for an earlier one.                                        *)
(***************************************************************************)
OwnActions(i) == {m \in ToSet(prog.sources[i].methods) : m.own /\ m.kind = "action"}

\* What is true of every ABI on the way: its actions are the contract's, the
\* struct of each is with it, and no other struct has its name.
IsABI(a) == a = [s \in Sections |-> a[s]]

Fits(a) ==
  /\ \A x \in a["actions"] : \E m \in Handlers("action") : x = ActionOf(m)
  /\ \A m \in Handlers("action") : ActionOf(m) \in a["actions"] => StructOf(m) \in a["structs"]
  /\ \A m \in Handlers("action") : \A x \in a["structs"] : x.id = m.method => x = StructOf(m)

InObjects(m) == \E i \in DOMAIN objs : StubOf(m) \in ToSet(objs[i].stubs.actions)
Stubbed(m) == StubOf(m) \in ToSet(stubs.actions) \/ InObjects(m)
Listed(m) == \E i \in DOMAIN objs : ActionOf(m) \in objs[i].abi["actions"]

\* What codegen knows of the actions comes from methods that have their stub.
KnownActions ==
  \A name \in cg.actions : \E m \in Methods :
    /\ m.kind = "action" /\ name \in {NamesOf(m).method, NamesOf(m).name}
    /\ m.own => Stubbed(m)

Shapes ==
  /\ prog \in Programs /\ src \in 1 .. Len(prog.sources) + 1
  /\ cg = [actions |-> cg.actions, notify |-> cg.notify]
  /\ stubs = [actions |-> stubs.actions, notify |-> stubs.notify]
  /\ IsSequence(stubs.actions) /\ IsSequence(objs)
  /\ \A i \in DOMAIN objs : IsSequence(objs[i].stubs.actions)

\* An object that lists an action is one the linker takes the ABI of.
Told(o) == o.abi["actions"] # {} => o.generated

AllFit ==
  IsABI(ag) /\ Fits(ag) /\ \A i \in DOMAIN objs : Fits(objs[i].abi) /\ Told(objs[i])

SourcesDone == \A i \in 1 .. src - 1 : \A m \in OwnActions(i) : Listed(m) /\ InObjects(m)

Between == phase \in {"abigen", "link"} => stubs = NoStubs /\ decl = 0

SourceAtHand ==
  phase = "codegen" =>
    /\ decl \in 0 .. Len(Source.methods)
    /\ \A m \in OwnActions(src) : ActionOf(m) \in ag["actions"]
    /\ \A j \in 1 .. decl : Source.methods[j] \in OwnActions(src) => Stubbed(Source.methods[j])

Going == {"abigen", "codegen", "link"} \cup Merging

AInv ==
  phase \in Going =>
    /\ Shapes
    /\ phase \in {"abigen", "codegen"} => src <= Len(prog.sources)
    /\ phase \in {"link"} \cup Merging => src = Len(prog.sources) + 1
    /\ Plain /\ Apart => AllFit /\ KnownActions /\ SourcesDone /\ Between /\ SourceAtHand

LEMMA DistinctActions ==
  ASSUME Plain, NEW m \in Methods, NEW n \in Methods, m.kind = "action", n.kind = "action",
         m.method = n.method \/ m.action = n.action
  PROVE  m = n
<1>1. /\ NamesOf(m).method = <<m.method>> /\ NamesOf(m).name = <<m.action>>
      /\ NamesOf(n).method = <<n.method>> /\ NamesOf(n).name = <<n.action>>
  BY DEF NamesOf
<1>2. {NamesOf(m).method, NamesOf(m).name} \cap {NamesOf(n).method, NamesOf(n).name} # {}
  BY <1>1
<1> QED BY <1>2 DEF Plain

LEMMA SectionsAre ==
  {"actions", "structs"} \subseteq Sections /\ "actions" # "structs"
  BY DEF Sections

\* add_struct and add_action for one method.
LEMMA MatchFits ==
  ASSUME Plain, NEW m \in Methods, NEW a, IsABI(a), Fits(a)
  PROVE  /\ IsABI(MatchMethod(a, m)) /\ Fits(MatchMethod(a, m))
         /\ a["actions"] \subseteq MatchMethod(a, m)["actions"]
         /\ m.own /\ m.kind = "action" => ActionOf(m) \in MatchMethod(a, m)["actions"]
<1>1. CASE ~(m.kind = "action" /\ m.own)
  BY <1>1 DEF MatchMethod
<1>2. CASE m.kind = "action" /\ m.own
  <2>0. m \in Handlers("action") /\ \A n \in Handlers("action") : n \in Methods /\ n.kind = "action"
    BY <1>2 DEF Handlers
  <2> DEFINE A == a["actions"]
             S == a["structs"]
             b == [a EXCEPT !["structs"] = Insert(S, StructOf(m)),
                            !["actions"] = Insert(A, ActionOf(m))]
  <2>1. MatchMethod(a, m) = b
    BY <1>2 DEF MatchMethod
  <2>2. IsABI(b) /\ b["actions"] = Insert(A, ActionOf(m)) /\ b["structs"] = Insert(S, StructOf(m))
    <3>1. a = [s \in Sections |-> a[s]]
      BY DEF IsABI
    <3>2. b = [s \in Sections |-> b[s]]
      BY <3>1
    <3>3. b["actions"] = Insert(A, ActionOf(m)) /\ b["structs"] = Insert(S, StructOf(m))
      BY <3>1, SectionsAre
    <3> HIDE DEF b
    <3> QED BY <3>2, <3>3 DEF IsABI
  <2>3. ActionOf(m) \in Insert(A, ActionOf(m)) /\ A \subseteq Insert(A, ActionOf(m))
        /\ \A x \in Insert(A, ActionOf(m)) : x \in A \/ x = ActionOf(m)
    <3>1. ASSUME NEW y \in A, y.id = m.action PROVE y = ActionOf(m)
      <4>1. PICK n \in Handlers("action") : y = ActionOf(n)
        BY DEF Fits
      <4>2. n.action = m.action
        BY <3>1, <4>1 DEF ActionOf
      <4> QED BY <1>2, <2>0, <4>1, <4>2, DistinctActions
    <3>2. ActionOf(m).id = m.action
      BY DEF ActionOf
    <3> HIDE DEF A
    <3> QED BY <3>1, <3>2 DEF Insert
  <2>4. StructOf(m) \in Insert(S, StructOf(m)) /\ S \subseteq Insert(S, StructOf(m))
        /\ \A x \in Insert(S, StructOf(m)) : x \in S \/ x = StructOf(m)
    <3>1. ASSUME NEW y \in S, y.id = m.method PROVE y = StructOf(m)
      BY <2>0, <3>1 DEF Fits
    <3>2. StructOf(m).id = m.method
      BY DEF StructOf
    <3> HIDE DEF S
    <3> QED BY <3>1, <3>2 DEF Insert
  <2> HIDE DEF b
  <2>5. ASSUME NEW x \in b["actions"] PROVE \E n \in Handlers("action") : x = ActionOf(n)
    BY <2>0, <2>2, <2>3 DEF Fits
  <2>6. ASSUME NEW n \in Handlers("action"), ActionOf(n) \in b["actions"]
        PROVE  StructOf(n) \in b["structs"]
    <3>1. CASE ActionOf(n) \in A
      BY <2>2, <2>4, <3>1 DEF Fits
    <3>2. CASE ActionOf(n) = ActionOf(m)
      <4>1. n.action = m.action
        BY <3>2 DEF ActionOf
      <4>2. n = m
        BY <1>2, <2>0, <4>1, DistinctActions
      <4> QED BY <2>2, <2>4, <4>2
    <3> QED BY <2>2, <2>3, <2>6, <3>1, <3>2
  <2>7. ASSUME NEW n \in Handlers("action"), NEW x \in b["structs"], x.id = n.method
        PROVE  x = StructOf(n)
    <3>1. CASE x \in S
      BY <2>7, <3>1 DEF Fits
    <3>2. CASE x = StructOf(m)
      <4>1. m.method = n.method
        BY <2>7, <3>2 DEF StructOf
      <4>2. n = m
        BY <1>2, <2>0, <4>1, DistinctActions
      <4> QED BY <3>2, <4>2
    <3> QED BY <2>2, <2>4, <3>1, <3>2
  <2>8. Fits(b)
    BY <2>5, <2>6, <2>7 DEF Fits
  <2> QED BY <2>1, <2>2, <2>3, <2>8
<1> QED BY <1>1, <1>2

\* The other objects leave the actions and their structs alone.
LEMMA OtherFits ==
  ASSUME NEW o, o.section \in Sections \ {"actions"},
         o.section = "structs" => \A m \in Handlers("action") : o.object.id # m.method,
         NEW a, IsABI(a), Fits(a)
  PROVE  /\ IsABI(AddOther(a, o)) /\ Fits(AddOther(a, o))
         /\ AddOther(a, o)["actions"] = a["actions"]
<1> DEFINE t == o.section
           U == IF t = "ricardian_clauses" THEN a[t] \cup {o.object} ELSE Insert(a[t], o.object)
           b == [a EXCEPT ![t] = U]
<1>1. AddOther(a, o) = b
  BY DEF AddOther
<1>2. a[t] \subseteq U /\ \A x \in U : x \in a[t] \/ x = o.object
  BY DEF Insert
<1> HIDE DEF U
<1>3. IsABI(b) /\ b["actions"] = a["actions"]
      /\ (t = "structs" => b["structs"] = U) /\ (t # "structs" => b["structs"] = a["structs"])
  <2>1. a = [s \in Sections |-> a[s]] /\ t \in Sections /\ t # "actions"
    BY DEF IsABI
  <2> HIDE DEF t
  <2>2. b = [s \in Sections |-> b[s]]
    BY <2>1
  <2>3. b["actions"] = a["actions"]
    BY <2>1, SectionsAre
  <2>4. t = "structs" => b["structs"] = U
    BY <2>1, SectionsAre
  <2>5. t # "structs" => b["structs"] = a["structs"]
    BY <2>1, SectionsAre
  <2> HIDE DEF b
  <2> QED BY <2>2, <2>3, <2>4, <2>5 DEF IsABI
<1> HIDE DEF b
<1>4. a["structs"] \subseteq b["structs"]
  BY <1>2, <1>3
<1>5. ASSUME NEW m \in Handlers("action"), NEW x \in b["structs"], x.id = m.method
      PROVE  x = StructOf(m)
  <2>1. x \in a["structs"]
    <3>1. CASE t # "structs"
      BY <1>3, <3>1
    <3>2. CASE t = "structs"
      <4>1. x # o.object
        BY <1>5, <3>2
      <4> QED BY <1>2, <1>3, <3>2, <4>1
    <3> QED BY <3>1, <3>2
  <2> QED BY <1>5, <2>1 DEF Fits
<1>6. Fits(b)
  BY <1>3, <1>4, <1>5 DEF Fits
<1> QED BY <1>1, <1>3, <1>6

\* to_json keeps the actions and the struct of each.
LEMMA ToJsonFits ==
  ASSUME Apart, NEW a, IsABI(a), Fits(a)
  PROVE  Fits(to_json(a)) /\ to_json(a)["actions"] = a["actions"]
<1> DEFINE S == {s \in a["structs"] : validate_struct(a, s)}
           T == {x \in a["types"] : validate_types(a, x)}
           b == [a EXCEPT !["structs"] = S, !["types"] = T]
<1>1. to_json(a) = b
  BY DEF to_json
<1>2. S \subseteq a["structs"]
  OBVIOUS
<1>3. ASSUME NEW m \in Handlers("action"), ActionOf(m) \in a["actions"] PROVE StructOf(m) \in S
  <2>1. StructOf(m) \in a["structs"]
    BY <1>3 DEF Fits
  <2>2. StructOf(m).id = m.method /\ ActionOf(m).def = m.method /\ m.method \notin Builtin
    BY DEF StructOf, ActionOf, Apart
  <2>3. ActionOf(m) \in Users(a)
    BY <1>3 DEF Users
  <2>4. validate_struct(a, StructOf(m))
    BY <2>2, <2>3 DEF validate_struct
  <2> QED BY <2>1, <2>4
<1> HIDE DEF S, T
<1>4. b["actions"] = a["actions"] /\ b["structs"] = S
  <2>1. a = [s \in Sections |-> a[s]]
    BY DEF IsABI
  <2> QED BY <2>1 DEF Sections
<1> HIDE DEF b
<1>5. Fits(b)
  BY <1>2, <1>3, <1>4 DEF Fits
<1> QED BY <1>1, <1>4, <1>5

\* One turn of abigen, as a step of the recursion.
AbigenTurn(g, a, i) ==
  IF i = 0 THEN a
  ELSE IF i <= Len(Source.methods) THEN MatchMethod(g[i - 1], Source.methods[i])
  ELSE AddOther(g[i - 1], Source.other[i - Len(Source.methods)])

LEMMA SourceIs ==
  ASSUME prog \in Programs, src \in 1 .. Len(prog.sources)
  PROVE  /\ Source \in ToSet(prog.sources) /\ src \in DOMAIN prog.sources
         /\ Len(Source.methods) \in Nat /\ DOMAIN Source.methods = 1 .. Len(Source.methods)
         /\ Len(Source.other) \in Nat /\ DOMAIN Source.other = 1 .. Len(Source.other)
         /\ \A i \in DOMAIN Source.other : Source.other[i].section \in Sections \ {"actions"}
         /\ \A i \in DOMAIN Source.methods : Source.methods[i] \in Methods
<1>1. prog.sources \in Seq(ToSet(prog.sources))
  BY ProgramsAssumption
<1>2. src \in DOMAIN prog.sources
  BY <1>1, LenProperties
<1>3. Source \in ToSet(prog.sources)
  BY <1>2 DEF Source, ToSet
<1> DEFINE s == Source
<1>4. /\ s.methods \in Seq(ToSet(s.methods)) /\ s.other \in Seq(ToSet(s.other))
      /\ \A o \in ToSet(s.other) : o.section \in Sections \ {"actions"}
  BY <1>3, ProgramsAssumption
<1> HIDE DEF s
<1>5. /\ Len(s.methods) \in Nat /\ DOMAIN s.methods = 1 .. Len(s.methods)
      /\ Len(s.other) \in Nat /\ DOMAIN s.other = 1 .. Len(s.other)
  BY <1>4, LenProperties
<1>6. \A i \in DOMAIN s.other : s.other[i].section \in Sections \ {"actions"}
  BY <1>4 DEF ToSet
<1>7. ASSUME NEW i \in DOMAIN s.methods PROVE s.methods[i] \in Methods
  <2>1. s.methods[i] \in ToSet(prog.sources[src].methods)
    BY DEF s, Source, ToSet
  <2> QED BY <1>2, <2>1 DEF Methods
<1> QED BY <1>2, <1>3, <1>5, <1>6, <1>7 DEF s

\* abigen's turns over the source at hand.
AbigenRun(w, a) ==
  LET N == Len(Source.methods) + Len(Source.other)
  IN AbigenOf(a) = w[N] /\ \A i \in 0 .. N : w[i] = AbigenTurn(w, a, i)

LEMMA AbigenIs ==
  ASSUME prog \in Programs, src \in 1 .. Len(prog.sources), NEW a, IsABI(a)
  PROVE  \E w : AbigenRun(w, a)
<1> DEFINE ms == Source.methods
           os == Source.other
           n == Len(ms)
           N == n + Len(os)
<1>0. /\ n \in Nat /\ DOMAIN ms = 1 .. n /\ Len(os) \in Nat /\ DOMAIN os = 1 .. Len(os)
      /\ \A i \in DOMAIN os : os[i].section \in Sections \ {"actions"}
      /\ \A i \in DOMAIN ms : ms[i] \in Methods
  BY SourceIs
<1> DEFINE Vs == {StructOf(ms[i]) : i \in 1 .. n}
           Va == {ActionOf(ms[i]) : i \in 1 .. n}
           Vo == {os[i].object : i \in DOMAIN os}
           V == (UNION {a[s] : s \in Sections}) \cup Vs \cup Va \cup Vo
           R == [Sections -> SUBSET V]
           Turn(i, r) == IF i <= n THEN MatchMethod(r, ms[i]) ELSE AddOther(r, os[i - n])
           F == [i \in 1 .. N |-> [r \in R |-> Turn(i, r)]]
           Body(g) == [i \in 0 .. N |-> AbigenTurn(g, a, i)]
<1>3. a \in R /\ \A r \in R : IsABI(r)
  <2>1. \A s \in Sections : a[s] \in SUBSET V
    OBVIOUS
  <2> HIDE DEF V
  <2>2. a = [s \in Sections |-> a[s]]
    BY DEF IsABI
  <2>3. a \in R
    BY <2>1, <2>2
  <2>4. ASSUME NEW r \in R PROVE r = [s \in Sections |-> r[s]]
    OBVIOUS
  <2> HIDE DEF R
  <2> QED BY <2>3, <2>4 DEF IsABI
<1>4a. N \in Nat /\ \A j \in 1 .. n : j <= N
  <2> DEFINE k == Len(os)
  <2> HIDE DEF n, k
  <2> QED BY <1>0 DEF k
<1>4. \A i \in 1 .. N : (i <= n => i \in DOMAIN ms) /\ (~(i <= n) => i - n \in DOMAIN os)
  <2> DEFINE k == Len(os)
  <2> HIDE DEF n, k
  <2>1. \A i \in 1 .. N : (i <= n => i \in 1 .. n) /\ (~(i <= n) => i - n \in 1 .. k)
    BY <1>0 DEF k
  <2> QED BY <1>0, <2>1 DEF k
<1>5. ASSUME NEW i \in 1 .. N, NEW r \in R PROVE Turn(i, r) \in R
  <2>1. CASE i <= n
    <3> DEFINE m == ms[i]
    <3>1. StructOf(m) \in V /\ ActionOf(m) \in V
      <4>1. i \in 1 .. n
        BY <1>0, <1>4, <2>1
      <4>2. StructOf(m) \in Vs /\ ActionOf(m) \in Va
        <5> HIDE DEF n
        <5> QED BY <4>1
      <4> HIDE DEF Vs, Va, Vo, m
      <4> QED BY <4>2
    <3> HIDE DEF V, m
    <3>2. MatchMethod(r, m) \in R
      BY <3>1, SectionsAre DEF MatchMethod, Insert
    <3> QED BY <2>1, <3>2 DEF m
  <2>2. CASE ~(i <= n)
    <3> DEFINE o == os[i - n]
    <3>1. o.object \in V
      <4>1. i - n \in DOMAIN os
        BY <1>4, <2>2
      <4>2. o.object \in Vo
        <5> HIDE DEF n
        <5> QED BY <4>1
      <4> HIDE DEF Vs, Va, Vo, o
      <4> QED BY <4>2
    <3> HIDE DEF V, o
    <3>2. AddOther(r, o) \in R
      BY <3>1 DEF AddOther, Insert
    <3> QED BY <2>2, <3>2 DEF o
  <2> QED BY <2>1, <2>2
<1>6. F \in [1 .. N -> [R -> R]]
  <2> HIDE DEF Turn, R, N
  <2> QED BY <1>5
<1>7. PICK f \in [0 .. N -> R] : f[0] = a /\ \A i \in 1 .. N : f[i] = F[i][f[i - 1]]
  <2>0. N \in Nat
    BY <1>4a
  <2>1. a \in R
    BY <1>3
  <2> HIDE DEF F, R, N
  <2>2. \E f : IsLoop(f, N, R, a, F)
    BY <1>6, <2>0, <2>1, LoopExists
  <2> QED BY <2>2 DEF IsLoop
<1>8. ASSUME NEW i \in 0 .. N PROVE f[i] = AbigenTurn(f, a, i)
  <2>1. CASE i = 0
    BY <1>7, <2>1 DEF AbigenTurn
  <2>2. CASE i # 0
    <3> HIDE DEF N
    <3>1. i \in 1 .. N /\ i - 1 \in 0 .. N /\ f[i - 1] \in R
      BY <1>4a, <1>7, <2>2
    <3>2. F[i][f[i - 1]] = Turn(i, f[i - 1])
      <4> HIDE DEF R, Turn
      <4> QED BY <3>1
    <3>3. f[i] = Turn(i, f[i - 1])
      <4> HIDE DEF F, Turn
      <4> QED BY <1>7, <3>1, <3>2
    <3> QED BY <2>2, <3>3 DEF AbigenTurn
  <2> QED BY <2>1, <2>2
<1>9. f = Body(f)
  <2> HIDE DEF N, R
  <2> QED BY <1>7, <1>8
<1> DEFINE w == CHOOSE g : g = Body(g)
<1>10. AbigenOf(a) = w[N]
  BY Zenon DEF AbigenOf, AbigenTurn
<1>11. w = Body(w)
  <2> HIDE DEF Body
  <2> QED BY <1>9, Zenon
<1> HIDE DEF w
<1>12. \A i \in 0 .. N : w[i] = AbigenTurn(w, a, i)
  BY <1>11
<1>13. AbigenRun(w, a)
  BY <1>10, <1>12 DEF AbigenRun
<1> QED BY <1>13

LEMMA AbigenFits ==
  ASSUME prog \in Programs, src \in 1 .. Len(prog.sources), Plain, Apart,
         NEW a, IsABI(a), Fits(a)
  PROVE  /\ IsABI(AbigenOf(a)) /\ Fits(AbigenOf(a))
         /\ a["actions"] \subseteq AbigenOf(a)["actions"]
         /\ \A m \in OwnActions(src) : ActionOf(m) \in AbigenOf(a)["actions"]
<1> DEFINE ms == Source.methods
           os == Source.other
           n == Len(ms)
           N == n + Len(os)
<1>0. /\ n \in Nat /\ DOMAIN ms = 1 .. n /\ Len(os) \in Nat /\ DOMAIN os = 1 .. Len(os)
      /\ \A i \in DOMAIN os : os[i].section \in Sections \ {"actions"}
      /\ \A i \in DOMAIN ms : ms[i] \in Methods
  BY SourceIs
<1>1. ASSUME NEW i \in DOMAIN os, os[i].section = "structs", NEW m \in Handlers("action")
      PROVE  os[i].object.id # m.method
  <2>1. src \in DOMAIN prog.sources /\ os[i] \in ToSet(prog.sources[src].other)
    BY SourceIs DEF Source, ToSet
  <2> QED BY <1>1, <2>1 DEF Apart
<1>2. OwnActions(src) = {m \in {ms[i] : i \in DOMAIN ms} : m.own /\ m.kind = "action"}
  BY DEF OwnActions, ToSet, Source
<1> DEFINE Turn(i, r) == IF i <= n THEN MatchMethod(r, ms[i]) ELSE AddOther(r, os[i - n])
<1>4a. N \in Nat /\ \A j \in 1 .. n : j <= N
  <2> DEFINE k == Len(os)
  <2> HIDE DEF n, k
  <2> QED BY <1>0 DEF k
<1>4. \A i \in 1 .. N : (i <= n => i \in DOMAIN ms) /\ (~(i <= n) => i - n \in DOMAIN os)
  <2> DEFINE k == Len(os)
  <2> HIDE DEF n, k
  <2>1. \A i \in 1 .. N : (i <= n => i \in 1 .. n) /\ (~(i <= n) => i - n \in 1 .. k)
    BY <1>0 DEF k
  <2> QED BY <1>0, <2>1 DEF k
<1>9. PICK w : AbigenRun(w, a)
  BY AbigenIs
<1>10. AbigenOf(a) = w[N]
  BY <1>9 DEF AbigenRun
<1>12. \A i \in 0 .. N : w[i] = AbigenTurn(w, a, i)
  BY <1>9 DEF AbigenRun
<1> DEFINE Kept(k) == /\ IsABI(w[k]) /\ Fits(w[k]) /\ a["actions"] \subseteq w[k]["actions"]
                      /\ \A j \in 1 .. n : (j <= k /\ ms[j].own /\ ms[j].kind = "action")
                                             => ActionOf(ms[j]) \in w[k]["actions"]
           T == {k \in 0 .. N : Kept(k)}
<1>13. 0 \in T
  <2>1. 0 \in 0 .. N /\ w[0] = a
    <3>1. 0 \in 0 .. N
      <4> HIDE DEF N
      <4> QED BY <1>4a
    <3>2. w[0] = AbigenTurn(w, a, 0)
      BY <1>12, <3>1
    <3> QED BY <3>1, <3>2 DEF AbigenTurn
  <2> HIDE DEF N
  <2>2. \A j \in 1 .. n : ~(j <= 0)
    BY <1>0
  <2>3. Kept(0)
    BY <2>1, <2>2
  <2> QED BY <2>1, <2>3
<1>14. ASSUME NEW k \in 1 .. N, k - 1 \in T PROVE k \in T
  <2>0. Kept(k - 1) /\ k \in 0 .. N /\ k # 0 /\ k \in Nat
    <3>1. k \in 0 .. N /\ k # 0 /\ k \in Nat
      <4> HIDE DEF N
      <4> QED BY <1>4a
    <3>2. Kept(k - 1)
      BY <1>14
    <3> QED BY <3>1, <3>2
  <2> DEFINE u == w[k - 1]
  <2>1. w[k] = Turn(k, u)
    <3>1. w[k] = AbigenTurn(w, a, k)
      BY <1>12, <2>0
    <3> QED BY <2>0, <3>1, Zenon DEF AbigenTurn
  <2>2. IsABI(u) /\ Fits(u) /\ a["actions"] \subseteq u["actions"]
    BY <2>0
  <2>3. ASSUME NEW j \in 1 .. n, j <= k - 1, ms[j].own, ms[j].kind = "action"
        PROVE  ActionOf(ms[j]) \in u["actions"]
    BY <2>0, <2>3
  <2> HIDE DEF u
  <2>4. CASE k <= n
    <3>1. w[k] = MatchMethod(u, ms[k]) /\ ms[k] \in Methods
      BY <1>0, <1>4, <2>1, <2>4
    <3>2. /\ IsABI(w[k]) /\ Fits(w[k]) /\ u["actions"] \subseteq w[k]["actions"]
          /\ ms[k].own /\ ms[k].kind = "action" => ActionOf(ms[k]) \in w[k]["actions"]
      BY <2>2, <3>1, MatchFits
    <3>3. \A j \in 1 .. n : j <= k => j = k \/ j <= k - 1
      BY <1>0, <2>0
    <3>4. ASSUME NEW j \in 1 .. n, j <= k, ms[j].own, ms[j].kind = "action"
          PROVE  ActionOf(ms[j]) \in w[k]["actions"]
      <4>1. CASE j = k
        BY <3>2, <3>4, <4>1
      <4>2. CASE j <= k - 1
        BY <2>3, <3>2, <3>4, <4>2
      <4> QED BY <3>3, <3>4, <4>1, <4>2
    <3>5. Kept(k)
      BY <2>2, <3>2, <3>4
    <3> QED BY <2>0, <3>5
  <2>5. CASE ~(k <= n)
    <3> DEFINE o == os[k - n]
    <3>1. w[k] = AddOther(u, o) /\ k - n \in DOMAIN os
      BY <1>4, <2>1, <2>5
    <3>2. o.section \in Sections \ {"actions"}
          /\ (o.section = "structs" => \A m \in Handlers("action") : o.object.id # m.method)
      BY <1>0, <1>1, <3>1
    <3> HIDE DEF o
    <3>3. IsABI(w[k]) /\ Fits(w[k]) /\ w[k]["actions"] = u["actions"]
      BY <2>2, <3>1, <3>2, OtherFits
    <3>4. \A j \in 1 .. n : j <= k - 1
      BY <1>0, <2>0, <2>5
    <3>5. Kept(k)
      BY <2>2, <2>3, <3>3, <3>4
    <3> QED BY <2>0, <3>5
  <2> QED BY <2>4, <2>5
<1>15. N \in T
  <2> HIDE DEF T, N
  <2>1. \A k \in 0 .. N : k \in T
    BY <1>4a, <1>13, <1>14, UptoInduction
  <2> QED BY <1>4a, <2>1
<1>16. Kept(N)
  BY <1>15
<1>18. \A m \in OwnActions(src) : ActionOf(m) \in w[N]["actions"]
  <2> HIDE DEF N, n
  <2> QED BY <1>0, <1>2, <1>4a, <1>16
<1> HIDE DEF N
<1> QED BY <1>10, <1>16, <1>18

-----------------------------------------------------------------------------
(***************************************************************************)
(* What a sequence of sequences holds.                                     *)
(***************************************************************************)
LEMMA ToSetIs ==
  ASSUME NEW S, NEW s \in Seq(S)
  PROVE  /\ Len(s) \in Nat /\ DOMAIN s = 1 .. Len(s)
         /\ \A x : x \in ToSet(s) <=> \E i \in 1 .. Len(s) : s[i] = x
  BY LenProperties DEF ToSet

LEMMA AppendHas ==
  ASSUME NEW s, IsSequence(s), NEW x
  PROVE  IsSequence(Append(s, x)) /\ ToSet(Append(s, x)) = ToSet(s) \cup {x}
<1>1. PICK S : s \in Seq(S)
  BY DEF IsSequence
<1> DEFINE V == S \cup {x}
           t == Append(s, x)
           n == Len(s)
<1>2. s \in Seq(V) /\ x \in V
  BY <1>1
<1> HIDE DEF V
<1>3. /\ t \in Seq(V) /\ Len(t) = n + 1
      /\ \A i \in 1 .. n : t[i] = s[i]
      /\ t[n + 1] = x
  BY <1>2, AppendProperties
<1>4. n \in Nat /\ \A y : y \in ToSet(s) <=> \E i \in 1 .. n : s[i] = y
  BY <1>2, ToSetIs
<1>5. \A y : y \in ToSet(t) <=> \E i \in 1 .. Len(t) : t[i] = y
  BY <1>3, ToSetIs
<1>6. IsSequence(t)
  BY <1>3 DEF IsSequence
<1> HIDE DEF t, n
<1>7. \A i \in 1 .. n + 1 : i \in 1 .. n \/ i = n + 1
  BY <1>4
<1>8. \A i \in 1 .. n : i \in 1 .. n + 1
  BY <1>4
<1>9. n + 1 \in 1 .. n + 1
  BY <1>4
<1>10. ASSUME NEW y \in ToSet(t) PROVE y \in ToSet(s) \cup {x}
  <2>1. PICK i \in 1 .. n + 1 : t[i] = y
    BY <1>3, <1>5
  <2> QED BY <1>3, <1>4, <1>7, <2>1
<1>11. ASSUME NEW y \in ToSet(s) PROVE y \in ToSet(t)
  <2>1. PICK i \in 1 .. n : s[i] = y
    BY <1>4
  <2> QED BY <1>3, <1>5, <1>8, <2>1
<1>12. x \in ToSet(t)
  BY <1>3, <1>5, <1>9
<1> QED BY <1>6, <1>10, <1>11, <1>12 DEF t

LEMMA ConcatHas ==
  ASSUME NEW S, NEW s \in Seq(S), NEW t \in Seq(S), NEW x, x \in ToSet(s) \/ x \in ToSet(t)
  PROVE  x \in ToSet(s \o t)
<1> DEFINE u == s \o t
           m == Len(s)
           n == Len(t)
<1>1. /\ u \in Seq(S) /\ Len(u) = m + n
      /\ \A i \in 1 .. m + n : u[i] = IF i <= m THEN s[i] ELSE t[i - m]
  BY ConcatProperties
<1>2. m \in Nat /\ n \in Nat
      /\ (x \in ToSet(s) <=> \E i \in 1 .. m : s[i] = x)
      /\ (x \in ToSet(t) <=> \E i \in 1 .. n : t[i] = x)
  BY ToSetIs
<1>3. x \in ToSet(u) <=> \E i \in 1 .. Len(u) : u[i] = x
  BY <1>1, ToSetIs
<1> HIDE DEF u, m, n
<1>4. CASE x \in ToSet(s)
  <2>1. PICK i \in 1 .. m : s[i] = x
    BY <1>2, <1>4
  <2>2. i \in 1 .. m + n /\ i <= m
    BY <1>2
  <2> QED BY <1>1, <1>3, <2>1, <2>2 DEF u
<1>5. CASE x \in ToSet(t)
  <2>1. PICK i \in 1 .. n : t[i] = x
    BY <1>2, <1>5
  <2>2. m + i \in 1 .. m + n /\ ~(m + i <= m) /\ (m + i) - m = i
    BY <1>2
  <2> QED BY <1>1, <1>3, <2>1, <2>2 DEF u
<1> QED BY <1>4, <1>5

FlattenTurn(g, seqs, i) == IF i = 1 THEN seqs[i] ELSE g[i - 1] \o seqs[i]

\* The pieces put together one after the other.
Flattened(w, seqs) ==
  /\ w[1] = seqs[1] /\ FlattenSeq(seqs) = w[Len(seqs)]
  /\ \A i \in 2 .. Len(seqs) : w[i] = w[i - 1] \o seqs[i]

LEMMA FlattenIs ==
  ASSUME NEW seqs, IsSequence(seqs), \A i \in DOMAIN seqs : IsSequence(seqs[i]), Len(seqs) # 0
  PROVE  \E w : Flattened(w, seqs)
<1> DEFINE N == Len(seqs)
           V == UNION {ToSet(seqs[i]) : i \in 1 .. N}
           R == Seq(V)
<1>0. N \in Nat /\ DOMAIN seqs = 1 .. N
  <2>1. PICK S : seqs \in Seq(S)
    BY DEF IsSequence
  <2> QED BY <2>1, LenProperties
<1>1. N # 0
  OBVIOUS
<1>2. ASSUME NEW i \in 1 .. N PROVE seqs[i] \in R
  <2> DEFINE s == seqs[i]
  <2>1. PICK S : s \in Seq(S)
    BY <1>0 DEF IsSequence
  <2>2. ToSet(s) \subseteq V
    OBVIOUS
  <2> HIDE DEF V, s
  <2>3. Len(s) \in Nat /\ DOMAIN s = 1 .. Len(s) /\ \A j \in 1 .. Len(s) : s[j] \in ToSet(s)
    BY <2>1, ToSetIs
  <2>4. s \in [1 .. Len(s) -> V]
    BY <2>1, <2>2, <2>3
  <2>5. s \in Seq(V)
    BY <2>3, <2>4
  <2> QED BY <2>5 DEF s
<1> HIDE DEF V
<1> DEFINE e == <<>>
           F == [i \in 1 .. N |-> [r \in R |-> r \o seqs[i]]]
           Body(g) == [i \in 1 .. N |-> FlattenTurn(g, seqs, i)]
<1>3. F \in [1 .. N -> [R -> R]]
  <2>1. ASSUME NEW i \in 1 .. N, NEW r \in R PROVE r \o seqs[i] \in R
    BY <1>2, ConcatProperties
  <2> HIDE DEF R, N
  <2> QED BY <2>1
<1>4. PICK f : f \in [0 .. N -> R] /\ f[0] = e /\ \A i \in 1 .. N : f[i] = F[i][f[i - 1]]
  <2>1. e \in R
    OBVIOUS
  <2> HIDE DEF F, R, N, e
  <2>2. \E f : IsLoop(f, N, R, e, F)
    BY <1>0, <1>3, <2>1, LoopExists
  <2> QED BY <2>2 DEF IsLoop
<1>5. ASSUME NEW i \in 1 .. N PROVE f[i] = f[i - 1] \o seqs[i]
  <2>1. f[i - 1] \in R
    <3> HIDE DEF N, R, F
    <3> QED BY <1>0, <1>4
  <2>2. F[i][f[i - 1]] = f[i - 1] \o seqs[i]
    <3> HIDE DEF R, N
    <3> QED BY <2>1
  <2> HIDE DEF F, N
  <2> QED BY <1>4, <2>2
<1> DEFINE h == [i \in 1 .. N |-> f[i]]
<1>6. h = Body(h)
  <2>1. ASSUME NEW i \in 1 .. N PROVE f[i] = FlattenTurn(h, seqs, i)
    <3>1. CASE i = 1
      <4>1. f[1] = e \o seqs[1]
        <5>1. 1 - 1 = 0
          OBVIOUS
        <5> HIDE DEF e, F
        <5> QED BY <1>4, <1>5, <3>1, <5>1
      <4>2. f[1] = seqs[1]
        BY <1>2, <3>1, <4>1
      <4> QED BY <3>1, <4>2 DEF FlattenTurn
    <3>2. CASE i # 1
      <4>1. i - 1 \in 1 .. N
        <5> HIDE DEF N
        <5> QED BY <1>0, <3>2
      <4>2. h[i - 1] = f[i - 1]
        <5> HIDE DEF N
        <5> QED BY <4>1
      <4> HIDE DEF h
      <4> QED BY <1>5, <3>2, <4>2 DEF FlattenTurn
    <3> QED BY <3>1, <3>2
  <2> HIDE DEF N
  <2> QED BY <2>1
<1> DEFINE w == CHOOSE g : g = Body(g)
<1>7. FlattenSeq(seqs) = w[N]
  BY <1>1, Zenon DEF FlattenSeq, FlattenTurn
<1>8. w = Body(w)
  <2> HIDE DEF Body, h
  <2> QED BY <1>6, Zenon
<1> HIDE DEF w, h
<1>9. \A i \in 1 .. N : w[i] = FlattenTurn(w, seqs, i)
  BY <1>8
<1>10. w[1] = seqs[1]
  <2>1. 1 \in 1 .. N
    <3> HIDE DEF N
    <3> QED BY <1>0, <1>1
  <2> QED BY <1>9, <2>1 DEF FlattenTurn
<1>11. ASSUME NEW i \in 2 .. N PROVE w[i] = w[i - 1] \o seqs[i]
  <2>1. i \in 1 .. N /\ i # 1
    <3> HIDE DEF N
    <3> QED BY <1>0
  <2> QED BY <1>9, <2>1 DEF FlattenTurn
<1>12. Flattened(w, seqs)
  BY <1>7, <1>10, <1>11 DEF Flattened
<1> QED BY <1>12

LEMMA FlattenHas ==
  ASSUME NEW seqs, IsSequence(seqs), \A i \in DOMAIN seqs : IsSequence(seqs[i]),
         NEW k \in DOMAIN seqs, NEW x \in ToSet(seqs[k])
  PROVE  \E i \in DOMAIN FlattenSeq(seqs) : FlattenSeq(seqs)[i] = x
<1> DEFINE N == Len(seqs)
           V == UNION {ToSet(seqs[i]) : i \in 1 .. N}
           R == Seq(V)
<1>0. N \in Nat /\ DOMAIN seqs = 1 .. N
  <2>1. PICK S : seqs \in Seq(S)
    BY DEF IsSequence
  <2> QED BY <2>1, LenProperties
<1>1. k \in 1 .. N /\ N # 0
  BY <1>0
<1>2. ASSUME NEW i \in 1 .. N PROVE seqs[i] \in R
  <2> DEFINE s == seqs[i]
  <2>1. PICK S : s \in Seq(S)
    BY <1>0 DEF IsSequence
  <2>2. ToSet(s) \subseteq V
    OBVIOUS
  <2> HIDE DEF V, s
  <2>3. Len(s) \in Nat /\ DOMAIN s = 1 .. Len(s) /\ \A j \in 1 .. Len(s) : s[j] \in ToSet(s)
    BY <2>1, ToSetIs
  <2>4. s \in [1 .. Len(s) -> V]
    BY <2>1, <2>2, <2>3
  <2>5. s \in Seq(V)
    BY <2>3, <2>4
  <2> QED BY <2>5 DEF s
<1> HIDE DEF V
<1>7a. PICK w : Flattened(w, seqs)
  BY <1>0, <1>1, FlattenIs
<1>7. FlattenSeq(seqs) = w[N]
  BY <1>7a DEF Flattened
<1>9. w[1] = seqs[1] /\ \A i \in 2 .. N : w[i] = w[i - 1] \o seqs[i]
  BY <1>7a DEF Flattened
<1> DEFINE Kept(n) == w[n] \in R /\ \A i \in 1 .. n : ToSet(seqs[i]) \subseteq ToSet(w[n])
           T == {n \in 0 .. N : n # 0 => Kept(n)}
<1>10. 0 \in T
  BY <1>0
<1>11. ASSUME NEW n \in 1 .. N, n - 1 \in T PROVE n \in T
  <2> HIDE DEF N, R
  <2>1. n \in 0 .. N /\ n \in Nat
    BY <1>0
  <2>2. CASE n = 1
    <3>1. w[n] = seqs[n]
      BY <1>9, <2>2
    <3>2. \A i \in 1 .. n : i = n
      BY <2>1, <2>2
    <3>3. Kept(n)
      BY <1>2, <3>1, <3>2
    <3> QED BY <2>1, <3>3
  <2>3. CASE n # 1
    <3>1. w[n] = w[n - 1] \o seqs[n]
      <4>1. n \in 2 .. N
        BY <1>0, <2>3
      <4> QED BY <1>9, <4>1
    <3>2. Kept(n - 1)
      <4>1. n - 1 # 0
        BY <2>1, <2>3
      <4> QED BY <1>11, <4>1
    <3> DEFINE u == w[n - 1]
               v == seqs[n]
    <3>3. u \in Seq(V) /\ v \in Seq(V) /\ w[n] = u \o v
      BY <1>2, <3>1, <3>2 DEF R
    <3>4. \A i \in 1 .. n - 1 : ToSet(seqs[i]) \subseteq ToSet(u)
      BY <3>2
    <3> HIDE DEF u
    <3>5. w[n] \in R /\ ToSet(u) \subseteq ToSet(w[n]) /\ ToSet(v) \subseteq ToSet(w[n])
      <4> HIDE DEF v
      <4>1. w[n] \in R
        BY <3>3, ConcatProperties DEF R
      <4>2. ASSUME NEW y, y \in ToSet(u) \/ y \in ToSet(v) PROVE y \in ToSet(w[n])
        <5>1. y \in ToSet(u \o v)
          BY <3>3, <4>2, ConcatHas
        <5> QED BY <3>3, <5>1
      <4> QED BY <4>1, <4>2
    <3>6. \A i \in 1 .. n : i = n \/ i \in 1 .. n - 1
      BY <2>1
    <3>7. Kept(n)
      BY <3>4, <3>5, <3>6
    <3> QED BY <2>1, <3>7
  <2> QED BY <2>2, <2>3
<1>12. N \in T
  <2> HIDE DEF T, N
  <2>1. \A n \in 0 .. N : n \in T
    BY <1>0, <1>10, <1>11, UptoInduction
  <2> QED BY <1>0, <2>1
<1>13. x \in ToSet(w[N])
  <2> HIDE DEF N, R
  <2> QED BY <1>1, <1>12
<1> HIDE DEF N
<1> QED BY <1>7, <1>13 DEF ToSet

-----------------------------------------------------------------------------
(***************************************************************************)
(* The steps.                                                              *)
(***************************************************************************)
LEMMA SameProgram ==
  ASSUME prog' = prog
  PROVE  /\ Methods' = Methods /\ Handlers("action")' = Handlers("action")
         /\ Plain' <=> Plain
         /\ Apart' <=> Apart
         /\ \A i : OwnActions(i)' = OwnActions(i)
         /\ \A a : Fits(a)' <=> Fits(a)
<1>1. Methods' = Methods
  BY DEF Methods
<1>2. Handlers("action")' = Handlers("action")
  BY <1>1 DEF Handlers
<1>3. Plain' <=> Plain
  BY <1>1 DEF Plain
<1>4. Apart' <=> Apart
  BY <1>2 DEF Apart
<1>5. \A i : OwnActions(i)' = OwnActions(i)
  BY DEF OwnActions
<1>6. \A a : Fits(a)' <=> Fits(a)
  BY <1>2 DEF Fits
<1> QED BY <1>1, <1>2, <1>3, <1>4, <1>5, <1>6

LEMMA OwnIs ==
  ASSUME prog \in Programs, NEW i \in 1 .. Len(prog.sources), NEW m \in OwnActions(i)
  PROVE  m \in Handlers("action") /\ m \in Methods /\ m.own /\ m.kind = "action"
<1>1. i \in DOMAIN prog.sources
  <2>1. prog.sources \in Seq(ToSet(prog.sources))
    BY ProgramsAssumption
  <2> QED BY <2>1, LenProperties
<1>2. m \in ToSet(prog.sources[i].methods) /\ m.own /\ m.kind = "action"
  BY DEF OwnActions
<1>3. m \in Methods
  BY <1>1, <1>2 DEF Methods
<1> QED BY <1>2, <1>3 DEF Handlers

\* main puts the output of a source before the others.
LEMMA NextObjects ==
  ASSUME IsSequence(objs), NEW obj, objs' = <<obj>> \o objs
  PROVE  /\ IsSequence(objs')
         /\ \A i \in DOMAIN objs' : objs'[i] = obj \/ \E j \in DOMAIN objs : objs'[i] = objs[j]
         /\ \A j \in DOMAIN objs : \E i \in DOMAIN objs' : objs'[i] = objs[j]
         /\ \E i \in DOMAIN objs' : objs'[i] = obj
<1>1. PICK S : objs \in Seq(S)
  BY DEF IsSequence
<1> DEFINE V == S \cup {obj}
           l == <<obj>>
           n == Len(objs)
<1>2. objs \in Seq(V) /\ l \in Seq(V) /\ Len(l) = 1 /\ l[1] = obj
  BY <1>1
<1> HIDE DEF V
<1>3. n \in Nat /\ DOMAIN objs = 1 .. n
  BY <1>2, LenProperties
<1>4. /\ l \o objs \in Seq(V) /\ Len(l \o objs) = Len(l) + n
      /\ \A i \in 1 .. Len(l) + n : (l \o objs)[i] = IF i <= Len(l) THEN l[i] ELSE objs[i - Len(l)]
  BY <1>2, ConcatProperties
<1> HIDE DEF l
<1>5. objs' = l \o objs
  BY DEF l
<1> DEFINE o == objs'
<1>6. o \in Seq(V) /\ Len(o) = 1 + n /\ DOMAIN o = 1 .. 1 + n
  <2>1. o \in Seq(V) /\ Len(o) = 1 + n
    BY <1>2, <1>4, <1>5
  <2> QED BY <2>1, LenProperties
<1>7. \A i \in 1 .. 1 + n : o[i] = IF i <= 1 THEN obj ELSE objs[i - 1]
  <2>1. \A i \in 1 .. 1 + n : o[i] = IF i <= 1 THEN l[i] ELSE objs[i - 1]
    BY <1>2, <1>4, <1>5
  <2>2. ASSUME NEW i \in 1 .. 1 + n, i <= 1 PROVE l[i] = obj
    <3>1. i = 1
      BY <2>2
    <3> QED BY <1>2, <3>1
  <2> QED BY <2>1, <2>2
<1> HIDE DEF o, n
<1>8. ASSUME NEW i \in 1 .. 1 + n PROVE o[i] = obj \/ \E j \in 1 .. n : o[i] = objs[j]
  <2>1. i <= 1 \/ i - 1 \in 1 .. n
    BY <1>3
  <2> QED BY <1>7, <2>1
<1>9. ASSUME NEW j \in 1 .. n PROVE \E i \in 1 .. 1 + n : o[i] = objs[j]
  <2>1. j + 1 \in 1 .. 1 + n /\ ~(j + 1 <= 1) /\ (j + 1) - 1 = j
    BY <1>3
  <2> QED BY <1>7, <2>1
<1>10. \E i \in 1 .. 1 + n : o[i] = obj
  <2>1. 1 \in 1 .. 1 + n /\ 1 <= 1
    BY <1>3
  <2> QED BY <1>7, <2>1
<1>11. IsSequence(o)
  BY <1>6 DEF IsSequence
<1>12. \A i \in DOMAIN o : o[i] = obj \/ \E j \in DOMAIN objs : o[i] = objs[j]
  BY <1>3, <1>6, <1>8
<1>13. \A j \in DOMAIN objs : \E i \in DOMAIN o : o[i] = objs[j]
  BY <1>3, <1>6, <1>9
<1>14. \E i \in DOMAIN o : o[i] = obj
  BY <1>6, <1>10
<1> USE DEF o
<1> QED BY <1>11, <1>12, <1>13, <1>14

\* The end of a source, with or without code generated for it.
LEMMA NextSourceDone ==
  ASSUME Shapes, src <= Len(prog.sources), UNCHANGED prog, NEW obj, NextSource(obj),
         IsSequence(obj.stubs.actions),
         cg' = [actions |-> cg'.actions, notify |-> cg'.notify],
         cg'.actions \subseteq cg.actions,
         Plain /\ Apart =>
           /\ AllFit /\ KnownActions /\ SourcesDone
           /\ IsABI(ag') /\ Fits(ag') /\ Fits(obj.abi) /\ Told(obj)
           /\ ToSet(stubs.actions) \subseteq ToSet(obj.stubs.actions)
           /\ \A m \in OwnActions(src) :
                ActionOf(m) \in obj.abi["actions"]
                /\ (StubOf(m) \in ToSet(obj.stubs.actions) \/ InObjects(m))
  PROVE  AInv'
<1> DEFINE L == Len(prog.sources)
<1>0. L \in Nat
  <2>1. prog.sources \in Seq(ToSet(prog.sources))
    BY ProgramsAssumption DEF Shapes
  <2> QED BY <2>1, LenProperties
<1>1. /\ objs' = <<obj>> \o objs /\ src' = src + 1 /\ stubs' = NoStubs /\ decl' = 0
      /\ phase' = IF src = L THEN "link" ELSE "abigen"
  BY DEF NextSource
<1>2. /\ IsSequence(objs')
      /\ \A i \in DOMAIN objs' : objs'[i] = obj \/ \E j \in DOMAIN objs : objs'[i] = objs[j]
      /\ \A j \in DOMAIN objs : \E i \in DOMAIN objs' : objs'[i] = objs[j]
      /\ \E i \in DOMAIN objs' : objs'[i] = obj
  BY <1>1, NextObjects DEF Shapes
<1>3. src \in Nat /\ src \in 1 .. L /\ src' \in 1 .. L + 1
      /\ \A i \in 1 .. src' - 1 : i = src \/ i \in 1 .. src - 1
  <2>1. src \in 1 .. L + 1 /\ src <= L
    BY DEF Shapes
  <2> HIDE DEF L
  <2> QED BY <1>0, <1>1, <2>1
<1>4. (phase' = "link" /\ src' = L + 1) \/ (phase' = "abigen" /\ src' <= L)
  <2>1. CASE src = L
    BY <1>1, <2>1
  <2>2. CASE src # L
    <3>1. src + 1 <= L
      <4> HIDE DEF L
      <4> QED BY <1>0, <1>3, <2>2
    <3> QED BY <1>1, <2>2, <3>1
  <2> QED BY <2>1, <2>2
<1>5. L' = L
  OBVIOUS
<1>6. Shapes'
  <2>1. prog' \in Programs /\ src' \in 1 .. Len(prog.sources)' + 1
    BY <1>3, <1>5 DEF Shapes
  <2>2. stubs' = [actions |-> stubs'.actions, notify |-> stubs'.notify] /\ stubs'.actions = <<>>
    BY <1>1 DEF NoStubs
  <2>3. IsSequence(stubs'.actions)
    <3>1. <<>> \in Seq({})
      OBVIOUS
    <3>2. IsSequence(<<>>)
      BY <3>1 DEF IsSequence
    <3> QED BY <2>2, <3>2
  <2>4. \A i \in DOMAIN objs' : IsSequence(objs'[i].stubs.actions)
    BY <1>2 DEF Shapes
  <2>6. IsSequence(objs)' /\ IsSequence(stubs.actions)'
        /\ \A i \in DOMAIN objs' : IsSequence(objs[i].stubs.actions)'
    BY <1>2, <2>3, <2>4 DEF IsSequence
  <2> QED BY <2>1, <2>2, <2>6 DEF Shapes
<1>7. ASSUME Plain, Apart
      PROVE  AllFit' /\ KnownActions' /\ SourcesDone' /\ Between' /\ SourceAtHand'
  <2>1. /\ AllFit /\ KnownActions /\ SourcesDone
        /\ IsABI(ag') /\ Fits(ag') /\ Fits(obj.abi) /\ Told(obj)
        /\ ToSet(stubs.actions) \subseteq ToSet(obj.stubs.actions)
        /\ \A m \in OwnActions(src) :
             ActionOf(m) \in obj.abi["actions"]
             /\ (StubOf(m) \in ToSet(obj.stubs.actions) \/ InObjects(m))
    BY <1>7
  <2>2. \A m : (InObjects(m) \/ StubOf(m) \in ToSet(obj.stubs.actions)) => InObjects(m)'
    BY <1>2 DEF InObjects, StubOf
  <2>3. \A m : (Listed(m) \/ ActionOf(m) \in obj.abi["actions"]) => Listed(m)'
    BY <1>2 DEF Listed, ActionOf
  <2>4. \A m : Stubbed(m) => Stubbed(m)'
    BY <2>1, <2>2 DEF Stubbed
  <2>5. AllFit'
    <3>1. \A i \in DOMAIN objs' : Fits(objs'[i].abi) /\ Told(objs'[i])
      BY <1>2, <2>1 DEF AllFit
    <3>2. IsABI(ag)'
      BY <2>1 DEF IsABI
    <3> QED BY <2>1, <3>1, <3>2, SameProgram DEF AllFit, Told
  <2>6. KnownActions'
    <3>1. ASSUME NEW name \in cg'.actions
          PROVE  \E m \in Methods : /\ m.kind = "action"
                                    /\ name \in {NamesOf(m).method, NamesOf(m).name}
                                    /\ m.own => Stubbed(m)'
      BY <2>1, <2>4 DEF KnownActions
    <3> QED BY <3>1, SameProgram DEF KnownActions, NamesOf
  <2>7. SourcesDone'
    <3>1. ASSUME NEW i \in 1 .. src' - 1, NEW m \in OwnActions(i)
          PROVE  Listed(m)' /\ InObjects(m)'
      <4>1. CASE i = src
        BY <2>1, <2>2, <2>3, <4>1
      <4>2. CASE i \in 1 .. src - 1
        <5>1. Listed(m) /\ InObjects(m)
          BY <2>1, <4>2 DEF SourcesDone
        <5> QED BY <2>2, <2>3, <5>1
      <4> QED BY <1>3, <4>1, <4>2
    <3>2. ASSUME NEW i \in 1 .. src' - 1, NEW m \in OwnActions(i)'
          PROVE  Listed(m)' /\ InObjects(m)'
      BY <3>1, SameProgram
    <3> QED BY <3>2 DEF SourcesDone
  <2>8. Between'
    BY <1>1 DEF Between
  <2>9. SourceAtHand'
    BY <1>4 DEF SourceAtHand
  <2> QED BY <2>5, <2>6, <2>7, <2>8, <2>9
<1>8. (Plain /\ Apart)' => Plain /\ Apart
  BY SameProgram
<1>9. /\ phase' \in {"abigen", "codegen"} => src' <= Len(prog.sources)'
      /\ phase' \in {"link"} \cup Merging => src' = Len(prog.sources)' + 1
  BY <1>4, <1>5 DEF Merging, Installed
<1> HIDE DEF L
<1> QED BY <1>6, <1>7, <1>8, <1>9 DEF AInv

LEMMA AbigenDescribes ==
  ASSUME AInv, Abigen PROVE AInv'
<1>1. phase = "abigen" /\ UNCHANGED prog
  BY DEF Abigen
<1>2. /\ Shapes /\ src <= Len(prog.sources)
      /\ Plain /\ Apart => AllFit /\ KnownActions /\ SourcesDone /\ Between
  BY <1>1 DEF AInv, Going
<1>3. prog \in Programs /\ src \in 1 .. Len(prog.sources)
  <2>1. prog.sources \in Seq(ToSet(prog.sources)) /\ prog \in Programs /\ src \in 1 .. Len(prog.sources) + 1
    BY <1>2, ProgramsAssumption DEF Shapes
  <2>2. Len(prog.sources) \in Nat
    BY <2>1, LenProperties
  <2> QED BY <1>2, <2>1, <2>2
<1> DEFINE a == IF prog.separate THEN EmptyABI ELSE ag
<1>4. IsABI(EmptyABI) /\ Fits(EmptyABI) /\ EmptyABI["actions"] = {}
  <2>1. EmptyABI["actions"] = {} /\ EmptyABI["structs"] = {}
    BY SectionsAre DEF EmptyABI
  <2>2. IsABI(EmptyABI)
    BY DEF IsABI, EmptyABI
  <2> QED BY <2>1, <2>2 DEF Fits
<1>5. ag' = AbigenOf(a) /\ (cg' = cg \/ cg' = NoNames)
  BY DEF Abigen
<1>6. Plain /\ Apart => /\ IsABI(ag') /\ Fits(ag')
                        /\ \A m \in OwnActions(src) : ActionOf(m) \in ag'["actions"]
  <2> SUFFICES ASSUME Plain, Apart
               PROVE  /\ IsABI(ag') /\ Fits(ag')
                      /\ \A m \in OwnActions(src) : ActionOf(m) \in ag'["actions"]
    OBVIOUS
  <2>1. IsABI(a) /\ Fits(a)
    BY <1>2, <1>4 DEF AllFit
  <2> HIDE DEF a
  <2> QED BY <1>3, <1>5, <2>1, AbigenFits
<1>7. /\ cg' = [actions |-> cg'.actions, notify |-> cg'.notify]
      /\ cg'.actions \subseteq cg.actions
  <2>1. CASE cg' = cg
    BY <1>2, <2>1 DEF Shapes
  <2>2. CASE cg' = NoNames
    BY <2>2 DEF NoNames
  <2> QED BY <1>5, <2>1, <2>2
<1>8. CASE ag' = EmptyABI
  <2> DEFINE obj == [abi |-> EmptyABI, stubs |-> NoStubs, generated |-> FALSE]
  <2>1. NextSource(obj)
    BY <1>8 DEF Abigen
  <2>2. obj.abi = EmptyABI /\ obj.stubs = NoStubs /\ NoStubs.actions = <<>>
    BY DEF NoStubs
  <2>3. IsSequence(obj.stubs.actions)
    <3>1. <<>> \in Seq({})
      OBVIOUS
    <3>2. IsSequence(<<>>)
      BY <3>1 DEF IsSequence
    <3> QED BY <2>2, <3>2
  <2> HIDE DEF obj
  <2>4. ASSUME Plain, Apart
        PROVE  /\ AllFit /\ KnownActions /\ SourcesDone
               /\ IsABI(ag') /\ Fits(ag') /\ Fits(obj.abi) /\ Told(obj)
               /\ ToSet(stubs.actions) \subseteq ToSet(obj.stubs.actions)
               /\ \A m \in OwnActions(src) :
                    ActionOf(m) \in obj.abi["actions"]
                    /\ (StubOf(m) \in ToSet(obj.stubs.actions) \/ InObjects(m))
    <3>1. stubs = NoStubs
      BY <1>1, <1>2, <2>4 DEF Between
    <3>2. \A m : m \notin OwnActions(src)
      BY <1>4, <1>6, <1>8, <2>4
    <3>3. Told(obj)
      BY <1>4, <2>2 DEF Told
    <3> QED BY <1>2, <1>4, <1>6, <2>2, <2>4, <3>1, <3>2, <3>3
  <2> QED BY <1>1, <1>2, <1>7, <2>1, <2>3, <2>4, NextSourceDone
<1>9. CASE ag' # EmptyABI
  <2>1. phase' = "codegen" /\ UNCHANGED <<prog, src, decl, stubs, objs>>
    BY <1>1, <1>9 DEF Abigen
  <2>2. Shapes'
    <3>1. IsSequence(stubs.actions)' /\ IsSequence(objs)'
          /\ \A i \in DOMAIN objs' : IsSequence(objs[i].stubs.actions)'
      BY <1>2, <2>1 DEF Shapes, IsSequence
    <3> QED BY <1>2, <1>7, <2>1, <3>1 DEF Shapes
  <2>3. ASSUME Plain, Apart
        PROVE  AllFit' /\ KnownActions' /\ SourcesDone' /\ Between' /\ SourceAtHand'
    <3>1. AllFit /\ KnownActions /\ SourcesDone /\ Between
          /\ IsABI(ag') /\ Fits(ag') /\ \A m \in OwnActions(src) : ActionOf(m) \in ag'["actions"]
      BY <1>2, <1>6, <2>3
    <3>2. AllFit'
      <4>1. IsABI(ag)'
        BY <3>1 DEF IsABI
      <4> QED BY <2>1, <3>1, <4>1, SameProgram DEF AllFit, Told
    <3>3. \A m : (InObjects(m)' <=> InObjects(m)) /\ (Stubbed(m)' <=> Stubbed(m))
                 /\ (Listed(m)' <=> Listed(m))
      BY <2>1 DEF InObjects, Stubbed, Listed
    <3>4. KnownActions'
      <4>1. ASSUME NEW name \in cg'.actions
            PROVE  \E m \in Methods : /\ m.kind = "action"
                                      /\ name \in {NamesOf(m).method, NamesOf(m).name}
                                      /\ m.own => Stubbed(m)'
        BY <1>7, <3>1, <3>3 DEF KnownActions
      <4> QED BY <2>1, <4>1, SameProgram DEF KnownActions, NamesOf
    <3>5. SourcesDone'
      BY <2>1, <3>1, <3>3, SameProgram DEF SourcesDone
    <3>6. Between'
      BY <2>1 DEF Between
    <3>7. SourceAtHand'
      <4>1. decl' = 0
        BY <1>1, <2>1, <3>1 DEF Between
      <4>2. Source' = Source /\ Len(Source.methods) \in Nat
        BY <1>3, <2>1, SourceIs DEF Source
      <4>3. decl' \in 0 .. Len(Source.methods)' /\ 1 .. decl' = {}
        BY <4>1, <4>2
      <4>4. \A m \in OwnActions(src)' : ActionOf(m) \in ag'["actions"]
        BY <2>1, <3>1, SameProgram
      <4> QED BY <4>3, <4>4 DEF SourceAtHand, ActionOf
    <3> QED BY <3>2, <3>4, <3>5, <3>6, <3>7
  <2>4. (Plain /\ Apart)' => Plain /\ Apart
    BY <1>1, SameProgram
  <2>5. /\ phase' \in {"abigen", "codegen"} => src' <= Len(prog.sources)'
        /\ phase' \in {"link"} \cup Merging => src' = Len(prog.sources)' + 1
    BY <1>2, <2>1 DEF Merging, Installed
  <2> QED BY <2>2, <2>3, <2>4, <2>5 DEF AInv
<1> QED BY <1>8, <1>9

\* What create_dispatch does to the stubs of the actions.
LEMMA DispatchStubs ==
  ASSUME Shapes, NEW m, CreateDispatch(m) \/ UNCHANGED stubs
  PROVE  /\ stubs' = [actions |-> stubs'.actions, notify |-> stubs'.notify]
         /\ IsSequence(stubs'.actions)
         /\ ToSet(stubs.actions) \subseteq ToSet(stubs'.actions)
         /\ CreateDispatch(m) /\ m.own /\ m.kind = "action" => StubOf(m) \in ToSet(stubs'.actions)
<1>0. stubs = [actions |-> stubs.actions, notify |-> stubs.notify] /\ IsSequence(stubs.actions)
  BY DEF Shapes
<1>1. CASE CreateDispatch(m) /\ m.own /\ m.kind = "action"
  <2> DEFINE A == stubs.actions
             B == Append(A, StubOf(m))
  <2>1. stubs' = [stubs EXCEPT !.actions = B]
    BY <1>1 DEF CreateDispatch
  <2>2. IsSequence(B) /\ ToSet(B) = ToSet(A) \cup {StubOf(m)}
    BY <1>0, AppendHas
  <2> HIDE DEF B
  <2>3. stubs'.actions = B /\ stubs' = [actions |-> stubs'.actions, notify |-> stubs'.notify]
    BY <1>0, <2>1
  <2> QED BY <2>2, <2>3
<1>2. CASE CreateDispatch(m) /\ m.own /\ m.kind # "action"
  <2>1. PICK n : stubs' = [stubs EXCEPT !.notify = n]
    BY <1>2 DEF CreateDispatch
  <2>2. stubs'.actions = stubs.actions /\ stubs' = [actions |-> stubs'.actions, notify |-> stubs'.notify]
    BY <1>0, <2>1
  <2> QED BY <1>0, <1>2, <2>2
<1>3. CASE ~m.own \/ UNCHANGED stubs
  <2>1. CASE UNCHANGED stubs /\ ~(CreateDispatch(m) /\ m.own /\ m.kind = "action")
    BY <1>0, <2>1
  <2>2. CASE ~m.own /\ CreateDispatch(m)
    <3>1. stubs' = stubs
      BY <2>2 DEF CreateDispatch
    <3> QED BY <1>0, <2>2, <3>1
  <2> QED BY <1>1, <1>3, <2>1, <2>2
<1> QED BY <1>1, <1>2, <1>3

LEMMA VisitDescribes ==
  ASSUME AInv, Visit PROVE AInv'
<1>0. /\ phase = "codegen" /\ decl < Len(Source.methods) /\ decl' = decl + 1
      /\ UNCHANGED <<prog, src, ag, objs>>
  BY DEF Visit
<1>1. /\ Shapes /\ src <= Len(prog.sources)
      /\ Plain /\ Apart => AllFit /\ KnownActions /\ SourcesDone /\ SourceAtHand
  BY <1>0 DEF AInv, Going
<1> SUFFICES ASSUME phase' \in Going PROVE AInv'
  BY DEF AInv
<1>2. prog \in Programs /\ src \in 1 .. Len(prog.sources)
  <2>1. prog.sources \in Seq(ToSet(prog.sources)) /\ prog \in Programs /\ src \in 1 .. Len(prog.sources) + 1
    BY <1>1, ProgramsAssumption DEF Shapes
  <2>2. Len(prog.sources) \in Nat
    BY <2>1, LenProperties
  <2> QED BY <1>1, <2>1, <2>2
<1>3. PICK m : m = Method
  OBVIOUS
<1> DEFINE n == NamesOf(m)
<1>4. /\ phase' = "codegen"
      /\ \/ n.method \in Known(m) /\ UNCHANGED stubs
         \/ n.method \notin Known(m) /\ CreateDispatch(m)
  BY <1>0, <1>3 DEF Visit, Going, Merging, Installed
<1>5. /\ stubs' = [actions |-> stubs'.actions, notify |-> stubs'.notify]
      /\ IsSequence(stubs'.actions)
      /\ ToSet(stubs.actions) \subseteq ToSet(stubs'.actions)
      /\ CreateDispatch(m) /\ m.own /\ m.kind = "action" => StubOf(m) \in ToSet(stubs'.actions)
  BY <1>1, <1>4, DispatchStubs
<1>6. /\ cg' = [actions |-> cg'.actions, notify |-> cg'.notify]
      /\ m.kind = "action" => cg'.actions = cg.actions \cup {n.method, n.name}
      /\ m.kind # "action" => cg'.actions = cg.actions
  <2>1. cg = [actions |-> cg.actions, notify |-> cg.notify]
    BY <1>1 DEF Shapes
  <2> DEFINE N == {n.method, n.name}
  <2>2. cg' = IF m.kind = "action" THEN [cg EXCEPT !.actions = @ \cup N]
              ELSE [cg EXCEPT !.notify = @ \cup N]
    BY <1>3 DEF Visit
  <2> HIDE DEF N
  <2>3. CASE m.kind = "action"
    <3>1. cg'.actions = cg.actions \cup N /\ cg' = [actions |-> cg'.actions, notify |-> cg'.notify]
      BY <2>1, <2>2, <2>3
    <3> QED BY <2>3, <3>1 DEF N
  <2>4. CASE m.kind # "action"
    <3>1. cg'.actions = cg.actions /\ cg' = [actions |-> cg'.actions, notify |-> cg'.notify]
      BY <2>1, <2>2, <2>4
    <3> QED BY <2>4, <3>1
  <2> QED BY <2>3, <2>4
<1>7. Shapes'
  <2>1. IsSequence(stubs.actions)' /\ IsSequence(objs)'
        /\ \A i \in DOMAIN objs' : IsSequence(objs[i].stubs.actions)'
    BY <1>0, <1>1, <1>5 DEF Shapes, IsSequence
  <2> QED BY <1>0, <1>1, <1>5, <1>6, <2>1 DEF Shapes
<1>8. /\ decl \in Nat => decl + 1 \in DOMAIN Source.methods
      /\ m = Source.methods[decl + 1]
  <2>1. Len(Source.methods) \in Nat /\ DOMAIN Source.methods = 1 .. Len(Source.methods)
    BY <1>2, SourceIs
  <2> DEFINE l == Len(Source.methods)
  <2> HIDE DEF l
  <2>2. l \in Nat /\ decl < l
    BY <1>0, <2>1 DEF l
  <2>3. decl \in Nat => decl + 1 \in 1 .. l
    BY <2>2
  <2> QED BY <1>3, <2>1, <2>3 DEF Method, l
<1>9. ASSUME Plain, Apart
      PROVE  AllFit' /\ KnownActions' /\ SourcesDone' /\ Between' /\ SourceAtHand'
  <2>0. AllFit /\ KnownActions /\ SourcesDone /\ SourceAtHand
    BY <1>1, <1>9
  <2>1. decl \in Nat /\ m \in Methods
    <3>1. Len(Source.methods) \in Nat /\ \A i \in DOMAIN Source.methods : Source.methods[i] \in Methods
      BY <1>2, SourceIs
    <3>2. decl \in Nat
      BY <1>0, <2>0, <3>1 DEF SourceAtHand
    <3> QED BY <1>8, <3>1, <3>2
  <2>2. \A x : /\ Listed(x)' <=> Listed(x)
               /\ InObjects(x)' <=> InObjects(x)
               /\ Stubbed(x) => Stubbed(x)'
    <3>1. \A x : (Listed(x)' <=> Listed(x)) /\ (InObjects(x)' <=> InObjects(x))
      BY <1>0 DEF Listed, InObjects
    <3> QED BY <1>5, <3>1 DEF Stubbed
  <2>3. ASSUME m.own, m.kind = "action" PROVE Stubbed(m)'
    <3>1. CASE n.method \in Known(m)
      <4>1. n.method \in cg.actions
        BY <2>3, <3>1 DEF Known
      <4>2. PICK x \in Methods : /\ x.kind = "action"
                                 /\ n.method \in {NamesOf(x).method, NamesOf(x).name}
                                 /\ x.own => Stubbed(x)
        BY <2>0, <4>1 DEF KnownActions
      <4>3. {NamesOf(m).method, NamesOf(m).name} \cap {NamesOf(x).method, NamesOf(x).name} # {}
        BY <4>2
      <4>4. x = m
        BY <1>9, <2>1, <2>3, <4>2, <4>3 DEF Plain
      <4> QED BY <2>2, <2>3, <4>2, <4>4
    <3>2. CASE CreateDispatch(m)
      <4>1. StubOf(m) \in ToSet(stubs'.actions)
        BY <1>5, <2>3, <3>2
      <4> QED BY <4>1 DEF Stubbed, StubOf
    <3> QED BY <1>4, <3>1, <3>2
  <2>4. AllFit'
    <3>1. IsABI(ag)'
      BY <1>0, <2>0 DEF AllFit, IsABI
    <3> QED BY <1>0, <2>0, <3>1, SameProgram DEF AllFit, Told
  <2>5. KnownActions'
    <3>1. ASSUME NEW name \in cg'.actions
          PROVE  \E x \in Methods : /\ x.kind = "action"
                                    /\ name \in {NamesOf(x).method, NamesOf(x).name}
                                    /\ x.own => Stubbed(x)'
      <4>1. CASE name \in cg.actions
        BY <2>0, <2>2, <4>1 DEF KnownActions
      <4>2. CASE name \notin cg.actions
        <5>1. m.kind = "action" /\ name \in {n.method, n.name}
          BY <1>6, <3>1, <4>2
        <5> QED BY <2>1, <2>3, <5>1
      <4> QED BY <4>1, <4>2
    <3> QED BY <1>0, <3>1, SameProgram DEF KnownActions, NamesOf
  <2>6. SourcesDone'
    BY <1>0, <2>0, <2>2, SameProgram DEF SourcesDone
  <2>7. Between'
    BY <1>4 DEF Between
  <2>8. SourceAtHand'
    <3> DEFINE ms == Source.methods
    <3>1. Source' = Source /\ OwnActions(src)' = OwnActions(src)
      BY <1>0 DEF Source, OwnActions
    <3>2. /\ decl \in 0 .. Len(ms)
          /\ \A x \in OwnActions(src) : ActionOf(x) \in ag["actions"]
          /\ \A j \in 1 .. decl : ms[j] \in OwnActions(src) => Stubbed(ms[j])
      BY <1>0, <2>0 DEF SourceAtHand
    <3>3. Len(ms) \in Nat
      BY <1>2, SourceIs
    <3>4. decl' \in 0 .. Len(ms)
      <4> DEFINE l == Len(ms)
      <4> HIDE DEF l
      <4>1. l \in Nat /\ decl < l /\ decl \in Nat
        BY <1>0, <2>1, <3>3 DEF l
      <4>2. decl' \in 0 .. l
        BY <1>0, <4>1
      <4> QED BY <4>2 DEF l
    <3>5. \A j \in 1 .. decl' : j = decl + 1 \/ j \in 1 .. decl
      BY <1>0, <2>1
    <3>6. ASSUME NEW j \in 1 .. decl', ms[j] \in OwnActions(src) PROVE \E x : x = ms[j] /\ Stubbed(x)'
      <4>1. CASE j = decl + 1
        <5>1. ms[j] = m
          BY <1>8, <4>1
        <5>2. m.own /\ m.kind = "action"
          BY <3>6, <5>1 DEF OwnActions
        <5> QED BY <2>3, <5>1, <5>2
      <4>2. CASE j \in 1 .. decl
        <5>1. Stubbed(ms[j])
          BY <3>2, <3>6, <4>2
        <5>2. PICK x : x = ms[j]
          OBVIOUS
        <5> QED BY <2>2, <5>1, <5>2
      <4> QED BY <3>5, <4>1, <4>2
    <3>7. \A x \in OwnActions(src)' : ActionOf(x) \in ag'["actions"]
      BY <1>0, <3>1, <3>2
    <3>8. ASSUME NEW j \in 1 .. decl', Source'.methods[j] \in OwnActions(src)'
          PROVE  Stubbed(Source.methods[j])'
      <4>1. PICK x : x = ms[j] /\ Stubbed(x)'
        BY <3>1, <3>6, <3>8
      <4>2. Source'.methods[j] = x
        BY <3>1, <4>1
      <4> QED BY <4>1, <4>2 DEF Stubbed, InObjects
    <3> QED BY <3>1, <3>4, <3>7, <3>8 DEF SourceAtHand, ActionOf
  <2> QED BY <2>4, <2>5, <2>6, <2>7, <2>8
<1>10. (Plain /\ Apart)' => Plain /\ Apart
  BY <1>0, SameProgram
<1>11. /\ phase' \in {"abigen", "codegen"} => src' <= Len(prog.sources)'
       /\ phase' \in {"link"} \cup Merging => src' = Len(prog.sources)' + 1
  BY <1>0, <1>1, <1>4 DEF Merging, Installed
<1> QED BY <1>7, <1>9, <1>10, <1>11 DEF AInv

LEMMA EndOfSourceDescribes ==
  ASSUME AInv, EndOfSource PROVE AInv'
<1>0. /\ phase = "codegen" /\ decl = Len(Source.methods) /\ UNCHANGED <<prog, ag, cg>>
  BY DEF EndOfSource
<1>1. /\ Shapes /\ src <= Len(prog.sources)
      /\ Plain /\ Apart => AllFit /\ KnownActions /\ SourcesDone /\ SourceAtHand
  BY <1>0 DEF AInv, Going
<1>2. prog \in Programs /\ src \in 1 .. Len(prog.sources)
  <2>1. prog.sources \in Seq(ToSet(prog.sources)) /\ prog \in Programs /\ src \in 1 .. Len(prog.sources) + 1
    BY <1>1, ProgramsAssumption DEF Shapes
  <2>2. Len(prog.sources) \in Nat
    BY <2>1, LenProperties
  <2> QED BY <1>1, <2>1, <2>2
<1> DEFINE obj == [abi |-> to_json(ag), stubs |-> stubs, generated |-> TRUE]
<1>3. NextSource(obj)
  BY DEF EndOfSource
<1>4. obj.abi = to_json(ag) /\ obj.stubs = stubs /\ obj.generated
  OBVIOUS
<1> HIDE DEF obj
<1>5. IsSequence(obj.stubs.actions) /\ cg' = [actions |-> cg'.actions, notify |-> cg'.notify]
      /\ cg'.actions \subseteq cg.actions
  BY <1>0, <1>1, <1>4 DEF Shapes
<1>6. ASSUME Plain, Apart
      PROVE  /\ AllFit /\ KnownActions /\ SourcesDone
             /\ IsABI(ag') /\ Fits(ag') /\ Fits(obj.abi) /\ Told(obj)
             /\ ToSet(stubs.actions) \subseteq ToSet(obj.stubs.actions)
             /\ \A m \in OwnActions(src) :
                  ActionOf(m) \in obj.abi["actions"]
                  /\ (StubOf(m) \in ToSet(obj.stubs.actions) \/ InObjects(m))
  <2>1. AllFit /\ KnownActions /\ SourcesDone /\ SourceAtHand
    BY <1>1, <1>6
  <2>2. ASSUME NEW m \in OwnActions(src)
        PROVE  ActionOf(m) \in ag["actions"] /\ (StubOf(m) \in ToSet(stubs.actions) \/ InObjects(m))
    <3>1. m \in ToSet(Source.methods) /\ DOMAIN Source.methods = 1 .. Len(Source.methods)
      BY <1>2, SourceIs DEF OwnActions, Source
    <3>2. PICK j \in 1 .. Len(Source.methods) : m = Source.methods[j]
      BY <3>1 DEF ToSet
    <3>3. ActionOf(m) \in ag["actions"] /\ Stubbed(m)
      BY <1>0, <2>1, <3>2 DEF SourceAtHand
    <3> QED BY <3>3 DEF Stubbed
  <2>3. IsABI(ag') /\ Fits(ag')
    BY <1>0, <2>1 DEF AllFit
  <2>4. Fits(to_json(ag)) /\ to_json(ag)["actions"] = ag["actions"]
    BY <1>6, <2>1, ToJsonFits DEF AllFit
  <2>5. Fits(obj.abi) /\ Told(obj)
    BY <1>4, <2>4 DEF Told
  <2> QED BY <1>4, <2>1, <2>2, <2>3, <2>4, <2>5
<1> QED BY <1>0, <1>1, <1>3, <1>5, <1>6, NextSourceDone

\* Nothing of what the compiler has written changes after it.
LEMMA CompiledStays ==
  ASSUME AInv, phase \in {"link"} \cup Merging, UNCHANGED <<prog, src, ag, cg, stubs, objs>>,
         phase' \in Merging \/ phase' \notin Going
  PROVE  AInv'
<1>0. phase \in Going
  BY DEF Going
<1>1. /\ Shapes /\ src = Len(prog.sources) + 1
      /\ Plain /\ Apart => AllFit /\ KnownActions /\ SourcesDone
  BY <1>0 DEF AInv
<1> SUFFICES ASSUME phase' \in Merging PROVE AInv'
  BY DEF AInv
<1>2. phase' \notin {"abigen", "codegen", "link"}
  BY DEF Merging, Installed
<1>3. Shapes'
  <2>1. IsSequence(stubs.actions)' /\ IsSequence(objs)'
        /\ \A i \in DOMAIN objs' : IsSequence(objs[i].stubs.actions)'
    BY <1>1 DEF Shapes, IsSequence
  <2> QED BY <1>1, <2>1 DEF Shapes
<1>4. ASSUME Plain, Apart PROVE AllFit' /\ KnownActions' /\ SourcesDone'
  <2>0. AllFit /\ KnownActions /\ SourcesDone
    BY <1>1, <1>4
  <2>1. \A m : /\ Listed(m)' <=> Listed(m)
               /\ InObjects(m)' <=> InObjects(m)
               /\ Stubbed(m)' <=> Stubbed(m)
    BY DEF Listed, InObjects, Stubbed
  <2>2. AllFit'
    <3>1. IsABI(ag)'
      BY <2>0 DEF AllFit, IsABI
    <3> QED BY <2>0, <3>1, SameProgram DEF AllFit, Told
  <2>3. KnownActions'
    <3>1. ASSUME NEW name \in cg'.actions
          PROVE  \E x \in Methods : /\ x.kind = "action"
                                    /\ name \in {NamesOf(x).method, NamesOf(x).name}
                                    /\ x.own => Stubbed(x)'
      BY <2>0, <2>1 DEF KnownActions
    <3> QED BY <3>1, SameProgram DEF KnownActions, NamesOf
  <2>4. SourcesDone'
    BY <2>0, <2>1, SameProgram DEF SourcesDone
  <2> QED BY <2>2, <2>3, <2>4
<1>5. (Plain /\ Apart)' => Plain /\ Apart
  BY SameProgram
<1>6. Between' /\ SourceAtHand'
  BY <1>2 DEF Between, SourceAtHand
<1>7. /\ phase' \in {"abigen", "codegen"} => src' <= Len(prog.sources)'
      /\ phase' \in {"link"} \cup Merging => src' = Len(prog.sources)' + 1
  BY <1>1, <1>2
<1> QED BY <1>3, <1>4, <1>5, <1>6, <1>7 DEF AInv

LEMMA AtRest ==
  ASSUME AInv, UNCHANGED <<prog, phase, src, decl, ag, cg, stubs, objs>>
  PROVE  AInv'
<1>1. \A m : /\ Listed(m)' <=> Listed(m)
             /\ InObjects(m)' <=> InObjects(m)
             /\ Stubbed(m)' <=> Stubbed(m)
  BY DEF Listed, InObjects, Stubbed
<1>2. Shapes' <=> Shapes
  BY DEF Shapes, IsSequence
<1>3. AllFit' <=> AllFit
  BY SameProgram DEF AllFit, IsABI, Told
<1>4. KnownActions' <=> KnownActions
  BY <1>1, SameProgram DEF KnownActions, NamesOf
<1>5. SourcesDone' <=> SourcesDone
  BY <1>1, SameProgram DEF SourcesDone
<1>6. Between' <=> Between
  BY DEF Between
<1>7. SourceAtHand' <=> SourceAtHand
  <2>1. Source' = Source
    BY DEF Source
  <2> QED BY <1>1, <2>1, SameProgram DEF SourceAtHand, ActionOf
<1>8. (Plain' <=> Plain) /\ (Apart' <=> Apart)
  BY SameProgram
<1> QED BY <1>2, <1>3, <1>4, <1>5, <1>6, <1>7, <1>8 DEF AInv

LEMMA AbiInvariance ==
  Spec => []AInv
<1>1. Init => AInv
  <2> SUFFICES ASSUME Init PROVE AInv
    OBVIOUS
  <2>0. /\ prog \in Programs /\ phase = "abigen" /\ src = 1 /\ decl = 0 /\ ag = EmptyABI
        /\ cg = NoNames /\ stubs = NoStubs /\ objs = <<>>
    BY DEF Init
  <2>1. Len(prog.sources) \in Nat /\ Len(prog.sources) # 0
    <3>1. prog.sources \in Seq(ToSet(prog.sources)) /\ prog.sources # <<>>
      BY <2>0, ProgramsAssumption
    <3> QED BY <3>1, LenProperties, EmptySeq
  <2>2. src \in 1 .. Len(prog.sources) + 1 /\ src <= Len(prog.sources) /\ 1 .. src - 1 = {}
    <3> DEFINE L == Len(prog.sources)
    <3> HIDE DEF L
    <3>1. src \in 1 .. L + 1 /\ src <= L /\ 1 .. src - 1 = {}
      BY <2>0, <2>1 DEF L
    <3> QED BY <3>1 DEF L
  <2>3. IsSequence(<<>>)
    <3>1. <<>> \in Seq({})
      OBVIOUS
    <3> QED BY <3>1 DEF IsSequence
  <2>4. /\ DOMAIN objs = {} /\ cg.actions = {} /\ stubs.actions = <<>>
        /\ cg = [actions |-> cg.actions, notify |-> cg.notify]
        /\ stubs = [actions |-> stubs.actions, notify |-> stubs.notify]
    BY <2>0 DEF NoNames, NoStubs
  <2>5. Shapes
    BY <2>0, <2>2, <2>3, <2>4 DEF Shapes
  <2>6. IsABI(ag) /\ Fits(ag)
    <3>1. EmptyABI["actions"] = {} /\ EmptyABI["structs"] = {}
      BY SectionsAre DEF EmptyABI
    <3>2. IsABI(EmptyABI)
      BY DEF IsABI, EmptyABI
    <3> QED BY <2>0, <3>1, <3>2 DEF Fits
  <2>7. AllFit /\ KnownActions /\ SourcesDone
    BY <2>2, <2>4, <2>6 DEF AllFit, KnownActions, SourcesDone
  <2>8. Between /\ SourceAtHand
    BY <2>0 DEF Between, SourceAtHand
  <2> QED BY <2>0, <2>2, <2>5, <2>7, <2>8 DEF AInv, Merging, Installed
<1>2. AInv /\ [Next]_vars => AInv'
  <2> SUFFICES ASSUME AInv, [Next]_vars PROVE AInv'
    OBVIOUS
  <2>1. CASE Link
    <3>1. phase = "link" /\ UNCHANGED <<prog, src, ag, cg, stubs, objs>>
          /\ phase' \in {"write abi", "no dispatcher"}
      BY <2>1 DEF Link, compiling
    <3> QED BY <3>1, CompiledStays DEF Going, Merging, Installed
  <2>2. CASE MergeNext
    <3>1. phase = "write abi" /\ UNCHANGED <<prog, src, ag, cg, stubs, objs>>
          /\ phase' \in {"write abi", "failed to write abi"}
      BY <2>2 DEF MergeNext, compiling
    <3> QED BY <3>1, CompiledStays DEF Going, Merging, Installed
  <2>3. CASE SetCode
    <3>1. phase = "write abi" /\ UNCHANGED <<prog, src, ag, cg, stubs, objs>>
          /\ phase' \in {"deployed", "rejected"}
      BY <2>3 DEF SetCode, compiling
    <3> QED BY <3>1, CompiledStays DEF Going, Merging, Installed
  <2>4. CASE (\E c \in Calls : Apply(c)) \/ CallFunction \/ Branch
    <3>1. phase' \in {"apply", "aborted", "returned"}
      BY <2>4 DEF Apply, CallFunction, Branch
    <3> QED BY <3>1 DEF AInv, Going, Merging, Installed
  <2>5. CASE UNCHANGED vars
    <3>0. UNCHANGED <<prog, phase, src, decl, ag, cg, stubs, objs>>
      BY <2>5 DEF vars
    <3> QED BY <3>0, AtRest
  <2> QED BY <2>1, <2>2, <2>3, <2>4, <2>5, AbigenDescribes, VisitDescribes, EndOfSourceDescribes
          DEF Next
<1> QED BY <1>1, <1>2, PTL DEF Spec

LEMMA OrderOfAbis ==
  ASSUME IsSequence(objs)
  PROVE  /\ \A i \in DOMAIN Order : \E j \in DOMAIN Abis : Order[i] = Abis[j]
         /\ \A j \in DOMAIN Abis : \E i \in DOMAIN Order : Order[i] = Abis[j]
<1> DEFINE n == Len(Abis)
<1>0. /\ n \in Nat /\ DOMAIN Abis = 1 .. n
      /\ Abis = <<>> => DOMAIN Order = {} /\ n = 0
      /\ Abis # <<>> => /\ DOMAIN Order = 1 .. n + 1 /\ n > 0 /\ Order[1] = Last(Abis)
                        /\ \A i \in 1 .. n : Order[i + 1] = Abis[i]
  BY OrderIs
<1>1. Last(Abis) = Abis[n]
  BY DEF Last
<1> HIDE DEF n
<1>2. CASE Abis = <<>>
  BY <1>0, <1>2
<1>3. CASE Abis # <<>>
  <2>1. ASSUME NEW i \in 1 .. n + 1 PROVE \E j \in 1 .. n : Order[i] = Abis[j]
    <3>1. CASE i = 1
      <4>1. n \in 1 .. n
        BY <1>0, <1>3
      <4> QED BY <1>0, <1>1, <1>3, <3>1, <4>1
    <3>2. CASE i # 1
      <4>1. i - 1 \in 1 .. n /\ (i - 1) + 1 = i
        BY <1>0, <3>2
      <4> QED BY <1>0, <1>3, <4>1
    <3> QED BY <3>1, <3>2
  <2>2. ASSUME NEW j \in 1 .. n PROVE \E i \in 1 .. n + 1 : Order[i] = Abis[j]
    <3>1. j + 1 \in 1 .. n + 1
      BY <1>0
    <3> QED BY <1>0, <1>3, <3>1
  <2> QED BY <1>0, <1>3, <2>1, <2>2
<1> QED BY <1>2, <1>3

LEMMA AbisOfObjects ==
  ASSUME IsSequence(objs)
  PROVE  /\ \A j \in DOMAIN Abis : \E i \in DOMAIN objs : Abis[j] = objs[i].abi
         /\ \A i \in DOMAIN objs : objs[i].generated => \E j \in DOMAIN Abis : Abis[j] = objs[i].abi
<1>1. DOMAIN Abis = 1 .. Len(Abis)
  BY OrderIs
<1>2. PICK S : objs \in Seq(S)
  BY DEF IsSequence
<1>3. DOMAIN objs = 1 .. Len(objs)
  BY <1>2, LenProperties
<1>4. \A a : (\E k \in 1 .. Len(Abis) : Abis[k] = a)
              <=> \E i \in 1 .. Len(objs) : objs[i].generated /\ objs[i].abi = a
  BY <1>2, AbisAre
<1>5. ASSUME NEW j \in DOMAIN Abis PROVE \E i \in DOMAIN objs : Abis[j] = objs[i].abi
  <2>1. PICK a : a = Abis[j]
    OBVIOUS
  <2>2. \E i \in 1 .. Len(objs) : objs[i].abi = a
    BY <1>1, <1>4, <2>1
  <2> QED BY <1>3, <2>1, <2>2
<1>6. ASSUME NEW i \in DOMAIN objs, objs[i].generated
      PROVE  \E j \in DOMAIN Abis : Abis[j] = objs[i].abi
  <2>1. PICK a : a = objs[i].abi
    OBVIOUS
  <2>2. \E k \in 1 .. Len(Abis) : Abis[k] = a
    BY <1>3, <1>4, <1>6, <2>1
  <2> QED BY <1>1, <2>1, <2>2
<1> QED BY <1>5, <1>6

LEMMA HandlerIs ==
  ASSUME Shapes, src = Len(prog.sources) + 1, NEW m \in Handlers("action")
  PROVE  \E k \in 1 .. src - 1 : m \in OwnActions(k)
<1>1. prog.sources \in Seq(ToSet(prog.sources))
  BY ProgramsAssumption DEF Shapes
<1>2. Len(prog.sources) \in Nat /\ DOMAIN prog.sources = 1 .. Len(prog.sources)
  BY <1>1, LenProperties
<1>3. src - 1 = Len(prog.sources)
  BY <1>2
<1>4. m \in Methods /\ m.own /\ m.kind = "action"
  BY DEF Handlers
<1>5. PICK k \in DOMAIN prog.sources : m \in ToSet(prog.sources[k].methods)
  BY <1>4 DEF Methods
<1> QED BY <1>2, <1>3, <1>4, <1>5 DEF OwnActions

LEMMA LinkedHas ==
  ASSUME IsSequence(objs), \A i \in DOMAIN objs : IsSequence(objs[i].stubs.actions),
         NEW j \in DOMAIN objs, NEW x \in ToSet(objs[j].stubs.actions)
  PROVE  \E i \in DOMAIN Linked.actions : Linked.actions[i] = x
<1> DEFINE seqs == [i \in DOMAIN objs |-> objs[i].stubs.actions]
<1>1. Linked.actions = FlattenSeq(seqs)
  BY DEF Linked
<1>2. DOMAIN seqs = DOMAIN objs /\ \A i \in DOMAIN seqs : seqs[i] = objs[i].stubs.actions
  OBVIOUS
<1>3. IsSequence(seqs)
  <2>1. PICK S : objs \in Seq(S)
    BY DEF IsSequence
  <2>2. Len(objs) \in Nat /\ DOMAIN objs = 1 .. Len(objs)
    BY <2>1, LenProperties
  <2> DEFINE V == {objs[i].stubs.actions : i \in DOMAIN objs}
             n == Len(objs)
  <2>3. seqs \in [1 .. n -> V]
    BY <2>2
  <2> HIDE DEF seqs, V, n
  <2>4. n \in Nat
    BY <2>2 DEF n
  <2>5. seqs \in Seq(V)
    BY <2>3, <2>4
  <2> QED BY <2>5 DEF IsSequence
<1> HIDE DEF seqs
<1>4. \A i \in DOMAIN seqs : IsSequence(seqs[i])
  BY <1>2
<1>5. j \in DOMAIN seqs /\ x \in ToSet(seqs[j])
  BY <1>2
<1> QED BY <1>1, <1>3, <1>4, <1>5, FlattenHas

\* abigen, codegen, ABIMerger and the linker agree on any contract in which no
\* two methods share a name, no other struct has the name of an action's method
\* and no such method that of a built-in type: when the tools have done their
\* work, the ABI names the actions that the sources declare, each with the
\* struct of its method, which to_json has kept, and there is a stub that calls
\* that method, whatever order the sources come in, whether one process or
\* several compile them, and wherever a method is seen again.
THEOREM AbiAndStubsAgree ==
  Spec => []AbiDescribesHandlers
<1>1. MInv /\ MergeKeepsStanding /\ AInv => AbiDescribesHandlers
  <2> SUFFICES ASSUME MInv, MergeKeepsStanding, AInv, phase \in Installed, Plain, Apart
               PROVE  /\ {x.id : x \in abi["actions"]} = {m.action : m \in Handlers("action")}
                      /\ \A x \in abi["actions"] :
                           \E i \in DOMAIN Linked.actions, m \in Handlers("action") :
                             /\ Linked.actions[i] = StubOf(m)
                             /\ m.action = x.id
                             /\ StructOf(m) \in abi["structs"] /\ x.def = m.method
    BY DEF AbiDescribesHandlers
  <2>0. /\ Shapes /\ src = Len(prog.sources) + 1 /\ AllFit /\ SourcesDone
        /\ IsSequence(objs) /\ \A s \in Sections : abi[s] = Standing(s)
    BY DEF AInv, Going, Merging, MergeKeepsStanding, Shapes
  <2>1. ASSUME NEW i \in DOMAIN Order PROVE Fits(Order[i])
    <3>1. \E j \in DOMAIN Abis : Order[i] = Abis[j]
      BY <2>0, OrderOfAbis
    <3>2. PICK j \in DOMAIN objs : Order[i] = objs[j].abi
      BY <2>0, <3>1, AbisOfObjects
    <3> QED BY <2>0, <3>2 DEF AllFit
  <2>2. ASSUME NEW s \in Sections, NEW x \in abi[s] PROVE \E i \in DOMAIN Order : x \in Order[i][s]
    BY <2>0, StandsIs
  <2>3. ASSUME NEW s \in Sections, NEW i \in DOMAIN Order, NEW x \in Order[i][s]
        PROVE  \E y \in abi[s] : y.id = x.id
    <3>1. Len(Abis) \in Nat /\ i <= Len(Abis) + 1 /\ \A n \in DOMAIN Order : n <= Len(Abis) + 1
      BY <2>0, OrderIs
    <3>2. Has(s, x.id, i)
      BY DEF Has
    <3>3. PICK y \in StandsAfter(Len(Abis), s) : y.id = x.id
      BY <2>0, <3>1, <3>2, IdStands
    <3>4. y \in Standing(s)
      BY StandsIs
    <3> QED BY <2>0, <3>3, <3>4
  <2>4. ASSUME NEW m \in Handlers("action")
        PROVE  \E i \in DOMAIN Order : ActionOf(m) \in Order[i]["actions"]
    <3>1. PICK k \in 1 .. src - 1 : m \in OwnActions(k)
      BY <2>0, HandlerIs
    <3>2. PICK j \in DOMAIN objs : ActionOf(m) \in objs[j].abi["actions"]
      BY <2>0, <3>1 DEF SourcesDone, Listed
    <3>3. objs[j].generated
      BY <2>0, <3>2 DEF AllFit, Told
    <3>4. \E i \in DOMAIN Order : Order[i] = objs[j].abi
      BY <2>0, <3>3, AbisOfObjects, OrderOfAbis
    <3> QED BY <3>2, <3>4
  <2>5. ASSUME NEW x \in abi["actions"]
        PROVE  \E m \in Handlers("action") : x = ActionOf(m) /\ StructOf(m) \in abi["structs"]
    <3>1. PICK i \in DOMAIN Order : x \in Order[i]["actions"]
      BY <2>2, SectionsAre
    <3>2. PICK m \in Handlers("action") : x = ActionOf(m)
      BY <2>1, <3>1 DEF Fits
    <3>3. StructOf(m) \in Order[i]["structs"]
      BY <2>1, <3>1, <3>2 DEF Fits
    <3>4. PICK y \in abi["structs"] : y.id = StructOf(m).id
      BY <2>3, <3>3, SectionsAre
    <3>5. PICK j \in DOMAIN Order : y \in Order[j]["structs"]
      BY <2>2, SectionsAre
    <3>6. y = StructOf(m)
      <4>1. y.id = m.method
        BY <3>4 DEF StructOf
      <4> QED BY <2>1, <3>5, <4>1 DEF Fits
    <3> QED BY <3>2, <3>4, <3>6
  <2>6. ASSUME NEW m \in Handlers("action") PROVE \E i \in DOMAIN Linked.actions : Linked.actions[i] = StubOf(m)
    <3>1. PICK k \in 1 .. src - 1 : m \in OwnActions(k)
      BY <2>0, HandlerIs
    <3>2. PICK j \in DOMAIN objs : StubOf(m) \in ToSet(objs[j].stubs.actions)
      BY <2>0, <3>1 DEF SourcesDone, InObjects
    <3> QED BY <2>0, <3>2, LinkedHas DEF Shapes
  <2>7. ASSUME NEW m \in Handlers("action") PROVE \E x \in abi["actions"] : x.id = m.action
    <3>1. PICK i \in DOMAIN Order : ActionOf(m) \in Order[i]["actions"]
      BY <2>4
    <3>2. PICK y \in abi["actions"] : y.id = ActionOf(m).id
      BY <2>3, <3>1, SectionsAre
    <3> QED BY <3>2 DEF ActionOf
  <2>8. ASSUME NEW x \in abi["actions"] PROVE \E m \in Handlers("action") : x.id = m.action
    <3>1. PICK m \in Handlers("action") : x = ActionOf(m)
      BY <2>5
    <3> QED BY <3>1 DEF ActionOf
  <2>9. {x.id : x \in abi["actions"]} = {m.action : m \in Handlers("action")}
    BY <2>7, <2>8
  <2>10. ASSUME NEW x \in abi["actions"]
         PROVE  \E i \in DOMAIN Linked.actions, m \in Handlers("action") :
                  /\ Linked.actions[i] = StubOf(m)
                  /\ m.action = x.id
                  /\ StructOf(m) \in abi["structs"] /\ x.def = m.method
    <3>1. PICK m \in Handlers("action") : x = ActionOf(m) /\ StructOf(m) \in abi["structs"]
      BY <2>5
    <3>2. PICK i \in DOMAIN Linked.actions : Linked.actions[i] = StubOf(m)
      BY <2>6
    <3>3. x.id = m.action /\ x.def = m.method
      BY <3>1 DEF ActionOf
    <3> QED BY <3>1, <3>2, <3>3
  <2> QED BY <2>9, <2>10
<1> QED BY <1>1, MergeInvariance, MergeStands, AbiInvariance, PTL

-----------------------------------------------------------------------------
(***************************************************************************)
(* The body of apply: validation, piece by piece.                          *)
(***************************************************************************)
Kinds == {"function", "IF", "ELSE"}
Legal(b) == [blocks |-> b, legal |-> TRUE]

\* The instructions s are legal where b are the open blocks, and leave c open.
Steps(r, b, s, c) ==
  /\ r[0] = Legal(b) /\ r[Len(s)] = Legal(c)
  /\ \A i \in 1 .. Len(s) : r[i] = Validate(r[i - 1], s[i])
Runs(b, s, c) == IsSequence(s) /\ \E r : Steps(r, b, s, c)

LEMMA SequenceLen ==
  ASSUME NEW s, IsSequence(s) PROVE Len(s) \in Nat /\ DOMAIN s = 1 .. Len(s)
<1>1. PICK S : s \in Seq(S)
  BY DEF IsSequence
<1> QED BY <1>1, LenProperties

LEMMA ConcatSequence ==
  ASSUME NEW s, NEW t, IsSequence(s), IsSequence(t)
  PROVE  /\ IsSequence(s \o t) /\ Len(s \o t) = Len(s) + Len(t)
         /\ \A i \in 1 .. Len(s) + Len(t) :
              (s \o t)[i] = IF i <= Len(s) THEN s[i] ELSE t[i - Len(s)]
<1>1. PICK S : s \in Seq(S)
  BY DEF IsSequence
<1>2. PICK T : t \in Seq(T)
  BY DEF IsSequence
<1> DEFINE V == S \cup T
<1>3. s \in Seq(V) /\ t \in Seq(V)
  BY <1>1, <1>2
<1> HIDE DEF V
<1>4. /\ s \o t \in Seq(V) /\ Len(s \o t) = Len(s) + Len(t)
      /\ \A i \in 1 .. Len(s) + Len(t) :
           (s \o t)[i] = IF i <= Len(s) THEN s[i] ELSE t[i - Len(s)]
  BY <1>3, ConcatProperties
<1>5. IsSequence(s \o t)
  BY <1>4 DEF IsSequence
<1> QED BY <1>4, <1>5

LEMMA RunsThen ==
  ASSUME NEW b, NEW s, NEW c, NEW t, NEW d, Runs(b, s, c), Runs(c, t, d)
  PROVE  Runs(b, s \o t, d)
<1>1. IsSequence(s) /\ IsSequence(t)
  BY DEF Runs
<1>2. PICK r : Steps(r, b, s, c)
  BY DEF Runs
<1>3. PICK q : Steps(q, c, t, d)
  BY DEF Runs
<1> DEFINE m == Len(s)
           n == Len(t)
           u == s \o t
<1>4. m \in Nat /\ n \in Nat
  BY <1>1, SequenceLen
<1>5. /\ IsSequence(u) /\ Len(u) = m + n
      /\ \A i \in 1 .. m + n : u[i] = IF i <= m THEN s[i] ELSE t[i - m]
  BY <1>1, ConcatSequence
<1>6. /\ r[0] = Legal(b) /\ r[m] = Legal(c)
      /\ \A i \in 1 .. m : r[i] = Validate(r[i - 1], s[i])
  BY <1>2 DEF Steps
<1>7. /\ q[0] = Legal(c) /\ q[n] = Legal(d)
      /\ \A i \in 1 .. n : q[i] = Validate(q[i - 1], t[i])
  BY <1>3 DEF Steps
<1> HIDE DEF m, n, u
<1> DEFINE p == [i \in 0 .. m + n |-> IF i <= m THEN r[i] ELSE q[i - m]]
<1>8. p[0] = Legal(b)
  BY <1>4, <1>6
<1>9. p[m + n] = Legal(d)
  <2>1. CASE n = 0
    BY <1>4, <1>6, <1>7, <2>1
  <2>2. CASE n # 0
    <3>1. m + n \in 0 .. m + n /\ ~(m + n <= m) /\ (m + n) - m = n
      BY <1>4, <2>2
    <3> QED BY <1>7, <3>1
  <2> QED BY <2>1, <2>2
<1>10. ASSUME NEW i \in 1 .. m + n PROVE p[i] = Validate(p[i - 1], u[i])
  <2>1. CASE i <= m
    <3>1. i \in 1 .. m /\ i \in 0 .. m + n /\ i - 1 \in 0 .. m + n /\ i - 1 <= m
      BY <1>4, <2>1
    <3>2. p[i] = r[i] /\ p[i - 1] = r[i - 1] /\ u[i] = s[i]
      BY <1>5, <2>1, <3>1
    <3> QED BY <1>6, <3>1, <3>2
  <2>2. CASE ~(i <= m)
    <3>1. i - m \in 1 .. n /\ i \in 0 .. m + n /\ i - 1 \in 0 .. m + n /\ (i - m) - 1 = (i - 1) - m
      BY <1>4, <2>2
    <3>2. p[i] = q[i - m] /\ u[i] = t[i - m]
      BY <1>5, <2>2, <3>1
    <3>3. p[i - 1] = q[(i - m) - 1]
      <4>1. CASE i - 1 <= m
        <5>1. i - 1 = m /\ (i - m) - 1 = 0
          BY <1>4, <2>2, <4>1
        <5> QED BY <1>6, <1>7, <3>1, <4>1, <5>1
      <4>2. CASE ~(i - 1 <= m)
        BY <3>1, <4>2
      <4> QED BY <4>1, <4>2
    <3> HIDE DEF p
    <3> QED BY <1>7, <3>1, <3>2, <3>3
  <2> QED BY <2>1, <2>2
<1> HIDE DEF p
<1>11. Steps(p, b, u, d)
  BY <1>5, <1>8, <1>9, <1>10 DEF Steps
<1>12. Runs(b, u, d)
  BY <1>5, <1>11 DEF Runs
<1> QED BY <1>12 DEF u

LEMMA RunsNone ==
  ASSUME NEW b PROVE Runs(b, <<>>, b)
<1> DEFINE e == <<>>
           r == [i \in 0 .. 0 |-> Legal(b)]
<1>1. e \in Seq({}) /\ Len(e) = 0
  OBVIOUS
<1> HIDE DEF e
<1>2. IsSequence(e)
  BY <1>1 DEF IsSequence
<1>3. Steps(r, b, e, b)
  BY <1>1 DEF Steps
<1> HIDE DEF r
<1>4. Runs(b, e, b)
  BY <1>2, <1>3 DEF Runs
<1> QED BY <1>4 DEF e

LEMMA RunsOne ==
  ASSUME NEW b, NEW x, NEW c, Validate(Legal(b), x) = Legal(c)
  PROVE  Runs(b, <<x>>, c)
<1> DEFINE s == <<x>>
           r == [i \in 0 .. 1 |-> IF i = 0 THEN Legal(b) ELSE Legal(c)]
<1>1. s \in Seq({x}) /\ Len(s) = 1 /\ s[1] = x
  OBVIOUS
<1> HIDE DEF s
<1>2. IsSequence(s)
  BY <1>1 DEF IsSequence
<1>3. r[0] = Legal(b) /\ r[1] = Legal(c)
  OBVIOUS
<1> HIDE DEF r
<1>4. \A i \in 1 .. 1 : i = 1 /\ i - 1 = 0
  OBVIOUS
<1>5. Steps(r, b, s, c)
  BY <1>1, <1>3, <1>4 DEF Steps
<1>6. Runs(b, s, c)
  BY <1>2, <1>5 DEF Runs
<1> QED BY <1>6 DEF s

LEMMA Stacked ==
  ASSUME NEW b \in Seq(Kinds), NEW k \in Kinds
  PROVE  /\ Append(b, k) \in Seq(Kinds) /\ Append(b, k) # <<>>
         /\ Last(Append(b, k)) = k /\ Front(Append(b, k)) = b
<1> DEFINE c == Append(b, k)
           n == Len(b)
<1>1. c \in Seq(Kinds) /\ Len(c) = n + 1 /\ n \in Nat /\ c[n + 1] = k /\ \A i \in 1 .. n : c[i] = b[i]
  BY AppendProperties, LenProperties
<1>2. b = [i \in 1 .. n |-> b[i]]
  BY LenProperties
<1> HIDE DEF c, n
<1>3. c # <<>> /\ Last(c) = k
  BY <1>1, EmptySeq DEF Last
<1>4. Front(c) = b
  <2>1. Front(c) = SubSeq(c, 1, n)
    BY <1>1 DEF Front
  <2>2. SubSeq(c, 1, n) = [i \in 1 .. n |-> c[i]]
    <3>1. SubSeq(c, 1, n) = [i \in 1 .. (1 + n) - 1 |-> c[(i + 1) - 1]]
      BY <1>1
    <3> QED BY <1>1, <3>1
  <2> QED BY <1>1, <1>2, <2>1, <2>2
<1> QED BY <1>1, <1>3, <1>4 DEF c

\* One instruction each.
LEMMA RunsInstructions ==
  ASSUME NEW b \in Seq(Kinds), NEW k \in Kinds
  PROVE  /\ \A x : x.op = "IF" /\ b # <<>> => Runs(b, <<x>>, Append(b, "IF"))
         /\ \A x : x.op = "CALL" /\ b # <<>> => Runs(b, <<x>>, b)
         /\ Runs(Append(b, "IF"), <<Else>>, Append(b, "ELSE"))
         /\ Runs(Append(b, k), <<End>>, b)
<1>0. "IF" \in Kinds /\ "ELSE" \in Kinds /\ "none" \notin Kinds
  BY DEF Kinds
<1>1. ASSUME b # <<>> PROVE Last(b) \in Kinds /\ Last(b) # "none"
  <2>1. Len(b) \in 1 .. Len(b)
    BY <1>1, LenProperties, EmptySeq
  <2>2. b[Len(b)] \in Kinds
    BY <2>1
  <2> QED BY <1>0, <2>2 DEF Last
<1>2. ASSUME NEW x, x.op = "IF", b # <<>> PROVE Runs(b, <<x>>, Append(b, "IF"))
  <2>1. Validate(Legal(b), x) = Legal(Append(b, "IF"))
    BY <1>1, <1>2 DEF Validate, Legal
  <2> QED BY <2>1, RunsOne
<1>3. ASSUME NEW x, x.op = "CALL", b # <<>> PROVE Runs(b, <<x>>, b)
  <2>1. Validate(Legal(b), x) = Legal(b)
    BY <1>1, <1>3 DEF Validate, Legal
  <2> QED BY <2>1, RunsOne
<1>4. Runs(Append(b, "IF"), <<Else>>, Append(b, "ELSE"))
  <2> DEFINE c == Append(b, "IF")
  <2>1. c # <<>> /\ Last(c) = "IF" /\ Front(c) = b
    BY <1>0, Stacked
  <2> HIDE DEF c
  <2>2. Validate(Legal(c), Else) = Legal(Append(b, "ELSE"))
    BY <2>1 DEF Validate, Legal, Else
  <2>3. Runs(c, <<Else>>, Append(b, "ELSE"))
    BY <2>2, RunsOne
  <2> QED BY <2>3 DEF c
<1>5. Runs(Append(b, k), <<End>>, b)
  <2> DEFINE c == Append(b, k)
  <2>1. c # <<>> /\ Last(c) = k /\ Front(c) = b
    BY Stacked
  <2> HIDE DEF c
  <2>2. Validate(Legal(c), End) = Legal(b)
    BY <1>0, <2>1 DEF Validate, Legal, End
  <2>3. Runs(c, <<End>>, b)
    BY <2>2, RunsOne
  <2> QED BY <2>3 DEF c
<1> QED BY <1>2, <1>3, <1>4, <1>5

\* Blocks that are open beyond those of b.
Over(b, k, c) ==
  c \in Seq(Kinds) /\ Len(c) = Len(b) + k /\ \A i \in 1 .. Len(b) : c[i] = b[i]

LEMMA OverMore ==
  ASSUME NEW b \in Seq(Kinds), NEW k \in Nat, NEW c, Over(b, k, c), NEW x \in Kinds
  PROVE  Over(b, k + 1, Append(c, x)) /\ Append(c, x) \in Seq(Kinds) /\ Append(c, x) # <<>>
<1> DEFINE d == Append(c, x)
           n == Len(b)
<1>1. c \in Seq(Kinds) /\ Len(c) = n + k /\ n \in Nat /\ \A i \in 1 .. n : c[i] = b[i]
  BY LenProperties DEF Over
<1>2. d \in Seq(Kinds) /\ Len(d) = Len(c) + 1 /\ \A i \in 1 .. Len(c) : d[i] = c[i]
  BY <1>1, AppendProperties
<1>3. d # <<>>
  BY <1>1, Stacked
<1> HIDE DEF d, n
<1>4. Len(d) = n + (k + 1)
  BY <1>1, <1>2
<1>5. \A i \in 1 .. n : d[i] = b[i]
  <2>1. \A i \in 1 .. n : i \in 1 .. n + k
    BY <1>1
  <2> QED BY <1>1, <1>2, <2>1
<1>6. Over(b, k + 1, d)
  BY <1>2, <1>4, <1>5 DEF Over, n
<1> QED BY <1>2, <1>3, <1>6 DEF d

\* The last of them.
LEMMA OverIs ==
  ASSUME NEW b \in Seq(Kinds), NEW k \in Nat, NEW c, Over(b, k + 1, c)
  PROVE  \E a, x : /\ Over(b, k, a) /\ a \in Seq(Kinds) /\ x \in Kinds
                   /\ c = Append(a, x) /\ Last(c) = x
<1> DEFINE n == Len(b)
<1>1. c \in Seq(Kinds) /\ Len(c) = n + (k + 1) /\ n \in Nat /\ \A i \in 1 .. n : c[i] = b[i]
  BY LenProperties DEF Over
<1> DEFINE a == [i \in 1 .. n + k |-> c[i]]
           x == c[n + (k + 1)]
<1> HIDE DEF n
<1>2. x \in Kinds /\ \A i \in 1 .. n + k : c[i] \in Kinds
  <2>1. n + (k + 1) \in 1 .. Len(c) /\ \A i \in 1 .. n + k : i \in 1 .. Len(c)
    BY <1>1
  <2> QED BY <1>1, <2>1
<1>3. a \in Seq(Kinds) /\ Len(a) = n + k
  <2>1. n + k \in Nat /\ a \in [1 .. n + k -> Kinds]
    BY <1>1, <1>2
  <2> HIDE DEF a
  <2> QED BY <2>1
<1>4. \A i \in 1 .. n : a[i] = b[i]
  BY <1>1
<1>5. Over(b, k, a)
  <2> HIDE DEF a
  <2> QED BY <1>3, <1>4 DEF Over, n
<1>6. c = Append(a, x)
  <2> DEFINE d == Append(a, x)
  <2>0. \A i \in 1 .. n + k : a[i] = c[i]
    OBVIOUS
  <2> HIDE DEF a, x
  <2>1. d \in Seq(Kinds) /\ Len(d) = (n + k) + 1 /\ d[(n + k) + 1] = x /\ \A i \in 1 .. n + k : d[i] = a[i]
    BY <1>2, <1>3, AppendProperties
  <2> HIDE DEF d
  <2>2. Len(d) = Len(c)
    BY <1>1, <2>1
  <2>3. ASSUME NEW i \in 1 .. Len(c) PROVE c[i] = d[i]
    <3>1. CASE i = (n + k) + 1
      <4>1. i = n + (k + 1)
        BY <1>1, <3>1
      <4> QED BY <2>1, <3>1, <4>1 DEF x
    <3>2. CASE i # (n + k) + 1
      <4>1. i \in 1 .. n + k
        BY <1>1, <3>2
      <4> QED BY <2>0, <2>1, <4>1
    <3> QED BY <3>1, <3>2
  <2>4. c = d
    BY <1>1, <2>1, <2>2, <2>3, SeqEqual
  <2> QED BY <2>4 DEF d
<1>7. Last(c) = x
  BY <1>1 DEF Last
<1> HIDE DEF a, x
<1> QED BY <1>2, <1>3, <1>5, <1>6, <1>7

LEMMA OverNone ==
  ASSUME NEW b \in Seq(Kinds) PROVE Over(b, 0, b) /\ \A c : Over(b, 0, c) => c = b
<1>1. Len(b) \in Nat
  BY LenProperties
<1>2. Over(b, 0, b)
  BY <1>1 DEF Over
<1>3. ASSUME NEW c, Over(b, 0, c) PROVE c = b
  <2>1. c \in Seq(Kinds) /\ Len(c) = Len(b) + 0 /\ \A i \in 1 .. Len(b) : c[i] = b[i]
    BY <1>3 DEF Over
  <2>2. Len(c) = Len(b)
    BY <1>1, <2>1
  <2> QED BY <2>1, <2>2, SeqEqual
<1> QED BY <1>2, <1>3

LEMMA EndsIs ==
  ASSUME NEW k \in Nat PROVE Ends(0) = <<>> /\ Ends(k + 1) = <<End>> \o Ends(k) /\ IsSequence(Ends(k))
<1> DEFINE E(n) == [i \in 1 .. n |-> End]
           S == {End}
<1>0. \A n : Ends(n) = E(n)
  BY DEF Ends
<1>1. \A n \in Nat : E(n) \in Seq(S) /\ Len(E(n)) = n /\ \A i \in 1 .. n : E(n)[i] = End
  OBVIOUS
<1>2. E(0) = <<>>
  BY <1>1, EmptySeq
<1>3. E(k + 1) = <<End>> \o E(k)
  <2> DEFINE l == <<End>>
             u == l \o E(k)
  <2>1. l \in Seq(S) /\ Len(l) = 1 /\ l[1] = End
    OBVIOUS
  <2> HIDE DEF l, E
  <2>2. /\ u \in Seq(S) /\ Len(u) = Len(l) + Len(E(k))
        /\ \A i \in 1 .. Len(l) + Len(E(k)) : u[i] = IF i <= Len(l) THEN l[i] ELSE E(k)[i - Len(l)]
    BY <1>1, <2>1, ConcatProperties
  <2>3. E(k + 1) \in Seq(S) /\ Len(E(k + 1)) = k + 1 /\ \A i \in 1 .. k + 1 : E(k + 1)[i] = End
    BY <1>1
  <2>4. Len(E(k)) = k /\ \A i \in 1 .. k : E(k)[i] = End
    BY <1>1
  <2> HIDE DEF u
  <2>5. Len(u) = k + 1
    BY <2>1, <2>2, <2>4
  <2>6. ASSUME NEW i \in 1 .. k + 1 PROVE u[i] = End
    <3>1. CASE i <= 1
      <4>1. i = 1 /\ i \in 1 .. 1 + k
        BY <3>1
      <4> QED BY <2>1, <2>2, <2>4, <4>1
    <3>2. CASE ~(i <= 1)
      <4>1. i - 1 \in 1 .. k /\ i \in 1 .. 1 + k
        BY <3>2
      <4> QED BY <2>1, <2>2, <2>4, <3>2, <4>1
    <3> QED BY <3>1, <3>2
  <2>7. E(k + 1) = u
    BY <2>2, <2>3, <2>5, <2>6, SeqEqual
  <2> QED BY <2>7 DEF u, l
<1>4. IsSequence(E(k))
  <2> HIDE DEF E
  <2> QED BY <1>1 DEF IsSequence
<1> QED BY <1>0, <1>2, <1>3, <1>4

\* The ENDs at the end of a chain.
LEMMA EndsRun ==
  ASSUME NEW b \in Seq(Kinds), NEW k \in Nat, NEW c, Over(b, k, c)
  PROVE  Runs(c, Ends(k), b)
<1> DEFINE P(n) == \A d : Over(b, n, d) => Runs(d, Ends(n), b)
           T == {n \in 0 .. k : P(n)}
<1>1. 0 \in T
  <2>1. ASSUME NEW d, Over(b, 0, d) PROVE Runs(d, Ends(0), b)
    <3>1. d = b
      BY <2>1, OverNone
    <3> QED BY <3>1, EndsIs, RunsNone
  <2> QED BY <2>1
<1>2. ASSUME NEW n \in 1 .. k, n - 1 \in T PROVE n \in T
  <2>0. n \in 0 .. k
    OBVIOUS
  <2>1. PICK m \in Nat : m = n - 1 /\ n = m + 1
    OBVIOUS
  <2>2. P(m)
    BY <1>2, <2>1
  <2>3. ASSUME NEW d, Over(b, m + 1, d) PROVE Runs(d, Ends(m + 1), b)
    <3>1. \E a, x : /\ Over(b, m, a) /\ a \in Seq(Kinds) /\ x \in Kinds
                    /\ d = Append(a, x) /\ Last(d) = x
      BY <2>3, OverIs
    <3>2. PICK a, x : /\ Over(b, m, a) /\ a \in Seq(Kinds) /\ x \in Kinds
                      /\ d = Append(a, x) /\ Last(d) = x
      BY <3>1
    <3>3. Runs(d, <<End>>, a)
      BY <3>2, RunsInstructions
    <3>4. Runs(a, Ends(m), b)
      BY <2>2, <3>2
    <3>5. Ends(m + 1) = <<End>> \o Ends(m)
      BY EndsIs
    <3> QED BY <3>3, <3>4, <3>5, RunsThen
  <2>4. P(m + 1)
    BY <2>3
  <2>5. P(n)
    BY <2>1, <2>4
  <2> QED BY <2>0, <2>5
<1>3. k \in T
  <2> HIDE DEF T
  <2>1. \A n \in 0 .. k : n \in T
    BY <1>1, <1>2, UptoInduction
  <2> QED BY <2>1
<1> QED BY <1>3

LEMMA RunsTwo ==
  ASSUME NEW b, NEW x, NEW c, NEW y, NEW d, Runs(b, <<x>>, c), Runs(c, <<y>>, d)
  PROVE  Runs(b, <<x, y>>, d)
<1>1. <<x, y>> = <<x>> \o <<y>>
  OBVIOUS
<1> QED BY <1>1, RunsThen

-----------------------------------------------------------------------------
(***************************************************************************)
(* The chains of IFs.                                                      *)
(***************************************************************************)
LEMMA OverOver ==
  ASSUME NEW b \in Seq(Kinds), NEW x \in Kinds, NEW k \in Nat, NEW a, Over(Append(b, x), k, a)
  PROVE  Over(b, k + 1, a)
<1> DEFINE e == Append(b, x)
           n == Len(b)
<1>1. n \in Nat /\ Len(e) = n + 1 /\ \A i \in 1 .. n : e[i] = b[i]
  BY AppendProperties, LenProperties
<1>2. a \in Seq(Kinds) /\ Len(a) = Len(e) + k /\ \A i \in 1 .. Len(e) : a[i] = e[i]
  BY DEF Over
<1> HIDE DEF e, n
<1>3. Len(a) = n + (k + 1)
  BY <1>1, <1>2
<1>4. \A i \in 1 .. n : a[i] = b[i]
  <2>1. \A i \in 1 .. n : i \in 1 .. n + 1
    BY <1>1
  <2> QED BY <1>1, <1>2, <2>1
<1> QED BY <1>2, <1>3, <1>4 DEF Over, n

LEMMA OpsAre ==
  /\ \A l, r, o : If(l, r, o).op = "IF"
  /\ \A f : Call(f).op = "CALL"
BY DEF If, Call

\* IF, then a call.
LEMMA IfCallRuns ==
  ASSUME NEW b \in Seq(Kinds), b # <<>>, NEW l, NEW r, NEW o, NEW f
  PROVE  Runs(b, <<If(l, r, o), Call(f)>>, Append(b, "IF"))
<1>1. PICK x : x = If(l, r, o) /\ x.op = "IF"
  BY OpsAre
<1>2. PICK y : y = Call(f) /\ y.op = "CALL"
  BY OpsAre
<1> DEFINE c == Append(b, "IF")
<1>3. Runs(b, <<x>>, c)
  BY <1>1, RunsInstructions DEF Kinds
<1>4. c \in Seq(Kinds) /\ c # <<>>
  BY Stacked DEF Kinds
<1> HIDE DEF c
<1>5. Runs(c, <<y>>, c)
  BY <1>2, <1>4, RunsInstructions DEF Kinds
<1>6. Runs(b, <<x, y>>, c)
  BY <1>3, <1>5, RunsTwo
<1> QED BY <1>1, <1>2, <1>6 DEF c

\* ELSE, then a call.
LEMMA ElseCallRuns ==
  ASSUME NEW b \in Seq(Kinds), NEW f
  PROVE  Runs(Append(b, "IF"), <<Else, Call(f)>>, Append(b, "ELSE"))
<1>2. PICK y : y = Call(f) /\ y.op = "CALL"
  BY OpsAre
<1> DEFINE c == Append(b, "ELSE")
<1>3. Runs(Append(b, "IF"), <<Else>>, c)
  BY RunsInstructions DEF Kinds
<1>4. c \in Seq(Kinds) /\ c # <<>>
  BY Stacked DEF Kinds
<1> HIDE DEF c
<1>5. Runs(c, <<y>>, c)
  BY <1>2, <1>4, RunsInstructions DEF Kinds
<1>6. Runs(Append(b, "IF"), <<Else, y>>, c)
  BY <1>3, <1>5, RunsTwo
<1> QED BY <1>2, <1>6 DEF c

LEMMA EmptyConcat ==
  ASSUME NEW s, IsSequence(s) PROVE <<>> \o s = s /\ s \o <<>> = s
<1>1. PICK S : s \in Seq(S)
  BY DEF IsSequence
<1> QED BY <1>1

\* The first link of a chain, and a further one.
LEMMA CreateIfRuns ==
  ASSUME NEW b \in Seq(Kinds), NEW h
  PROVE  /\ b # <<>> => Runs(b, create_if(h, FALSE), Append(b, "IF"))
         /\ Runs(Append(b, "IF"), create_if(h, TRUE), Append(Append(b, "ELSE"), "IF"))
<1> DEFINE s == <<If("action", "EQ", h.action), Call(h.function)>>
           c == Append(b, "ELSE")
<1>1. create_if(h, FALSE) = <<>> \o s /\ create_if(h, TRUE) = <<Else>> \o s
  BY DEF create_if, When
<1>2. \A e \in Seq(Kinds) : e # <<>> => Runs(e, s, Append(e, "IF"))
  BY IfCallRuns
<1> HIDE DEF s
<1>3. ASSUME b # <<>> PROVE Runs(b, create_if(h, FALSE), Append(b, "IF"))
  <2>1. Runs(b, s, Append(b, "IF"))
    BY <1>2, <1>3
  <2>2. create_if(h, FALSE) = s
    BY <1>1, <2>1, EmptyConcat DEF Runs
  <2> QED BY <2>1, <2>2
<1>4. Runs(Append(b, "IF"), create_if(h, TRUE), Append(c, "IF"))
  <2>1. c \in Seq(Kinds) /\ c # <<>>
    BY Stacked DEF Kinds
  <2>2. Runs(Append(b, "IF"), <<Else>>, c)
    BY RunsInstructions DEF Kinds
  <2> HIDE DEF c
  <2>3. Runs(c, s, Append(c, "IF"))
    BY <1>2, <2>1
  <2> QED BY <1>1, <2>2, <2>3, RunsThen
<1> QED BY <1>3, <1>4

\* A chain of n stubs leaves n blocks open, the last of them an IF.
Chain(b, n, s) == \E a : Over(b, n, a) /\ a \in Seq(Kinds) /\ Runs(b, s, Append(a, "IF"))

LEMMA ChainRuns ==
  ASSUME NEW b \in Seq(Kinds), b # <<>>, NEW hs, IsSequence(hs), Len(hs) # 0
  PROVE  Chain(b, Len(hs) - 1, IfChain(hs))
<1> DEFINE N == Len(hs)
           seqs == [i \in 1 .. N |-> create_if(hs[i], i > 1)]
<1>0. N \in Nat /\ N # 0
  BY SequenceLen
<1>1. IfChain(hs) = FlattenSeq(seqs)
  BY DEF IfChain
<1> HIDE DEF N
<1>2. /\ IsSequence(seqs) /\ Len(seqs) = N /\ DOMAIN seqs = 1 .. N
      /\ \A i \in 1 .. N : seqs[i] = create_if(hs[i], i > 1)
  <2> DEFINE S == {create_if(hs[i], i > 1) : i \in 1 .. N}
  <2>1. seqs \in [1 .. N -> S]
    OBVIOUS
  <2>2. seqs \in Seq(S) /\ Len(seqs) = N
    <3> HIDE DEF S, seqs
    <3> QED BY <1>0, <2>1
  <2>3. IsSequence(seqs)
    BY <2>2 DEF IsSequence
  <2> QED BY <2>2, <2>3
<1> HIDE DEF seqs
<1>3. /\ seqs[1] = create_if(hs[1], FALSE)
      /\ \A i \in 2 .. N : seqs[i] = create_if(hs[i], TRUE)
  <2>1. 1 \in 1 .. N /\ (1 > 1) = FALSE /\ \A i \in 2 .. N : i \in 1 .. N /\ (i > 1) = TRUE
    BY <1>0
  <2> QED BY <1>2, <2>1
<1>4. \A i \in 1 .. N : IsSequence(seqs[i])
  <2>1. \A i \in 1 .. N : i = 1 \/ i \in 2 .. N
    BY <1>0
  <2>2. IsSequence(create_if(hs[1], FALSE)) /\ \A i : IsSequence(create_if(hs[i], TRUE))
    BY CreateIfRuns DEF Runs
  <2> QED BY <1>3, <2>1, <2>2
<1>5. PICK w : Flattened(w, seqs)
  BY <1>0, <1>2, <1>4, FlattenIs
<1>6. w[1] = seqs[1] /\ FlattenSeq(seqs) = w[N] /\ \A i \in 2 .. N : w[i] = w[i - 1] \o seqs[i]
  BY <1>2, <1>5 DEF Flattened
<1> DEFINE T == {n \in 0 .. N : n # 0 => Chain(b, n - 1, w[n])}
<1>7. 0 \in T
  BY <1>0
<1>8. ASSUME NEW n \in 1 .. N, n - 1 \in T PROVE n \in T
  <2>0. n \in 0 .. N
    OBVIOUS
  <2>1. CASE n = 1
    <3>1. Runs(b, create_if(hs[1], FALSE), Append(b, "IF"))
      BY CreateIfRuns
    <3>1a. w[1] = create_if(hs[1], FALSE)
      BY <1>3, <1>6
    <3>1b. Over(b, 0, b)
      BY OverNone
    <3>2. Chain(b, 0, w[1])
      BY <3>1, <3>1a, <3>1b DEF Chain
    <3>3. n - 1 = 0
      BY <2>1
    <3> QED BY <2>0, <2>1, <3>2, <3>3
  <2>2. CASE n # 1
    <3>1. PICK m \in Nat : m = (n - 1) - 1 /\ n - 1 = m + 1 /\ n \in 2 .. N /\ n - 1 # 0
      BY <2>2
    <3>2. Chain(b, m, w[n - 1])
      BY <1>8, <3>1
    <3>3. PICK a : Over(b, m, a) /\ a \in Seq(Kinds) /\ Runs(b, w[n - 1], Append(a, "IF"))
      BY <3>2 DEF Chain
    <3>4. Runs(Append(a, "IF"), seqs[n], Append(Append(a, "ELSE"), "IF"))
      BY <1>3, <3>1, <3>3, CreateIfRuns
    <3>5. Over(b, m + 1, Append(a, "ELSE")) /\ Append(a, "ELSE") \in Seq(Kinds)
      BY <3>3, OverMore DEF Kinds
    <3>6. w[n] = w[n - 1] \o seqs[n]
      BY <1>6, <3>1
    <3>7. Runs(b, w[n], Append(Append(a, "ELSE"), "IF"))
      BY <3>3, <3>4, <3>6, RunsThen
    <3>8. Chain(b, m + 1, w[n])
      BY <3>5, <3>7 DEF Chain
    <3>9. Chain(b, n - 1, w[n])
      BY <3>1, <3>8
    <3> QED BY <2>0, <3>9
  <2> QED BY <2>1, <2>2
<1>9. N \in T
  <2> HIDE DEF T
  <2>1. \A n \in 0 .. N : n \in T
    BY <1>0, <1>7, <1>8, UptoInduction
  <2> QED BY <1>0, <2>1
<1>10. Chain(b, N - 1, w[N])
  BY <1>0, <1>9
<1> QED BY <1>1, <1>6, <1>10 DEF N

-----------------------------------------------------------------------------
(***************************************************************************)
(* The parts of the body.                                                  *)
(***************************************************************************)
LEMMA NoChain ==
  ASSUME NEW hs, IsSequence(hs), Len(hs) = 0
  PROVE  hs = <<>> /\ IfChain(hs) = <<>> /\ Ends(Len(hs)) = <<>>
<1>1. hs = <<>>
  <2>1. PICK S : hs \in Seq(S)
    BY DEF IsSequence
  <2> QED BY <2>1, EmptySeq
<1> DEFINE seqs == [i \in 1 .. Len(hs) |-> create_if(hs[i], i > 1)]
<1>2. Len(seqs) = 0
  <2>1. 1 .. Len(hs) = {}
    BY <1>1
  <2>2. seqs = <<>>
    <3>1. seqs \in [1 .. 0 -> {}] /\ 0 \in Nat
      BY <2>1
    <3> HIDE DEF seqs
    <3>2. seqs \in Seq({}) /\ Len(seqs) = 0
      BY <3>1
    <3> QED BY <3>2, EmptySeq
  <2> HIDE DEF seqs
  <2> QED BY <2>2
<1>3. FlattenSeq(seqs) = <<>>
  <2> HIDE DEF seqs
  <2> QED BY <1>2 DEF FlattenSeq
<1>4. IfChain(hs) = <<>>
  BY <1>3 DEF IfChain
<1>5. Ends(0) = <<>>
  BY EndsIs
<1> QED BY <1>1, <1>4, <1>5

\* A chain leaves as many blocks open as it has stubs.
LEMMA ChainOpens ==
  ASSUME NEW b \in Seq(Kinds), b # <<>>, NEW hs, IsSequence(hs)
  PROVE  \E c : Over(b, Len(hs), c) /\ Runs(b, IfChain(hs), c)
<1>1. CASE Len(hs) = 0
  <2>1. IfChain(hs) = <<>>
    BY <1>1, NoChain
  <2>2. Runs(b, IfChain(hs), b)
    BY <2>1, RunsNone
  <2>3. Over(b, Len(hs), b)
    BY <1>1, OverNone
  <2> QED BY <2>2, <2>3
<1>2. CASE Len(hs) # 0
  <2>1. PICK m \in Nat : m = Len(hs) - 1 /\ Len(hs) = m + 1
    <3> DEFINE N == Len(hs)
    <3>1. N \in Nat /\ N # 0
      BY <1>2, SequenceLen
    <3> HIDE DEF N
    <3>2. N - 1 \in Nat /\ N = (N - 1) + 1
      BY <3>1
    <3>3. \E m \in Nat : m = N - 1 /\ N = m + 1
      BY <3>2
    <3> QED BY <3>3 DEF N
  <2>2. Chain(b, m, IfChain(hs))
    BY <1>2, <2>1, ChainRuns
  <2>3. PICK a : Over(b, m, a) /\ a \in Seq(Kinds) /\ Runs(b, IfChain(hs), Append(a, "IF"))
    BY <2>2 DEF Chain
  <2>4. Over(b, m + 1, Append(a, "IF"))
    BY <2>3, OverMore DEF Kinds
  <2> QED BY <2>1, <2>3, <2>4
<1> QED BY <1>1, <1>2

\* A chain that is closed again.
LEMMA ClosedChain ==
  ASSUME NEW b \in Seq(Kinds), b # <<>>, NEW hs, IsSequence(hs)
  PROVE  Runs(b, IfChain(hs) \o Ends(Len(hs)), b)
<1>1. PICK c : Over(b, Len(hs), c) /\ Runs(b, IfChain(hs), c)
  BY ChainOpens
<1>2. Len(hs) \in Nat
  BY SequenceLen
<1>3. Runs(c, Ends(Len(hs)), b)
  BY <1>1, <1>2, EndsRun
<1> QED BY <1>1, <1>3, RunsThen

\* A chain and the ELSE of its last IF.
LEMMA ChainElse ==
  ASSUME NEW b \in Seq(Kinds), b # <<>>, NEW hs, IsSequence(hs)
  PROVE  \E e : /\ e \in Seq(Kinds) /\ e # <<>> /\ Over(b, Len(hs), e)
                /\ Runs(b, IfChain(hs) \o When(hs # <<>>, <<Else>>), e)
<1>1. CASE Len(hs) = 0
  <2>1. IfChain(hs) = <<>> /\ When(hs # <<>>, <<Else>>) = <<>>
    BY <1>1, NoChain DEF When
  <2>2. Runs(b, <<>>, b)
    BY RunsNone
  <2>3. Runs(b, IfChain(hs) \o When(hs # <<>>, <<Else>>), b)
    BY <2>1, <2>2, RunsThen
  <2>4. Over(b, Len(hs), b)
    BY <1>1, OverNone
  <2> QED BY <2>3, <2>4
<1>2. CASE Len(hs) # 0
  <2>0. hs # <<>>
    BY <1>2
  <2>1. PICK m \in Nat : m = Len(hs) - 1 /\ Len(hs) = m + 1
    <3> DEFINE N == Len(hs)
    <3>1. N \in Nat /\ N # 0
      BY <1>2, SequenceLen
    <3> HIDE DEF N
    <3>2. N - 1 \in Nat /\ N = (N - 1) + 1
      BY <3>1
    <3>3. \E m \in Nat : m = N - 1 /\ N = m + 1
      BY <3>2
    <3> QED BY <3>3 DEF N
  <2>2. Chain(b, m, IfChain(hs))
    BY <1>2, <2>1, ChainRuns
  <2>3. PICK a : Over(b, m, a) /\ a \in Seq(Kinds) /\ Runs(b, IfChain(hs), Append(a, "IF"))
    BY <2>2 DEF Chain
  <2>4. /\ Over(b, m + 1, Append(a, "ELSE")) /\ Append(a, "ELSE") \in Seq(Kinds)
        /\ Append(a, "ELSE") # <<>>
    BY <2>3, OverMore DEF Kinds
  <2>5. Runs(Append(a, "IF"), <<Else>>, Append(a, "ELSE"))
    BY <2>3, RunsInstructions DEF Kinds
  <2>6. When(hs # <<>>, <<Else>>) = <<Else>>
    BY <2>0 DEF When
  <2>7. Runs(b, IfChain(hs) \o When(hs # <<>>, <<Else>>), Append(a, "ELSE"))
    BY <2>3, <2>5, <2>6, RunsThen
  <2> QED BY <2>1, <2>4, <2>7
<1> QED BY <1>1, <1>2

LEMMA ActionDispatchRuns ==
  ASSUME NEW b \in Seq(Kinds), b # <<>>, NEW actions, NEW post \in BOOLEAN,
         IsSequence(HasDispatched(actions))
  PROVE  Runs(b, create_action_dispatch(actions, post), b)
<1> DEFINE acts == HasDispatched(actions)
           s1 == IfChain(acts) \o When(acts # <<>>, <<Else>>)
           s2 == <<If("receiver", "NE", UOSIO), Call(NoAction)>>
           s3 == When(post, <<Else, Call(PostDispatch)>>)
           s4 == <<End>>
           s5 == Ends(Len(acts))
<1>1. create_action_dispatch(actions, post) = (((s1 \o s2) \o s3) \o s4) \o s5
  BY DEF create_action_dispatch
<1>2. PICK e : e \in Seq(Kinds) /\ e # <<>> /\ Over(b, Len(acts), e) /\ Runs(b, s1, e)
  BY ChainElse
<1>3. Runs(e, s2, Append(e, "IF"))
  BY <1>2, IfCallRuns
<1>4. PICK k \in Kinds : Runs(Append(e, "IF"), s3, Append(e, k))
  <2>1. CASE post
    <3>1. s3 = <<Else, Call(PostDispatch)>>
      BY <2>1 DEF When
    <3> HIDE DEF s3
    <3>2. Runs(Append(e, "IF"), s3, Append(e, "ELSE"))
      BY <1>2, <3>1, ElseCallRuns
    <3> QED BY <3>2 DEF Kinds
  <2>2. CASE ~post
    <3>1. s3 = <<>>
      BY <2>2 DEF When
    <3> HIDE DEF s3
    <3>2. Runs(Append(e, "IF"), s3, Append(e, "IF"))
      BY <3>1, RunsNone
    <3> QED BY <3>2 DEF Kinds
  <2> QED BY <2>1, <2>2
<1>5. Runs(Append(e, k), s4, e)
  BY <1>2, <1>4, RunsInstructions
<1>6. Runs(e, s5, b)
  <2>1. Len(acts) \in Nat
    BY SequenceLen
  <2> QED BY <1>2, <2>1, EndsRun
<1> HIDE DEF s1, s2, s3, s4, s5
<1>7. Runs(b, s1 \o s2, Append(e, "IF"))
  BY <1>2, <1>3, RunsThen
<1>8. Runs(b, (s1 \o s2) \o s3, Append(e, k))
  BY <1>4, <1>7, RunsThen
<1>9. Runs(b, ((s1 \o s2) \o s3) \o s4, e)
  BY <1>5, <1>8, RunsThen
<1>10. Runs(b, (((s1 \o s2) \o s3) \o s4) \o s5, b)
  BY <1>6, <1>9, RunsThen
<1> QED BY <1>1, <1>10

LEMMA OnErrorRuns ==
  ASSUME NEW b \in Seq(Kinds), b # <<>>, NEW notify
  PROVE  Runs(b, OnErrorCheck(notify), b)
<1> DEFINE i1 == <<If("code", "EQ", UOSIO)>>
           i2 == <<If("action", "EQ", ONERROR), Call(OnErrorAssert)>>
           i3 == <<End>>
           s == <<If("code", "EQ", UOSIO), If("action", "EQ", ONERROR),
                  Call(OnErrorAssert), End, End>>
           c == Append(b, "IF")
<1>1. OnErrorCheck(notify) = s \/ OnErrorCheck(notify) = <<>>
  BY DEF OnErrorCheck, When
<1>2. s = ((i1 \o i2) \o i3) \o i3
  <2> HIDE DEF Else, End
  <2> QED OBVIOUS
<1>3. c \in Seq(Kinds) /\ c # <<>>
  BY Stacked DEF Kinds
<1>4. Runs(b, i1, c)
  BY OpsAre, RunsInstructions DEF Kinds
<1> HIDE DEF c
<1>5. Runs(c, i2, Append(c, "IF"))
  BY <1>3, IfCallRuns
<1>6. Runs(Append(c, "IF"), i3, c)
  BY <1>3, RunsInstructions DEF Kinds
<1>7. Runs(c, i3, b)
  BY RunsInstructions DEF Kinds, c
<1> HIDE DEF s, i1, i2, i3
<1>8. Runs(b, (i1 \o i2) \o i3, c)
  BY <1>4, <1>5, <1>6, RunsThen
<1>9. Runs(b, s, b)
  BY <1>2, <1>7, <1>8, RunsThen
<1> QED BY <1>1, <1>9, RunsNone

LEMMA ConcatAssoc ==
  ASSUME NEW s, NEW t, NEW u, IsSequence(s), IsSequence(t), IsSequence(u)
  PROVE  (s \o t) \o u = s \o (t \o u)
<1>1. PICK S : s \in Seq(S)
  BY DEF IsSequence
<1>2. PICK T : t \in Seq(T)
  BY DEF IsSequence
<1>3. PICK U : u \in Seq(U)
  BY DEF IsSequence
<1> DEFINE V == (S \cup T) \cup U
<1>4. s \in Seq(V) /\ t \in Seq(V) /\ u \in Seq(V)
  BY <1>1, <1>2, <1>3
<1> HIDE DEF V
<1> QED BY <1>4, ConcatAssociative

\* The IF of the account is left open.
LEMMA CodeGroupRuns ==
  ASSUME NEW b \in Seq(Kinds), b # <<>>, NEW notify, NEW code,
         IsSequence(NotifyHandlers(notify, code))
  PROVE  Runs(b, CodeGroup(notify, code, FALSE), Append(b, "IF"))
<1> DEFINE hs == NotifyHandlers(notify, code)
           s0 == When(FALSE, <<Else>>)
           s1 == <<If("code", "EQ", code)>>
           s2 == IfChain(hs)
           s3 == Ends(Len(hs))
           c == Append(b, "IF")
<1>1. CodeGroup(notify, code, FALSE) = ((s0 \o s1) \o s2) \o s3
  BY DEF CodeGroup
<1>2. Runs(b, s0, b)
  BY RunsNone DEF When
<1>3. Runs(b, s1, c)
  BY OpsAre, RunsInstructions DEF Kinds
<1>4. c \in Seq(Kinds) /\ c # <<>>
  BY Stacked DEF Kinds
<1> HIDE DEF c, s0, s1
<1>5. Runs(c, s2 \o s3, c)
  BY <1>4, ClosedChain
<1>6. Runs(b, s0 \o s1, c)
  BY <1>2, <1>3, RunsThen
<1>7. Runs(b, (s0 \o s1) \o (s2 \o s3), c)
  BY <1>5, <1>6, RunsThen
<1>8. IsSequence(s0 \o s1) /\ IsSequence(s2) /\ IsSequence(s3)
  <2>1. IsSequence(s3)
    BY EndsIs, SequenceLen
  <2>2. IsSequence(s2)
    <3>1. CASE Len(hs) = 0
      BY <3>1, NoChain, RunsNone DEF Runs
    <3>2. CASE Len(hs) # 0
      BY <1>4, <3>2, ChainRuns DEF Chain, Runs
    <3> QED BY <3>1, <3>2
  <2> QED BY <1>6, <2>1, <2>2 DEF Runs
<1>9. ((s0 \o s1) \o s2) \o s3 = (s0 \o s1) \o (s2 \o s3)
  <2> DEFINE s01 == s0 \o s1
  <2> HIDE DEF s01, s2, s3
  <2>1. IsSequence(s01)
    BY <1>8 DEF s01
  <2>2. (s01 \o s2) \o s3 = s01 \o (s2 \o s3)
    <3>1. PICK x, y, z : x = s01 /\ y = s2 /\ z = s3
      OBVIOUS
    <3>2. IsSequence(x) /\ IsSequence(y) /\ IsSequence(z)
      BY <1>8, <2>1, <3>1
    <3>3. (x \o y) \o z = x \o (y \o z)
      BY <3>2, ConcatAssoc
    <3> QED BY <3>1, <3>3
  <2> QED BY <2>2 DEF s01
<1> QED BY <1>1, <1>7, <1>9 DEF c

\* The bodies of one account with wildcard handlers and post_dispatch, or of no
\* account without it, are those in which each IF has its END.
LEMMA NotifyDispatchRuns ==
  ASSUME NEW b \in Seq(Kinds), b # <<>>, NEW notify, NEW post \in BOOLEAN,
         \A c : IsSequence(NotifyHandlers(notify, c)), IsSequence(NotifyCodes(notify)),
         \/ post /\ Len(NotifyCodes(notify)) = 1 /\ Len(NotifyHandlers(notify, ANY)) # 0
         \/ ~post /\ Len(NotifyCodes(notify)) = 0
  PROVE  Runs(b, create_notify_dispatch(notify, post), b)
<1> DEFINE codes == NotifyCodes(notify)
           wild == NotifyHandlers(notify, ANY)
           N == Len(codes)
           seqs == [i \in 1 .. N |-> CodeGroup(notify, codes[i], i > 1)]
           s1 == OnErrorCheck(notify)
           s2 == FlattenSeq(seqs)
           s3 == When(codes # <<>>, <<Else>>)
           s4 == IfChain(wild)
           s5 == When(post, <<Else, Call(PostDispatch), End>>)
           s6 == Ends(Len(wild))
<1>1. create_notify_dispatch(notify, post) = ((((s1 \o s2) \o s3) \o s4) \o s5) \o s6
  BY DEF create_notify_dispatch
<1>2. Runs(b, s1, b)
  BY OnErrorRuns
<1>3. IsSequence(wild) /\ Len(wild) \in Nat
  BY SequenceLen
<1>4. ASSUME NEW c1, NEW c2, NEW c3, NEW c4, Runs(b, s2, c1), Runs(c1, s3, c2),
             Runs(c2, s4, c3), Runs(c3, s5, c4), Runs(c4, s6, b)
      PROVE  Runs(b, create_notify_dispatch(notify, post), b)
  <2> HIDE DEF s1, s2, s3, s4, s5, s6
  <2>1. Runs(b, s1 \o s2, c1)
    BY <1>2, <1>4, RunsThen
  <2>2. Runs(b, (s1 \o s2) \o s3, c2)
    BY <1>4, <2>1, RunsThen
  <2>3. Runs(b, ((s1 \o s2) \o s3) \o s4, c3)
    BY <1>4, <2>2, RunsThen
  <2>4. Runs(b, (((s1 \o s2) \o s3) \o s4) \o s5, c4)
    BY <1>4, <2>3, RunsThen
  <2>5. Runs(b, ((((s1 \o s2) \o s3) \o s4) \o s5) \o s6, b)
    BY <1>4, <2>4, RunsThen
  <2> QED BY <1>1, <2>5
<1>5. CASE post /\ N = 1 /\ Len(wild) # 0
  <2> DEFINE e == Append(b, "ELSE")
  <2>1. s2 = CodeGroup(notify, codes[1], FALSE)
    <3> DEFINE g == CodeGroup(notify, codes[1], FALSE)
    <3>1. seqs = [i \in 1 .. 1 |-> CodeGroup(notify, codes[i], i > 1)]
      BY <1>5
    <3>2. \A i \in 1 .. 1 : i = 1 /\ (i > 1) = FALSE
      OBVIOUS
    <3>3. seqs = [i \in 1 .. 1 |-> g]
      BY <3>1, <3>2
    <3>4. IsSequence(g)
      BY CodeGroupRuns DEF Runs
    <3> HIDE DEF seqs, g
    <3>5. seqs \in Seq({g}) /\ Len(seqs) = 1 /\ seqs[1] = g
      BY <3>3
    <3>6. IsSequence(seqs) /\ Len(seqs) # 0 /\ \A i \in 1 .. Len(seqs) : IsSequence(seqs[i])
      <4>1. \A i \in 1 .. Len(seqs) : i = 1
        BY <3>5
      <4> QED BY <3>4, <3>5, <4>1 DEF IsSequence
    <3>7. DOMAIN seqs = 1 .. Len(seqs)
      BY <3>6, SequenceLen
    <3>8. PICK w : Flattened(w, seqs)
      BY <3>6, <3>7, FlattenIs
    <3>9. FlattenSeq(seqs) = seqs[1]
      BY <3>5, <3>8 DEF Flattened
    <3> QED BY <3>5, <3>9 DEF g
  <2>2. Runs(b, s2, Append(b, "IF"))
    <3> HIDE DEF s2
    <3> QED BY <2>1, CodeGroupRuns
  <2>3. Runs(Append(b, "IF"), s3, e)
    <3>0. codes # <<>>
      <4>1. Len(<<>>) = 0 /\ Len(codes) = 1
        BY <1>5
      <4> HIDE DEF codes
      <4> QED BY <4>1
    <3>1. s3 = <<Else>>
      BY <3>0 DEF When
    <3> HIDE DEF s3
    <3> QED BY <3>1, RunsInstructions DEF Kinds
  <2>4. e \in Seq(Kinds) /\ e # <<>>
    BY Stacked DEF Kinds
  <2>5. PICK m \in Nat : m = Len(wild) - 1 /\ Len(wild) = m + 1
    <3> DEFINE n == Len(wild)
    <3>1. n \in Nat /\ n # 0
      BY <1>3, <1>5
    <3> HIDE DEF n
    <3>2. n - 1 \in Nat /\ n = (n - 1) + 1
      BY <3>1
    <3>3. \E m \in Nat : m = n - 1 /\ n = m + 1
      BY <3>2
    <3> QED BY <3>3 DEF n
  <2>6. Chain(e, m, s4)
    <3> HIDE DEF e, wild
    <3> QED BY <1>3, <1>5, <2>4, <2>5, ChainRuns
  <2>7. PICK a : Over(e, m, a) /\ a \in Seq(Kinds) /\ Runs(e, s4, Append(a, "IF"))
    BY <2>6 DEF Chain
  <2>8. Runs(Append(a, "IF"), s5, a)
    <3>1. s5 = <<Else, Call(PostDispatch), End>>
      BY <1>5 DEF When
    <3>2. <<Else, Call(PostDispatch), End>> = <<Else, Call(PostDispatch)>> \o <<End>>
      OBVIOUS
    <3>3. Runs(Append(a, "IF"), <<Else, Call(PostDispatch)>>, Append(a, "ELSE"))
      BY <2>7, ElseCallRuns
    <3>4. Runs(Append(a, "ELSE"), <<End>>, a)
      BY <2>7, RunsInstructions DEF Kinds
    <3> HIDE DEF s5
    <3> QED BY <3>1, <3>2, <3>3, <3>4, RunsThen
  <2>9. Runs(a, s6, b)
    <3>1. Over(b, m + 1, a)
      BY <2>7, OverOver DEF Kinds
    <3>2. Runs(a, Ends(m + 1), b)
      BY <3>1, EndsRun
    <3> QED BY <2>5, <3>2
  <2> HIDE DEF e, s1, s2, s3, s4, s5, s6
  <2> QED BY <1>4, <2>2, <2>3, <2>7, <2>8, <2>9
<1>6. CASE ~post /\ N = 0
  <2>1. codes = <<>>
    <3>1. PICK S : codes \in Seq(S)
      BY DEF IsSequence
    <3> QED BY <1>6, <3>1, EmptySeq
  <2>2. s2 = <<>>
    <3>1. seqs = [i \in 1 .. 0 |-> CodeGroup(notify, codes[i], i > 1)]
      BY <1>6
    <3>2. seqs \in [1 .. 0 -> {}] /\ 0 \in Nat
      BY <3>1
    <3> HIDE DEF seqs
    <3>3. seqs \in Seq({}) /\ Len(seqs) = 0
      BY <3>2
    <3>4. seqs = <<>>
      BY <3>3, EmptySeq
    <3> QED BY <3>3, <3>4 DEF FlattenSeq
  <2>3. s3 = <<>> /\ s5 = <<>>
    BY <1>6, <2>1 DEF When
  <2>4. PICK c : Over(b, Len(wild), c) /\ Runs(b, s4, c)
    BY <1>3, ChainOpens
  <2>5. Runs(c, s6, b)
    BY <1>3, <2>4, EndsRun
  <2> HIDE DEF s1, s2, s3, s4, s5, s6
  <2>6. Runs(b, s2, b) /\ Runs(b, s3, b) /\ Runs(c, s5, c)
    BY <2>2, <2>3, RunsNone
  <2> QED BY <1>4, <2>4, <2>5, <2>6
<1> QED BY <1>5, <1>6

LEMMA DispatcherRuns ==
  ASSUME NEW o, o.pre \in BOOLEAN, o.post \in BOOLEAN, o.dtors \in BOOLEAN,
         IsSequence(HasDispatched(o.actions)),
         \A c : IsSequence(NotifyHandlers(o.notify, c)), IsSequence(NotifyCodes(o.notify)),
         \/ o.post /\ Len(NotifyCodes(o.notify)) = 1 /\ Len(NotifyHandlers(o.notify, ANY)) # 0
         \/ ~o.post /\ Len(NotifyCodes(o.notify)) = 0
  PROVE  Runs(<<"function">>, createDispatchFunction(o), <<>>)
<1> DEFINE s1 == <<Call(Ctors)>>
           s2 == When(o.pre, <<Call(PreDispatch), If("pre_dispatch", "EQ", "true")>>)
           s3 == <<If("receiver", "EQ", "code")>>
           s4 == create_action_dispatch(o.actions, o.post)
           s5 == <<Else>>
           s6 == create_notify_dispatch(o.notify, o.post)
           s7 == <<End>>
           s8 == When(o.dtors, <<Call(Dtors)>>)
           s9 == When(o.pre, <<End>>)
           f == <<"function">>
           e == <<>>
<1>1. createDispatchFunction(o) =
        ((((((((s1 \o s2) \o s3) \o s4) \o s5) \o s6) \o s7) \o s8) \o s9) \o s7
  BY DEF createDispatchFunction
<1>2. e \in Seq(Kinds) /\ f = Append(e, "function")
  OBVIOUS
<1>3. f \in Seq(Kinds) /\ f # <<>>
  <2>1. Append(e, "function") \in Seq(Kinds) /\ Append(e, "function") # <<>>
    <3> HIDE DEF e
    <3> QED BY <1>2, Stacked DEF Kinds
  <2> HIDE DEF e, f
  <2> QED BY <1>2, <2>1
<1>4. Runs(f, s7, e)
  <2> HIDE DEF e, f
  <2> QED BY <1>2, RunsInstructions DEF Kinds
<1> HIDE DEF e, f
<1>5. Runs(f, s1, f)
  BY <1>3, OpsAre, RunsInstructions DEF Kinds
<1>6. PICK b \in Seq(Kinds) : b # <<>> /\ Runs(f, s2, b) /\ Runs(b, s9, f)
  <2>1. CASE o.pre
    <3>1. PICK x : x = Call(PreDispatch) /\ x.op = "CALL"
      BY OpsAre
    <3>2. PICK y : y = If("pre_dispatch", "EQ", "true") /\ y.op = "IF"
      BY OpsAre
    <3>3. s2 = <<x, y>> /\ s9 = <<End>>
      BY <2>1, <3>1, <3>2 DEF When
    <3>4. Runs(f, <<x>>, f) /\ Runs(f, <<y>>, Append(f, "IF")) /\ Runs(Append(f, "IF"), <<End>>, f)
      BY <1>3, <3>1, <3>2, RunsInstructions DEF Kinds
    <3>5. Runs(f, <<x, y>>, Append(f, "IF"))
      BY <3>4, RunsTwo
    <3>6. Append(f, "IF") \in Seq(Kinds) /\ Append(f, "IF") # <<>>
      BY <1>3, Stacked DEF Kinds
    <3> HIDE DEF s2, s9
    <3> QED BY <3>3, <3>4, <3>5, <3>6
  <2>2. CASE ~o.pre
    <3>1. s2 = <<>> /\ s9 = <<>>
      BY <2>2 DEF When
    <3> HIDE DEF s2, s9
    <3> QED BY <1>3, <3>1, RunsNone
  <2> QED BY <2>1, <2>2
<1> DEFINE c == Append(b, "IF")
           d == Append(b, "ELSE")
<1>7. c \in Seq(Kinds) /\ c # <<>> /\ d \in Seq(Kinds) /\ d # <<>>
  BY <1>6, Stacked DEF Kinds
<1>8. Runs(b, s3, c)
  BY <1>6, OpsAre, RunsInstructions DEF Kinds
<1>9. Runs(c, s5, d) /\ Runs(d, s7, b)
  BY <1>6, RunsInstructions DEF Kinds
<1> HIDE DEF c, d
<1>10. Runs(c, s4, c)
  BY <1>7, ActionDispatchRuns
<1>11. Runs(d, s6, d)
  <2>1. PICK notify, post : notify = o.notify /\ post = o.post
    OBVIOUS
  <2>2. post \in BOOLEAN /\ (\A x : IsSequence(NotifyHandlers(notify, x))) /\ IsSequence(NotifyCodes(notify))
    BY <2>1
  <2>3. \/ post /\ Len(NotifyCodes(notify)) = 1 /\ Len(NotifyHandlers(notify, ANY)) # 0
        \/ ~post /\ Len(NotifyCodes(notify)) = 0
    BY <2>1
  <2>4. Runs(d, create_notify_dispatch(notify, post), d)
    BY <1>7, <2>2, <2>3, NotifyDispatchRuns
  <2> QED BY <2>1, <2>4
<1>12. Runs(b, s8, b)
  <2>1. s8 = <<Call(Dtors)>> \/ s8 = <<>>
    BY DEF When
  <2>2. Runs(b, <<Call(Dtors)>>, b) /\ Runs(b, <<>>, b)
    BY <1>6, OpsAre, RunsInstructions, RunsNone DEF Kinds
  <2> HIDE DEF s8
  <2> QED BY <2>1, <2>2
<1> HIDE DEF s1, s2, s3, s4, s5, s6, s7, s8, s9
<1>13. Runs(f, (s1 \o s2) \o s3, c)
  BY <1>5, <1>6, <1>8, RunsThen
<1>14. Runs(f, (((s1 \o s2) \o s3) \o s4) \o s5, d)
  BY <1>9, <1>10, <1>13, RunsThen
<1>15. Runs(f, (((((s1 \o s2) \o s3) \o s4) \o s5) \o s6) \o s7, b)
  BY <1>9, <1>11, <1>14, RunsThen
<1>16. Runs(f, (((((((s1 \o s2) \o s3) \o s4) \o s5) \o s6) \o s7) \o s8) \o s9, f)
  BY <1>6, <1>12, <1>15, RunsThen
<1>17. Runs(f, ((((((((s1 \o s2) \o s3) \o s4) \o s5) \o s6) \o s7) \o s8) \o s9) \o s7, e)
  BY <1>4, <1>16, RunsThen
<1> QED BY <1>1, <1>17 DEF e, f

\* What runs to the end of the function is valid.
ValidateTurn(g, s, i) ==
  IF i = 0 THEN [blocks |-> <<"function">>, legal |-> TRUE] ELSE Validate(g[i - 1], s[i])

LEMMA RunsValidated ==
  ASSUME NEW s, Runs(<<"function">>, s, <<>>) PROVE Validated(s)
<1> DEFINE N == Len(s)
           Body(g) == [i \in 0 .. N |-> ValidateTurn(g, s, i)]
<1>1. N \in Nat
  BY SequenceLen DEF Runs
<1>2. PICK r : Steps(r, <<"function">>, s, <<>>)
  BY DEF Runs
<1>3. /\ r[0] = Legal(<<"function">>) /\ r[N] = Legal(<<>>)
      /\ \A i \in 1 .. N : r[i] = Validate(r[i - 1], s[i])
  BY <1>2 DEF Steps
<1> DEFINE h == [i \in 0 .. N |-> r[i]]
           w == CHOOSE g : g = Body(g)
<1>4. Validated(s) <=> w[N].legal /\ w[N].blocks = <<>>
  BY Zenon DEF Validated, ValidateTurn
<1> HIDE DEF N
<1>5. h = Body(h)
  <2>1. ASSUME NEW i \in 0 .. N PROVE r[i] = ValidateTurn(h, s, i)
    <3>1. CASE i = 0
      BY <1>3, <3>1 DEF ValidateTurn, Legal
    <3>2. CASE i # 0
      <4>1. i \in 1 .. N /\ i - 1 \in 0 .. N
        BY <1>1, <3>2
      <4>2. h[i - 1] = r[i - 1]
        BY <4>1
      <4> HIDE DEF h
      <4> QED BY <1>3, <3>2, <4>1, <4>2 DEF ValidateTurn
    <3> QED BY <3>1, <3>2
  <2> QED BY <2>1
<1>6. w = Body(w)
  <2> HIDE DEF Body, h
  <2> QED BY <1>5, Zenon
<1> HIDE DEF w, h
<1>7. \A i \in 0 .. N : w[i] = ValidateTurn(w, s, i)
  BY <1>6
<1> DEFINE T == {n \in 0 .. N : w[n] = r[n]}
<1>8. 0 \in T
  BY <1>1, <1>3, <1>7 DEF ValidateTurn, Legal
<1>9. ASSUME NEW n \in 1 .. N, n - 1 \in T PROVE n \in T
  <2>1. n \in 0 .. N /\ n # 0
    BY <1>1
  <2>2. w[n] = Validate(w[n - 1], s[n])
    BY <1>7, <2>1 DEF ValidateTurn
  <2>3. w[n - 1] = r[n - 1]
    BY <1>9
  <2> QED BY <1>3, <2>1, <2>2, <2>3
<1>10. N \in T
  <2> HIDE DEF T
  <2>1. \A n \in 0 .. N : n \in T
    BY <1>1, <1>8, <1>9, UptoInduction
  <2> QED BY <1>1, <2>1
<1>11. w[N] = Legal(<<>>)
  BY <1>3, <1>10
<1> QED BY <1>4, <1>11 DEF Legal

-----------------------------------------------------------------------------
(***************************************************************************)
(* The stubs and the accounts that the linker goes through.                *)
(***************************************************************************)
Distinct(s) == \A i, j \in 1 .. Len(s) : s[i] = s[j] => i = j

LEMMA InSequence ==
  ASSUME NEW s, IsSequence(s)
  PROVE  /\ Len(s) \in Nat /\ DOMAIN s = 1 .. Len(s)
         /\ \A x : x \in ToSet(s) <=> \E i \in 1 .. Len(s) : s[i] = x
<1>1. PICK S : s \in Seq(S)
  BY DEF IsSequence
<1> QED BY <1>1, ToSetIs

LEMMA EmptyIs == IsSequence(<<>>) /\ ToSet(<<>>) = {} /\ Distinct(<<>>)
<1> DEFINE e == <<>>
<1>1. e \in Seq({}) /\ Len(e) = 0
  OBVIOUS
<1> HIDE DEF e
<1>2. IsSequence(e)
  BY <1>1 DEF IsSequence
<1>3. 1 .. 0 = {}
  OBVIOUS
<1>4. ToSet(e) = {}
  BY <1>1, <1>2, <1>3, InSequence
<1>5. Distinct(e)
  BY <1>1, <1>3 DEF Distinct
<1> QED BY <1>2, <1>4, <1>5 DEF e

LEMMA AppendDistinct ==
  ASSUME NEW s, IsSequence(s), Distinct(s), NEW x, x \notin ToSet(s)
  PROVE  Distinct(Append(s, x))
<1>1. PICK S : s \in Seq(S)
  BY DEF IsSequence
<1> DEFINE V == S \cup {x}
           t == Append(s, x)
           n == Len(s)
<1>2. s \in Seq(V) /\ x \in V
  BY <1>1
<1> HIDE DEF V
<1>3. /\ t \in Seq(V) /\ Len(t) = n + 1
      /\ \A i \in 1 .. n : t[i] = s[i]
      /\ t[n + 1] = x
  BY <1>2, AppendProperties
<1>4. n \in Nat /\ (\A i \in 1 .. n : s[i] # x) /\ \A i, j \in 1 .. n : s[i] = s[j] => i = j
  BY <1>2, ToSetIs DEF Distinct
<1> HIDE DEF t, n
<1>5. ASSUME NEW i \in 1 .. n + 1, NEW j \in 1 .. n + 1, t[i] = t[j] PROVE i = j
  <2>1. (i \in 1 .. n \/ i = n + 1) /\ (j \in 1 .. n \/ j = n + 1)
    BY <1>4
  <2> QED BY <1>3, <1>4, <1>5, <2>1
<1>6. Distinct(t)
  BY <1>3, <1>5 DEF Distinct
<1> QED BY <1>6 DEF t

LEMMA HowMany ==
  ASSUME NEW s, IsSequence(s), Distinct(s)
  PROVE  /\ ToSet(s) = {} => Len(s) = 0
         /\ \A x : ToSet(s) = {x} => Len(s) = 1
         /\ ToSet(s) # {} => Len(s) # 0
<1> DEFINE n == Len(s)
<1>1. n \in Nat /\ \A x : x \in ToSet(s) <=> \E i \in 1 .. n : s[i] = x
  BY InSequence
<1>2. \A i, j \in 1 .. n : s[i] = s[j] => i = j
  BY DEF Distinct
<1> HIDE DEF n
<1>3. ASSUME ToSet(s) = {} PROVE n = 0
  <2> SUFFICES ASSUME n # 0 PROVE FALSE
    OBVIOUS
  <2>1. 1 \in 1 .. n
    BY <1>1
  <2> QED BY <1>1, <1>3, <2>1
<1>4. ASSUME NEW x, ToSet(s) = {x} PROVE n = 1
  <2>1. PICK i \in 1 .. n : s[i] = x
    BY <1>1, <1>4
  <2>2. \A j \in 1 .. n : s[j] = x
    BY <1>1, <1>4
  <2>3. 1 \in 1 .. n /\ n \in 1 .. n
    BY <1>1
  <2> QED BY <1>2, <2>2, <2>3
<1>5. ASSUME ToSet(s) # {} PROVE n # 0
  <2>1. PICK i \in 1 .. n : TRUE
    BY <1>1, <1>5
  <2> QED BY <2>1
<1> QED BY <1>3, <1>4, <1>5 DEF n

DispatchedTurn(g, s, i) == IF i = 0 THEN <<>> ELSE InsertOnce(g[i - 1], s[i])

\* has_dispatched has the stubs that were put into it.
LEMMA HasDispatchedIs ==
  ASSUME NEW s, IsSequence(s)
  PROVE  IsSequence(HasDispatched(s)) /\ ToSet(HasDispatched(s)) = ToSet(s)
<1> DEFINE N == Len(s)
           V == ToSet(s)
           R == Seq(V)
           F == [i \in 1 .. N |-> [r \in R |-> InsertOnce(r, s[i])]]
           Body(g) == [i \in 0 .. N |-> DispatchedTurn(g, s, i)]
<1>0. N \in Nat /\ \A x : x \in V <=> \E i \in 1 .. N : s[i] = x
  BY InSequence
<1>1. <<>> \in R /\ \A i \in 1 .. N : s[i] \in V
  BY <1>0
<1>2. F \in [1 .. N -> [R -> R]]
  <2> HIDE DEF V, N
  <2>1. ASSUME NEW i \in 1 .. N, NEW r \in R PROVE InsertOnce(r, s[i]) \in R
    BY <1>1, AppendProperties DEF InsertOnce
  <2> HIDE DEF R
  <2> QED BY <2>1
<1>3. PICK f : f \in [0 .. N -> R] /\ f[0] = <<>> /\ \A i \in 1 .. N : f[i] = F[i][f[i - 1]]
  <2> DEFINE e == <<>>
  <2>1. e \in R
    BY <1>1
  <2> HIDE DEF F, R, N, e
  <2>2. \E f : IsLoop(f, N, R, e, F)
    BY <1>0, <1>2, <2>1, LoopExists
  <2> QED BY <2>2 DEF IsLoop, e
<1> HIDE DEF V
<1>4. ASSUME NEW i \in 0 .. N PROVE f[i] = DispatchedTurn(f, s, i)
  <2> HIDE DEF N
  <2>1. CASE i = 0
    BY <1>3, <2>1 DEF DispatchedTurn
  <2>2. CASE i # 0
    <3>1. i \in 1 .. N /\ i - 1 \in 0 .. N
      BY <1>0, <2>2
    <3>2. f[i - 1] \in R
      <4> HIDE DEF R, F
      <4> QED BY <1>3, <3>1
    <3>3. F[i][f[i - 1]] = InsertOnce(f[i - 1], s[i])
      <4> HIDE DEF R
      <4> QED BY <3>1, <3>2
    <3> HIDE DEF F
    <3> QED BY <1>3, <2>2, <3>1, <3>3 DEF DispatchedTurn
  <2> QED BY <2>1, <2>2
<1>5. f = Body(f)
  <2> HIDE DEF N, R, F
  <2> QED BY <1>3, <1>4
<1> DEFINE w == CHOOSE g : g = Body(g)
<1>6. HasDispatched(s) = w[N]
  BY Zenon DEF HasDispatched, DispatchedTurn
<1>7. w = Body(w)
  <2> HIDE DEF Body
  <2> QED BY <1>5, Zenon
<1> HIDE DEF w, N
<1>8. \A i \in 0 .. N : w[i] = DispatchedTurn(w, s, i)
  BY <1>7
<1> DEFINE Kept(n) == /\ IsSequence(w[n])
                      /\ \A x : x \in ToSet(w[n]) <=> \E i \in 1 .. n : s[i] = x
           T == {n \in 0 .. N : Kept(n)}
<1>9. 0 \in T
  <2>1. w[0] = <<>>
    BY <1>0, <1>8 DEF DispatchedTurn
  <2>2. 1 .. 0 = {} /\ 0 \in 0 .. N
    BY <1>0
  <2> QED BY <2>1, <2>2, EmptyIs
<1>10. ASSUME NEW n \in 1 .. N, n - 1 \in T PROVE n \in T
  <2>0. Kept(n - 1) /\ n \in 0 .. N /\ n # 0
    BY <1>0, <1>10
  <2>1. PICK u : u = w[n - 1]
    OBVIOUS
  <2>2. w[n] = InsertOnce(u, s[n])
    BY <1>8, <2>0, <2>1 DEF DispatchedTurn
  <2>3. IsSequence(u) /\ \A x : x \in ToSet(u) <=> \E i \in 1 .. n - 1 : s[i] = x
    BY <2>0, <2>1
  <2>4. \A x : (\E i \in 1 .. n : s[i] = x) <=> (\E i \in 1 .. n - 1 : s[i] = x) \/ x = s[n]
    OBVIOUS
  <2>5. IsSequence(w[n]) /\ ToSet(w[n]) = ToSet(u) \cup {s[n]}
    <3>1. CASE s[n] \in ToSet(u)
      BY <2>2, <2>3, <3>1 DEF InsertOnce
    <3>2. CASE s[n] \notin ToSet(u)
      BY <2>2, <2>3, <3>2, AppendHas DEF InsertOnce
    <3> QED BY <3>1, <3>2
  <2>6. Kept(n)
    BY <2>3, <2>4, <2>5
  <2> QED BY <2>0, <2>6
<1>11. N \in T
  <2> HIDE DEF T
  <2>1. \A n \in 0 .. N : n \in T
    BY <1>0, <1>9, <1>10, UptoInduction
  <2> QED BY <1>0, <2>1
<1>12. IsSequence(w[N]) /\ ToSet(w[N]) = V
  BY <1>0, <1>11
<1> QED BY <1>6, <1>12 DEF V

KeptTurn(g, s, S, i) ==
  IF i = 0 THEN <<>> ELSE IF s[i] \in S THEN Append(g[i - 1], s[i]) ELSE g[i - 1]

LEMMA KeepIs ==
  ASSUME NEW s, IsSequence(s), NEW S
  PROVE  /\ IsSequence(Keep(s, S)) /\ ToSet(Keep(s, S)) = ToSet(s) \cap S
         /\ Distinct(s) => Distinct(Keep(s, S))
<1> DEFINE N == Len(s)
           V == ToSet(s)
           R == Seq(V)
           F == [i \in 1 .. N |-> [r \in R |-> IF s[i] \in S THEN Append(r, s[i]) ELSE r]]
           Body(g) == [i \in 0 .. N |-> KeptTurn(g, s, S, i)]
<1>0. N \in Nat /\ \A x : x \in V <=> \E i \in 1 .. N : s[i] = x
  BY InSequence
<1>1. <<>> \in R /\ \A i \in 1 .. N : s[i] \in V
  BY <1>0
<1>2. F \in [1 .. N -> [R -> R]]
  <2> HIDE DEF V, N
  <2>1. ASSUME NEW i \in 1 .. N, NEW r \in R PROVE (IF s[i] \in S THEN Append(r, s[i]) ELSE r) \in R
    BY <1>1, AppendProperties
  <2> HIDE DEF R
  <2> QED BY <2>1
<1>3. PICK f : f \in [0 .. N -> R] /\ f[0] = <<>> /\ \A i \in 1 .. N : f[i] = F[i][f[i - 1]]
  <2> DEFINE e == <<>>
  <2>1. e \in R
    BY <1>1
  <2> HIDE DEF F, R, N, e
  <2>2. \E f : IsLoop(f, N, R, e, F)
    BY <1>0, <1>2, <2>1, LoopExists
  <2> QED BY <2>2 DEF IsLoop, e
<1> HIDE DEF V
<1>4. ASSUME NEW i \in 0 .. N PROVE f[i] = KeptTurn(f, s, S, i)
  <2> HIDE DEF N
  <2>1. CASE i = 0
    BY <1>3, <2>1 DEF KeptTurn
  <2>2. CASE i # 0
    <3>1. i \in 1 .. N /\ i - 1 \in 0 .. N
      BY <1>0, <2>2
    <3>2. f[i - 1] \in R
      <4> HIDE DEF R, F
      <4> QED BY <1>3, <3>1
    <3>3. F[i][f[i - 1]] = IF s[i] \in S THEN Append(f[i - 1], s[i]) ELSE f[i - 1]
      <4> HIDE DEF R
      <4> QED BY <3>1, <3>2
    <3> HIDE DEF F
    <3> QED BY <1>3, <2>2, <3>1, <3>3 DEF KeptTurn
  <2> QED BY <2>1, <2>2
<1>5. f = Body(f)
  <2> HIDE DEF N, R, F
  <2> QED BY <1>3, <1>4
<1> DEFINE w == CHOOSE g : g = Body(g)
<1>6. Keep(s, S) = w[N]
  BY Zenon DEF Keep, KeptTurn
<1>7. w = Body(w)
  <2> HIDE DEF Body
  <2> QED BY <1>5, Zenon
<1> HIDE DEF w, N
<1>8. \A i \in 0 .. N : w[i] = KeptTurn(w, s, S, i)
  BY <1>7
<1> DEFINE Kept(n) == /\ IsSequence(w[n])
                      /\ \A x : x \in ToSet(w[n]) <=> x \in S /\ \E i \in 1 .. n : s[i] = x
                      /\ Distinct(s) => Distinct(w[n])
           T == {n \in 0 .. N : Kept(n)}
<1>9. 0 \in T
  <2>1. w[0] = <<>>
    BY <1>0, <1>8 DEF KeptTurn
  <2>2. 1 .. 0 = {} /\ 0 \in 0 .. N
    BY <1>0
  <2> QED BY <2>1, <2>2, EmptyIs
<1>10. ASSUME NEW n \in 1 .. N, n - 1 \in T PROVE n \in T
  <2>0. Kept(n - 1) /\ n \in 0 .. N /\ n # 0
    BY <1>0, <1>10
  <2>1. PICK u : u = w[n - 1]
    OBVIOUS
  <2>2. w[n] = IF s[n] \in S THEN Append(u, s[n]) ELSE u
    BY <1>8, <2>0, <2>1 DEF KeptTurn
  <2>3. /\ IsSequence(u) /\ (Distinct(s) => Distinct(u))
        /\ \A x : x \in ToSet(u) <=> x \in S /\ \E i \in 1 .. n - 1 : s[i] = x
    BY <2>0, <2>1
  <2>4. \A x : (\E i \in 1 .. n : s[i] = x) <=> (\E i \in 1 .. n - 1 : s[i] = x) \/ x = s[n]
    OBVIOUS
  <2>5. CASE s[n] \notin S
    <3>1. w[n] = u
      BY <2>2, <2>5
    <3>2. Kept(n)
      BY <2>3, <2>4, <2>5, <3>1
    <3> QED BY <2>0, <3>2
  <2>6. CASE s[n] \in S
    <3>1. IsSequence(w[n]) /\ ToSet(w[n]) = ToSet(u) \cup {s[n]}
      BY <2>2, <2>3, <2>6, AppendHas
    <3>2. ASSUME Distinct(s) PROVE Distinct(w[n])
      <4>1. \A i \in 1 .. n - 1 : s[i] # s[n]
        <5>1. \A i \in 1 .. n - 1 : i \in 1 .. N /\ i # n
          BY <1>0
        <5> QED BY <3>2, <5>1 DEF Distinct, N
      <4>2. s[n] \notin ToSet(u)
        BY <2>3, <4>1
      <4> QED BY <2>2, <2>3, <2>6, <3>2, <4>2, AppendDistinct
    <3>3. Kept(n)
      BY <2>3, <2>4, <2>6, <3>1, <3>2
    <3> QED BY <2>0, <3>3
  <2> QED BY <2>5, <2>6
<1>11. N \in T
  <2> HIDE DEF T
  <2>1. \A n \in 0 .. N : n \in T
    BY <1>0, <1>9, <1>10, UptoInduction
  <2> QED BY <1>0, <2>1
<1>12. IsSequence(w[N]) /\ ToSet(w[N]) = V \cap S /\ (Distinct(s) => Distinct(w[N]))
  BY <1>0, <1>11
<1> QED BY <1>6, <1>12 DEF V

-----------------------------------------------------------------------------
(***************************************************************************)
(* The notification handlers: the stubs are those of the contract's own    *)
(* handlers, and each of these has one.                                    *)
(***************************************************************************)
OwnNotify(i) == {m \in ToSet(prog.sources[i].methods) : m.own /\ m.kind = "notify"}
OfHandler(x) == \E m \in Handlers("notify") : x = StubOf(m)
Notified(m) == \E i \in DOMAIN objs : StubOf(m) \in ToSet(objs[i].stubs.notify)
Hooked(m) == StubOf(m) \in ToSet(stubs.notify) \/ Notified(m)

\* What codegen knows of the handlers comes from methods that have their stub.
KnownHandlers ==
  \A name \in cg.notify : \E m \in Methods :
    /\ m.kind = "notify" /\ name \in {NamesOf(m).method, NamesOf(m).name}
    /\ m.own => Hooked(m)

NotifyShapes ==
  /\ IsABI(ag)
  /\ IsSequence(stubs.notify) /\ \A x \in ToSet(stubs.notify) : OfHandler(x)
  /\ \A i \in DOMAIN objs : /\ IsSequence(objs[i].stubs.notify)
                            /\ \A x \in ToSet(objs[i].stubs.notify) : OfHandler(x)

Cursor ==
  /\ phase = "codegen" => decl \in 0 .. Len(Source.methods)
  /\ phase = "abigen" => decl = 0 /\ stubs = NoStubs

HandlersDone == \A i \in 1 .. src - 1 : \A m \in OwnNotify(i) : Notified(m)

HandlersAtHand ==
  phase = "codegen" =>
    \A j \in 1 .. decl : Source.methods[j] \in OwnNotify(src) => Hooked(Source.methods[j])

NInv ==
  phase \in Going =>
    /\ NotifyShapes /\ Cursor
    /\ Plain => KnownHandlers /\ HandlersDone /\ HandlersAtHand

LEMMA MethodKinds ==
  ASSUME prog \in Programs, NEW m \in Methods
  PROVE  m.kind \in {"action", "notify"} /\ (m.kind = "notify" => m.code \in ToSet(CodeOrder))
<1>1. PICK i \in DOMAIN prog.sources : m \in ToSet(prog.sources[i].methods)
  BY DEF Methods
<1>2. prog.sources[i] \in ToSet(prog.sources)
  BY DEF ToSet
<1>3. m.kind = "action" \/ (m.kind = "notify" /\ m.code \in ToSet(CodeOrder))
  BY <1>1, <1>2, ProgramsAssumption
<1> QED BY <1>3

LEMMA SameHandlers ==
  ASSUME prog' = prog
  PROVE  /\ Methods' = Methods /\ Handlers("notify")' = Handlers("notify")
         /\ Plain' <=> Plain
         /\ \A i : OwnNotify(i)' = OwnNotify(i)
         /\ \A x : OfHandler(x)' <=> OfHandler(x)
<1>1. Methods' = Methods /\ (Plain' <=> Plain)
  BY SameProgram
<1>2. Handlers("notify")' = Handlers("notify")
  BY <1>1 DEF Handlers
<1>3. \A i : OwnNotify(i)' = OwnNotify(i)
  BY DEF OwnNotify
<1>4. \A x : OfHandler(x)' <=> OfHandler(x)
  BY <1>2 DEF OfHandler, StubOf
<1> QED BY <1>1, <1>2, <1>3, <1>4

LEMMA MatchFinds ==
  ASSUME NEW m, NEW a, IsABI(a)
  PROVE  /\ IsABI(MatchMethod(a, m))
         /\ (a["actions"] # {} \/ (m.kind = "action" /\ m.own)) => MatchMethod(a, m)["actions"] # {}
<1>1. CASE ~(m.kind = "action" /\ m.own)
  BY <1>1 DEF MatchMethod
<1>2. CASE m.kind = "action" /\ m.own
  <2> DEFINE A == Insert(a["actions"], ActionOf(m))
             S == Insert(a["structs"], StructOf(m))
             b == [a EXCEPT !["structs"] = S, !["actions"] = A]
  <2>1. MatchMethod(a, m) = b
    BY <1>2 DEF MatchMethod
  <2>2. A # {}
    BY DEF Insert
  <2> HIDE DEF A, S
  <2>3. a = [s \in Sections |-> a[s]]
    BY DEF IsABI
  <2>4. b = [s \in Sections |-> b[s]] /\ b["actions"] = A
    BY <2>3, SectionsAre
  <2> HIDE DEF b
  <2>5. IsABI(b)
    BY <2>4 DEF IsABI
  <2> QED BY <2>1, <2>2, <2>4, <2>5
<1> QED BY <1>1, <1>2

LEMMA OtherFinds ==
  ASSUME NEW o, o.section \in Sections \ {"actions"}, NEW a, IsABI(a)
  PROVE  IsABI(AddOther(a, o)) /\ AddOther(a, o)["actions"] = a["actions"]
<1> DEFINE t == o.section
           U == IF t = "ricardian_clauses" THEN a[t] \cup {o.object} ELSE Insert(a[t], o.object)
           b == [a EXCEPT ![t] = U]
<1>1. AddOther(a, o) = b
  BY DEF AddOther
<1> HIDE DEF U
<1>2. a = [s \in Sections |-> a[s]] /\ t \in Sections /\ t # "actions"
  BY DEF IsABI
<1> HIDE DEF t
<1>3. b = [s \in Sections |-> b[s]] /\ b["actions"] = a["actions"]
  BY <1>2, SectionsAre
<1> HIDE DEF b
<1>4. IsABI(b)
  BY <1>3 DEF IsABI
<1> QED BY <1>1, <1>3, <1>4

\* A source with an action has an ABI, so codegen is run on it.
LEMMA AbigenFinds ==
  ASSUME prog \in Programs, src \in 1 .. Len(prog.sources), NEW a, IsABI(a)
  PROVE  /\ IsABI(AbigenOf(a))
         /\ OwnActions(src) # {} => AbigenOf(a)["actions"] # {}
<1> DEFINE ms == Source.methods
           os == Source.other
           n == Len(ms)
           N == n + Len(os)
           Turn(i, r) == IF i <= n THEN MatchMethod(r, ms[i]) ELSE AddOther(r, os[i - n])
<1>0. /\ n \in Nat /\ DOMAIN ms = 1 .. n /\ Len(os) \in Nat /\ DOMAIN os = 1 .. Len(os)
      /\ \A i \in DOMAIN os : os[i].section \in Sections \ {"actions"}
  BY SourceIs
<1>1. OwnActions(src) = {m \in {ms[i] : i \in DOMAIN ms} : m.own /\ m.kind = "action"}
  BY DEF OwnActions, ToSet, Source
<1>2. N \in Nat /\ \A j \in 1 .. n : j <= N
  <2> DEFINE k == Len(os)
  <2> HIDE DEF n, k
  <2> QED BY <1>0 DEF k
<1>3. \A i \in 1 .. N : ~(i <= n) => i - n \in DOMAIN os
  <2> DEFINE k == Len(os)
  <2> HIDE DEF n, k
  <2>1. \A i \in 1 .. N : ~(i <= n) => i - n \in 1 .. k
    BY <1>0 DEF k
  <2> QED BY <1>0, <2>1 DEF k
<1>4. PICK w : AbigenRun(w, a)
  BY AbigenIs
<1>5. AbigenOf(a) = w[N] /\ \A i \in 0 .. N : w[i] = AbigenTurn(w, a, i)
  BY <1>4 DEF AbigenRun
<1> DEFINE Own(j) == ms[j].own /\ ms[j].kind = "action"
           Kept(k) == /\ IsABI(w[k])
                      /\ (\E j \in 1 .. n : j <= k /\ Own(j)) => w[k]["actions"] # {}
           T == {k \in 0 .. N : Kept(k)}
<1>6. 0 \in T
  <2>1. 0 \in 0 .. N /\ w[0] = a
    <3>1. 0 \in 0 .. N
      <4> HIDE DEF N
      <4> QED BY <1>2
    <3>2. w[0] = AbigenTurn(w, a, 0)
      BY <1>5, <3>1
    <3> QED BY <3>1, <3>2 DEF AbigenTurn
  <2> HIDE DEF N, Own
  <2>2. \A j \in 1 .. n : ~(j <= 0)
    BY <1>0
  <2>3. Kept(0)
    BY <2>1, <2>2
  <2> QED BY <2>1, <2>3
<1>7. ASSUME NEW k \in 1 .. N, k - 1 \in T PROVE k \in T
  <2>0. Kept(k - 1) /\ k \in 0 .. N /\ k # 0 /\ k \in Nat
    <3>1. k \in 0 .. N /\ k # 0 /\ k \in Nat
      <4> HIDE DEF N
      <4> QED BY <1>2
    <3>2. Kept(k - 1)
      BY <1>7
    <3> QED BY <3>1, <3>2
  <2> DEFINE u == w[k - 1]
  <2>1. w[k] = Turn(k, u)
    <3>1. w[k] = AbigenTurn(w, a, k)
      BY <1>5, <2>0
    <3> QED BY <2>0, <3>1, Zenon DEF AbigenTurn
  <2>2. IsABI(u)
    BY <2>0
  <2>3. (\E j \in 1 .. n : j <= k - 1 /\ Own(j)) => u["actions"] # {}
    BY <2>0
  <2> HIDE DEF u
  <2>4. CASE k <= n
    <3>1. w[k] = MatchMethod(u, ms[k])
      BY <2>1, <2>4
    <3>2. IsABI(w[k]) /\ ((u["actions"] # {} \/ Own(k)) => w[k]["actions"] # {})
      BY <2>2, <3>1, MatchFinds
    <3> HIDE DEF Own
    <3>3. \A j \in 1 .. n : j <= k => j = k \/ j <= k - 1
      BY <1>0, <2>0
    <3>4. ASSUME NEW j \in 1 .. n, j <= k, Own(j) PROVE w[k]["actions"] # {}
      <4>1. CASE j = k
        BY <3>2, <3>4, <4>1
      <4>2. CASE j <= k - 1
        BY <2>3, <3>2, <3>4, <4>2
      <4> QED BY <3>3, <3>4, <4>1, <4>2
    <3>5. Kept(k)
      BY <3>2, <3>4
    <3> QED BY <2>0, <3>5
  <2>5. CASE ~(k <= n)
    <3> DEFINE o == os[k - n]
    <3>1. w[k] = AddOther(u, o) /\ k - n \in DOMAIN os
      BY <1>3, <2>1, <2>5
    <3>2. o.section \in Sections \ {"actions"}
      BY <1>0, <3>1
    <3> HIDE DEF o, Own
    <3>3. IsABI(w[k]) /\ w[k]["actions"] = u["actions"]
      BY <2>2, <3>1, <3>2, OtherFinds
    <3>4. \A j \in 1 .. n : j <= k - 1
      BY <1>0, <2>0, <2>5
    <3>5. Kept(k)
      BY <2>3, <3>3, <3>4
    <3> QED BY <2>0, <3>5
  <2> QED BY <2>4, <2>5
<1>8. N \in T
  <2> HIDE DEF T, N
  <2>1. \A k \in 0 .. N : k \in T
    BY <1>2, <1>6, <1>7, UptoInduction
  <2> QED BY <1>2, <2>1
<1>9. Kept(N)
  BY <1>8
<1>10. OwnActions(src) # {} => w[N]["actions"] # {}
  <2> HIDE DEF N, n
  <2> QED BY <1>0, <1>1, <1>2, <1>9
<1> HIDE DEF N
<1> QED BY <1>5, <1>9, <1>10


\* The end of a source, with or without code generated for it.
LEMMA NextSourceNotify ==
  ASSUME Shapes, src <= Len(prog.sources), UNCHANGED prog, NEW obj, NextSource(obj),
         NotifyShapes, IsABI(ag'), IsSequence(obj.stubs.notify),
         \A x \in ToSet(obj.stubs.notify) : OfHandler(x),
         cg'.notify \subseteq cg.notify,
         Plain =>
           /\ KnownHandlers /\ HandlersDone
           /\ ToSet(stubs.notify) \subseteq ToSet(obj.stubs.notify)
           /\ \A m \in OwnNotify(src) :
                StubOf(m) \in ToSet(obj.stubs.notify) \/ Notified(m)
  PROVE  NInv'
<1> DEFINE L == Len(prog.sources)
<1>0. L \in Nat
  <2>1. prog.sources \in Seq(ToSet(prog.sources))
    BY ProgramsAssumption DEF Shapes
  <2> QED BY <2>1, LenProperties
<1>1. /\ objs' = <<obj>> \o objs /\ src' = src + 1 /\ stubs' = NoStubs /\ decl' = 0
      /\ phase' \in {"link", "abigen"}
  BY DEF NextSource
<1>2. /\ \A i \in DOMAIN objs' : objs'[i] = obj \/ \E j \in DOMAIN objs : objs'[i] = objs[j]
      /\ \A j \in DOMAIN objs : \E i \in DOMAIN objs' : objs'[i] = objs[j]
      /\ \E i \in DOMAIN objs' : objs'[i] = obj
  BY <1>1, NextObjects DEF Shapes
<1>3. \A i \in 1 .. src' - 1 : i = src \/ i \in 1 .. src - 1
  <2>1. src \in 1 .. L + 1 /\ src <= L
    BY DEF Shapes
  <2> HIDE DEF L
  <2> QED BY <1>0, <1>1, <2>1
<1>4. NotifyShapes'
  <2>1. stubs'.notify = <<>>
    BY <1>1 DEF NoStubs
  <2>2. IsSequence(stubs.notify)' /\ \A x \in ToSet(stubs.notify)' : OfHandler(x)'
    BY <2>1, EmptyIs DEF IsSequence, ToSet
  <2>3. ASSUME NEW i \in DOMAIN objs'
        PROVE  IsSequence(objs'[i].stubs.notify) /\ \A x \in ToSet(objs'[i].stubs.notify) : OfHandler(x)
    BY <1>2 DEF NotifyShapes
  <2>4. ASSUME NEW i \in DOMAIN objs'
        PROVE  IsSequence(objs[i].stubs.notify)' /\ \A x \in ToSet(objs[i].stubs.notify)' : OfHandler(x)'
    <3>1. IsSequence(objs[i].stubs.notify)'
      BY <2>3 DEF IsSequence
    <3>2. \A x \in ToSet(objs[i].stubs.notify)' : OfHandler(x)'
      BY <2>3, SameHandlers DEF ToSet
    <3> QED BY <3>1, <3>2
  <2>5. IsABI(ag)'
    BY DEF IsABI
  <2> QED BY <2>2, <2>4, <2>5 DEF NotifyShapes
<1>5. Cursor'
  BY <1>1 DEF Cursor
<1>6. ASSUME Plain PROVE KnownHandlers' /\ HandlersDone' /\ HandlersAtHand'
  <2>1. /\ KnownHandlers /\ HandlersDone
        /\ ToSet(stubs.notify) \subseteq ToSet(obj.stubs.notify)
        /\ \A m \in OwnNotify(src) : StubOf(m) \in ToSet(obj.stubs.notify) \/ Notified(m)
    BY <1>6
  <2>2. \A m : (Notified(m) \/ StubOf(m) \in ToSet(obj.stubs.notify)) => Notified(m)'
    BY <1>2 DEF Notified, StubOf
  <2>3. \A m : Hooked(m) => Hooked(m)'
    BY <2>1, <2>2 DEF Hooked
  <2>4. KnownHandlers'
    <3>1. ASSUME NEW name \in cg'.notify
          PROVE  \E m \in Methods : /\ m.kind = "notify"
                                    /\ name \in {NamesOf(m).method, NamesOf(m).name}
                                    /\ m.own => Hooked(m)'
      BY <2>1, <2>3 DEF KnownHandlers
    <3> QED BY <3>1, SameHandlers DEF KnownHandlers, NamesOf
  <2>5. HandlersDone'
    <3>1. ASSUME NEW i \in 1 .. src' - 1, NEW m \in OwnNotify(i) PROVE Notified(m)'
      <4>1. CASE i = src
        BY <2>1, <2>2, <4>1
      <4>2. CASE i \in 1 .. src - 1
        <5>1. Notified(m)
          BY <2>1, <4>2 DEF HandlersDone
        <5> QED BY <2>2, <5>1
      <4> QED BY <1>3, <4>1, <4>2
    <3>2. ASSUME NEW i \in 1 .. src' - 1, NEW m \in OwnNotify(i)' PROVE Notified(m)'
      BY <3>1, SameHandlers
    <3> QED BY <3>2 DEF HandlersDone
  <2>6. HandlersAtHand'
    BY <1>1 DEF HandlersAtHand
  <2> QED BY <2>4, <2>5, <2>6
<1>7. Plain' => Plain
  BY SameHandlers
<1> QED BY <1>4, <1>5, <1>6, <1>7 DEF NInv

LEMMA SourceAt ==
  ASSUME AInv, phase \in {"abigen", "codegen"}
  PROVE  Shapes /\ src <= Len(prog.sources) /\ prog \in Programs /\ src \in 1 .. Len(prog.sources)
<1>1. Shapes /\ src <= Len(prog.sources)
  BY DEF AInv, Going
<1>2. prog.sources \in Seq(ToSet(prog.sources)) /\ prog \in Programs /\ src \in 1 .. Len(prog.sources) + 1
  BY <1>1, ProgramsAssumption DEF Shapes
<1>3. Len(prog.sources) \in Nat
  BY <1>2, LenProperties
<1> QED BY <1>1, <1>2, <1>3

LEMMA AbigenNotifies ==
  ASSUME AInv, NInv, Abigen PROVE NInv'
<1>1. phase = "abigen" /\ UNCHANGED prog
  BY DEF Abigen
<1>2. Shapes /\ src <= Len(prog.sources) /\ prog \in Programs /\ src \in 1 .. Len(prog.sources)
  BY <1>1, SourceAt
<1>3. NotifyShapes /\ Cursor /\ (Plain => KnownHandlers /\ HandlersDone)
  BY <1>1 DEF NInv, Going
<1> DEFINE a == IF prog.separate THEN EmptyABI ELSE ag
<1>4. ag' = AbigenOf(a) /\ (cg' = cg \/ cg' = NoNames)
  BY DEF Abigen
<1>5. IsABI(ag') /\ (OwnActions(src) # {} => ag'["actions"] # {})
  <2>1. IsABI(EmptyABI)
    BY DEF IsABI, EmptyABI
  <2>2. IsABI(a)
    BY <1>3, <2>1 DEF NotifyShapes
  <2> HIDE DEF a
  <2> QED BY <1>2, <1>4, <2>2, AbigenFinds
<1>6. cg'.notify \subseteq cg.notify
  BY <1>4 DEF NoNames
<1>7. stubs = NoStubs /\ decl = 0
  BY <1>1, <1>3 DEF Cursor
<1>8. CASE ag' = EmptyABI
  <2> DEFINE obj == [abi |-> EmptyABI, stubs |-> NoStubs, generated |-> FALSE]
  <2>1. NextSource(obj)
    BY <1>8 DEF Abigen
  <2>2. obj.stubs = NoStubs /\ NoStubs.notify = <<>>
    BY DEF NoStubs
  <2> HIDE DEF obj
  <2>3. IsSequence(obj.stubs.notify) /\ \A x \in ToSet(obj.stubs.notify) : OfHandler(x)
    BY <2>2, EmptyIs
  <2>4. ASSUME Plain
        PROVE  /\ KnownHandlers /\ HandlersDone
               /\ ToSet(stubs.notify) \subseteq ToSet(obj.stubs.notify)
               /\ \A m \in OwnNotify(src) :
                    StubOf(m) \in ToSet(obj.stubs.notify) \/ Notified(m)
    <3>1. EmptyABI["actions"] = {}
      BY SectionsAre DEF EmptyABI
    <3>2. OwnActions(src) = {}
      BY <1>5, <1>8, <3>1
    <3>3. \A m : m \notin OwnNotify(src)
      <4> SUFFICES ASSUME NEW m \in OwnNotify(src) PROVE FALSE
        OBVIOUS
      <4>1. src \in DOMAIN prog.sources
        BY <1>2, SourceIs
      <4> DEFINE own == {x \in ToSet(prog.sources[src].methods) : x.own}
      <4>2. own # {} => \E x \in own : x.kind = "action"
        BY <2>4, <4>1 DEF Plain
      <4>3. m \in own
        BY DEF OwnNotify
      <4>4. PICK x \in own : x.kind = "action"
        BY <4>2, <4>3
      <4>5. x \in OwnActions(src)
        BY <4>4 DEF OwnActions
      <4> QED BY <3>2, <4>5
    <3> QED BY <1>3, <1>7, <2>2, <2>4, <3>3
  <2> QED BY <1>1, <1>2, <1>3, <1>5, <1>6, <2>1, <2>3, <2>4, NextSourceNotify
<1>9. CASE ag' # EmptyABI
  <2>1. phase' = "codegen" /\ UNCHANGED <<prog, src, decl, stubs, objs>>
    BY <1>1, <1>9 DEF Abigen
  <2>2. NotifyShapes'
    <3>1. IsABI(ag)'
      BY <1>5 DEF IsABI
    <3>2. IsSequence(stubs.notify)' /\ \A i \in DOMAIN objs' : IsSequence(objs[i].stubs.notify)'
      BY <1>3, <2>1 DEF NotifyShapes, IsSequence
    <3>3. (\A x \in ToSet(stubs.notify)' : OfHandler(x)')
          /\ \A i \in DOMAIN objs' : \A x \in ToSet(objs[i].stubs.notify)' : OfHandler(x)'
      BY <1>3, <2>1, SameHandlers DEF NotifyShapes, ToSet
    <3> QED BY <3>1, <3>2, <3>3 DEF NotifyShapes
  <2>3. Cursor'
    <3>1. Source' = Source /\ Len(Source.methods) \in Nat
      BY <1>2, <2>1, SourceIs DEF Source
    <3>2. decl' \in 0 .. Len(Source.methods)'
      BY <1>7, <2>1, <3>1
    <3> QED BY <2>1, <3>2 DEF Cursor
  <2>4. ASSUME Plain PROVE KnownHandlers' /\ HandlersDone' /\ HandlersAtHand'
    <3>1. \A m : (Notified(m)' <=> Notified(m)) /\ (Hooked(m)' <=> Hooked(m))
      BY <2>1 DEF Notified, Hooked
    <3>2. KnownHandlers'
      <4>1. ASSUME NEW name \in cg'.notify
            PROVE  \E m \in Methods : /\ m.kind = "notify"
                                      /\ name \in {NamesOf(m).method, NamesOf(m).name}
                                      /\ m.own => Hooked(m)'
        BY <1>3, <1>6, <2>4, <3>1 DEF KnownHandlers
      <4> QED BY <2>1, <4>1, SameHandlers DEF KnownHandlers, NamesOf
    <3>3. HandlersDone'
      BY <1>3, <2>1, <2>4, <3>1, SameHandlers DEF HandlersDone
    <3>4. HandlersAtHand'
      <4>1. 1 .. decl' = {}
        BY <1>7, <2>1
      <4> QED BY <4>1 DEF HandlersAtHand
    <3> QED BY <3>2, <3>3, <3>4
  <2>5. Plain' => Plain
    BY <2>1, SameHandlers
  <2> QED BY <2>2, <2>3, <2>4, <2>5 DEF NInv
<1> QED BY <1>8, <1>9


\* What create_dispatch does to the stubs of the handlers.
LEMMA DispatchNotify ==
  ASSUME Shapes, NotifyShapes, NEW m \in Methods, m.kind \in {"action", "notify"},
         CreateDispatch(m) \/ UNCHANGED stubs
  PROVE  /\ IsSequence(stubs'.notify) /\ \A x \in ToSet(stubs'.notify) : OfHandler(x)
         /\ ToSet(stubs.notify) \subseteq ToSet(stubs'.notify)
         /\ CreateDispatch(m) /\ m.own /\ m.kind = "notify" => StubOf(m) \in ToSet(stubs'.notify)
<1>0. /\ stubs = [actions |-> stubs.actions, notify |-> stubs.notify] /\ IsSequence(stubs.notify)
      /\ \A x \in ToSet(stubs.notify) : OfHandler(x)
  BY DEF Shapes, NotifyShapes
<1>1. CASE CreateDispatch(m) /\ m.own /\ m.kind = "notify"
  <2> DEFINE A == stubs.notify
             B == Append(A, StubOf(m))
  <2>1. stubs' = [stubs EXCEPT !.notify = B]
    BY <1>1 DEF CreateDispatch
  <2>2. IsSequence(B) /\ ToSet(B) = ToSet(A) \cup {StubOf(m)}
    BY <1>0, AppendHas
  <2>3. OfHandler(StubOf(m))
    BY <1>1 DEF OfHandler, Handlers
  <2> HIDE DEF B
  <2>4. stubs'.notify = B
    BY <1>0, <2>1
  <2> QED BY <1>0, <2>2, <2>3, <2>4
<1>2. CASE CreateDispatch(m) /\ m.own /\ m.kind = "action"
  <2>1. PICK n : stubs' = [stubs EXCEPT !.actions = n]
    BY <1>2 DEF CreateDispatch
  <2>2. stubs'.notify = stubs.notify
    BY <1>0, <2>1
  <2> QED BY <1>0, <1>2, <2>2
<1>3. CASE ~m.own \/ UNCHANGED stubs
  <2>1. CASE UNCHANGED stubs /\ ~(CreateDispatch(m) /\ m.own /\ m.kind = "notify")
    BY <1>0, <2>1
  <2>2. CASE ~m.own /\ CreateDispatch(m)
    <3>1. stubs' = stubs
      BY <2>2 DEF CreateDispatch
    <3> QED BY <1>0, <2>2, <3>1
  <2> QED BY <1>1, <1>3, <2>1, <2>2
<1> QED BY <1>1, <1>2, <1>3

LEMMA VisitNotifies ==
  ASSUME AInv, NInv, Visit PROVE NInv'
<1>0. /\ phase = "codegen" /\ decl < Len(Source.methods) /\ decl' = decl + 1
      /\ UNCHANGED <<prog, src, ag, objs>>
  BY DEF Visit
<1>1. Shapes /\ src <= Len(prog.sources) /\ prog \in Programs /\ src \in 1 .. Len(prog.sources)
  BY <1>0, SourceAt
<1>2. /\ NotifyShapes /\ decl \in 0 .. Len(Source.methods)
      /\ Plain => KnownHandlers /\ HandlersDone /\ HandlersAtHand
  BY <1>0 DEF NInv, Going, Cursor
<1> SUFFICES ASSUME phase' \in Going PROVE NInv'
  BY DEF NInv
<1>3. PICK m : m = Method
  OBVIOUS
<1> DEFINE n == NamesOf(m)
           ms == Source.methods
<1>4. /\ phase' = "codegen"
      /\ \/ n.method \in Known(m) /\ UNCHANGED stubs
         \/ n.method \notin Known(m) /\ CreateDispatch(m)
  BY <1>0, <1>3 DEF Visit, Going, Merging, Installed
<1>5. Source' = Source /\ Len(ms) \in Nat /\ DOMAIN ms = 1 .. Len(ms)
      /\ \A i \in DOMAIN ms : ms[i] \in Methods
  BY <1>0, <1>1, SourceIs DEF Source
<1>6. decl \in Nat /\ decl + 1 \in DOMAIN ms /\ decl' \in 0 .. Len(ms) /\ m = ms[decl + 1]
  <2> DEFINE l == Len(ms)
  <2>1. l \in Nat /\ decl < l /\ decl \in 0 .. l /\ DOMAIN ms = 1 .. l
    BY <1>0, <1>2, <1>5
  <2> HIDE DEF l
  <2>2. decl \in Nat /\ decl + 1 \in 1 .. l /\ decl' \in 0 .. l
    BY <1>0, <2>1
  <2> QED BY <1>3, <2>1, <2>2 DEF l, Method
<1>7. m \in Methods /\ m.kind \in {"action", "notify"}
  <2>1. m \in Methods
    BY <1>5, <1>6
  <2> QED BY <1>1, <2>1, MethodKinds
<1>8. /\ IsSequence(stubs'.notify) /\ \A x \in ToSet(stubs'.notify) : OfHandler(x)
      /\ ToSet(stubs.notify) \subseteq ToSet(stubs'.notify)
      /\ CreateDispatch(m) /\ m.own /\ m.kind = "notify" => StubOf(m) \in ToSet(stubs'.notify)
  BY <1>1, <1>2, <1>4, <1>7, DispatchNotify
<1>9. /\ m.kind = "notify" => cg'.notify = cg.notify \cup {n.method, n.name}
      /\ m.kind # "notify" => cg'.notify = cg.notify
  <2>1. cg = [actions |-> cg.actions, notify |-> cg.notify]
    BY <1>1 DEF Shapes
  <2> DEFINE N == {n.method, n.name}
  <2>2. cg' = IF m.kind = "action" THEN [cg EXCEPT !.actions = @ \cup N]
              ELSE [cg EXCEPT !.notify = @ \cup N]
    BY <1>3 DEF Visit
  <2> HIDE DEF N
  <2>3. CASE m.kind = "action"
    <3>1. cg'.notify = cg.notify
      BY <2>1, <2>2, <2>3
    <3> QED BY <2>3, <3>1
  <2>4. CASE m.kind = "notify"
    <3>1. cg'.notify = cg.notify \cup N
      BY <2>1, <2>2, <2>4
    <3> QED BY <2>4, <3>1 DEF N
  <2> QED BY <1>7, <2>3, <2>4
<1>10. NotifyShapes'
  <2>1. IsABI(ag)'
    BY <1>0, <1>2 DEF NotifyShapes, IsABI
  <2>2. IsSequence(stubs.notify)' /\ \A i \in DOMAIN objs' : IsSequence(objs[i].stubs.notify)'
    BY <1>0, <1>2, <1>8 DEF NotifyShapes, IsSequence
  <2>3. \A x \in ToSet(stubs.notify)' : OfHandler(x)'
    BY <1>0, <1>8, SameHandlers DEF ToSet
  <2>4. \A i \in DOMAIN objs' : \A x \in ToSet(objs[i].stubs.notify)' : OfHandler(x)'
    BY <1>0, <1>2, SameHandlers DEF NotifyShapes, ToSet
  <2> QED BY <2>1, <2>2, <2>3, <2>4 DEF NotifyShapes
<1>11. Cursor'
  BY <1>4, <1>5, <1>6 DEF Cursor
<1>12. ASSUME Plain PROVE KnownHandlers' /\ HandlersDone' /\ HandlersAtHand'
  <2>0. KnownHandlers /\ HandlersDone /\ HandlersAtHand
    BY <1>2, <1>12
  <2>1. \A x : (Notified(x)' <=> Notified(x)) /\ (Hooked(x) => Hooked(x)')
    <3>1. \A x : Notified(x)' <=> Notified(x)
      BY <1>0 DEF Notified
    <3> QED BY <1>8, <3>1 DEF Hooked
  <2>2. ASSUME m.own, m.kind = "notify" PROVE Hooked(m)'
    <3>1. CASE n.method \in Known(m)
      <4>1. n.method \in cg.notify
        BY <2>2, <3>1 DEF Known
      <4>2. PICK x \in Methods : /\ x.kind = "notify"
                                 /\ n.method \in {NamesOf(x).method, NamesOf(x).name}
                                 /\ x.own => Hooked(x)
        BY <2>0, <4>1 DEF KnownHandlers
      <4>3. {NamesOf(m).method, NamesOf(m).name} \cap {NamesOf(x).method, NamesOf(x).name} # {}
        BY <4>2
      <4>4. x = m
        BY <1>7, <1>12, <2>2, <4>2, <4>3 DEF Plain
      <4> QED BY <2>1, <2>2, <4>2, <4>4
    <3>2. CASE CreateDispatch(m)
      <4>1. StubOf(m) \in ToSet(stubs'.notify)
        BY <1>8, <2>2, <3>2
      <4> QED BY <4>1 DEF Hooked, StubOf
    <3> QED BY <1>4, <3>1, <3>2
  <2>3. KnownHandlers'
    <3>1. ASSUME NEW name \in cg'.notify
          PROVE  \E x \in Methods : /\ x.kind = "notify"
                                    /\ name \in {NamesOf(x).method, NamesOf(x).name}
                                    /\ x.own => Hooked(x)'
      <4>1. CASE name \in cg.notify
        BY <2>0, <2>1, <4>1 DEF KnownHandlers
      <4>2. CASE name \notin cg.notify
        <5>1. m.kind = "notify" /\ name \in {n.method, n.name}
          BY <1>9, <3>1, <4>2
        <5> QED BY <1>7, <2>2, <5>1
      <4> QED BY <4>1, <4>2
    <3> QED BY <1>0, <3>1, SameHandlers DEF KnownHandlers, NamesOf
  <2>4. HandlersDone'
    BY <1>0, <2>0, <2>1, SameHandlers DEF HandlersDone
  <2>5. HandlersAtHand'
    <3>1. \A j \in 1 .. decl' : j = decl + 1 \/ j \in 1 .. decl
      BY <1>0, <1>6
    <3>2. OwnNotify(src)' = OwnNotify(src)
      BY <1>0 DEF OwnNotify
    <3>3. ASSUME NEW j \in 1 .. decl', ms[j] \in OwnNotify(src) PROVE \E x : x = ms[j] /\ Hooked(x)'
      <4>1. CASE j = decl + 1
        <5>1. ms[j] = m
          BY <1>6, <4>1
        <5>2. m.own /\ m.kind = "notify"
          BY <3>3, <5>1 DEF OwnNotify
        <5> QED BY <2>2, <5>1, <5>2
      <4>2. CASE j \in 1 .. decl
        <5>1. Hooked(ms[j])
          BY <1>0, <2>0, <3>3, <4>2 DEF HandlersAtHand
        <5>2. PICK x : x = ms[j]
          OBVIOUS
        <5> QED BY <2>1, <5>1, <5>2
      <4> QED BY <3>1, <4>1, <4>2
    <3>4. ASSUME NEW j \in 1 .. decl', Source'.methods[j] \in OwnNotify(src)'
          PROVE  Hooked(Source.methods[j])'
      <4>1. PICK x : x = ms[j] /\ Hooked(x)'
        BY <1>5, <3>2, <3>3, <3>4
      <4>2. Source'.methods[j] = x
        BY <1>5, <4>1
      <4> QED BY <4>1, <4>2 DEF Hooked, Notified
    <3> QED BY <3>4 DEF HandlersAtHand
  <2> QED BY <2>3, <2>4, <2>5
<1>13. Plain' => Plain
  BY <1>0, SameHandlers
<1> QED BY <1>10, <1>11, <1>12, <1>13 DEF NInv

LEMMA EndOfSourceNotifies ==
  ASSUME AInv, NInv, EndOfSource PROVE NInv'
<1>0. /\ phase = "codegen" /\ decl = Len(Source.methods) /\ UNCHANGED <<prog, ag, cg>>
  BY DEF EndOfSource
<1>1. Shapes /\ src <= Len(prog.sources) /\ prog \in Programs /\ src \in 1 .. Len(prog.sources)
  BY <1>0, SourceAt
<1>2. NotifyShapes /\ (Plain => KnownHandlers /\ HandlersDone /\ HandlersAtHand)
  BY <1>0 DEF NInv, Going
<1> DEFINE obj == [abi |-> to_json(ag), stubs |-> stubs, generated |-> TRUE]
<1>3. NextSource(obj)
  BY DEF EndOfSource
<1>4. obj.stubs = stubs
  OBVIOUS
<1> HIDE DEF obj
<1>5. /\ IsABI(ag') /\ IsSequence(obj.stubs.notify)
      /\ \A x \in ToSet(obj.stubs.notify) : OfHandler(x)
      /\ cg'.notify \subseteq cg.notify
  BY <1>0, <1>2, <1>4 DEF NotifyShapes
<1>6. ASSUME Plain
      PROVE  /\ KnownHandlers /\ HandlersDone
             /\ ToSet(stubs.notify) \subseteq ToSet(obj.stubs.notify)
             /\ \A m \in OwnNotify(src) :
                  StubOf(m) \in ToSet(obj.stubs.notify) \/ Notified(m)
  <2>1. KnownHandlers /\ HandlersDone /\ HandlersAtHand
    BY <1>2, <1>6
  <2>2. ASSUME NEW m \in OwnNotify(src) PROVE StubOf(m) \in ToSet(stubs.notify) \/ Notified(m)
    <3>1. m \in ToSet(Source.methods) /\ DOMAIN Source.methods = 1 .. Len(Source.methods)
      BY <1>1, SourceIs DEF OwnNotify, Source
    <3>2. PICK j \in 1 .. Len(Source.methods) : m = Source.methods[j]
      BY <3>1 DEF ToSet
    <3>3. Hooked(m)
      BY <1>0, <2>1, <3>2 DEF HandlersAtHand
    <3> QED BY <3>3 DEF Hooked
  <2> QED BY <1>4, <2>1, <2>2
<1> QED BY <1>0, <1>1, <1>2, <1>3, <1>5, <1>6, NextSourceNotify

LEMMA NotifyStays ==
  ASSUME NInv, phase \in Going, phase' \in Merging \/ phase' = phase \/ phase' \notin Going,
         UNCHANGED <<prog, src, decl, ag, cg, stubs, objs>>
  PROVE  NInv'
<1>1. /\ NotifyShapes /\ Cursor
      /\ Plain => KnownHandlers /\ HandlersDone /\ HandlersAtHand
  BY DEF NInv
<1> SUFFICES ASSUME phase' \in Merging \/ phase' = phase PROVE NInv'
  BY DEF NInv
<1>2. \A m : (Notified(m)' <=> Notified(m)) /\ (Hooked(m)' <=> Hooked(m))
  BY DEF Notified, Hooked
<1>3. Source' = Source
  BY DEF Source
<1>4. phase' = phase \/ phase' \notin {"abigen", "codegen"}
  BY DEF Merging, Installed
<1>5. NotifyShapes'
  <2>1. IsABI(ag)'
    BY <1>1 DEF NotifyShapes, IsABI
  <2>2. IsSequence(stubs.notify)' /\ \A i \in DOMAIN objs' : IsSequence(objs[i].stubs.notify)'
    BY <1>1 DEF NotifyShapes, IsSequence
  <2>3. (\A x \in ToSet(stubs.notify)' : OfHandler(x)')
        /\ \A i \in DOMAIN objs' : \A x \in ToSet(objs[i].stubs.notify)' : OfHandler(x)'
    BY <1>1, SameHandlers DEF NotifyShapes, ToSet
  <2> QED BY <2>1, <2>2, <2>3 DEF NotifyShapes
<1>6. Cursor'
  BY <1>1, <1>3, <1>4 DEF Cursor
<1>7. ASSUME Plain PROVE KnownHandlers' /\ HandlersDone' /\ HandlersAtHand'
  <2>0. KnownHandlers /\ HandlersDone /\ HandlersAtHand
    BY <1>1, <1>7
  <2>1. KnownHandlers'
    BY <1>2, <2>0, SameHandlers DEF KnownHandlers, NamesOf
  <2>2. HandlersDone'
    BY <1>2, <2>0, SameHandlers DEF HandlersDone
  <2>3. HandlersAtHand'
    BY <1>2, <1>3, <1>4, <2>0, SameHandlers DEF HandlersAtHand
  <2> QED BY <2>1, <2>2, <2>3
<1>8. Plain' => Plain
  BY SameHandlers
<1> QED BY <1>5, <1>6, <1>7, <1>8 DEF NInv

-----------------------------------------------------------------------------
(***************************************************************************)
(* What the linker writes the body of.                                     *)
(***************************************************************************)
LEMMA ConcatOnly ==
  ASSUME NEW s, NEW t, IsSequence(s), IsSequence(t)
  PROVE  IsSequence(s \o t) /\ ToSet(s \o t) \subseteq ToSet(s) \cup ToSet(t)
<1> DEFINE u == s \o t
           m == Len(s)
           n == Len(t)
<1>1. /\ IsSequence(u) /\ Len(u) = m + n
      /\ \A i \in 1 .. m + n : u[i] = IF i <= m THEN s[i] ELSE t[i - m]
  BY ConcatSequence
<1>2. m \in Nat /\ n \in Nat
  BY SequenceLen
<1>3. /\ \A x : x \in ToSet(u) <=> \E i \in 1 .. Len(u) : u[i] = x
      /\ \A x : x \in ToSet(s) <=> \E i \in 1 .. m : s[i] = x
      /\ \A x : x \in ToSet(t) <=> \E i \in 1 .. n : t[i] = x
  BY <1>1, InSequence
<1> HIDE DEF u, m, n
<1>4. ASSUME NEW x \in ToSet(u) PROVE x \in ToSet(s) \cup ToSet(t)
  <2>1. PICK i \in 1 .. m + n : u[i] = x
    BY <1>1, <1>3
  <2>2. i \in 1 .. m \/ (~(i <= m) /\ i - m \in 1 .. n)
    BY <1>2
  <2>3. i \in 1 .. m => i <= m
    BY <1>2
  <2> QED BY <1>1, <1>3, <2>1, <2>2, <2>3
<1> QED BY <1>1, <1>4 DEF u

LEMMA FlattenOnly ==
  ASSUME NEW seqs, IsSequence(seqs), \A i \in DOMAIN seqs : IsSequence(seqs[i])
  PROVE  /\ IsSequence(FlattenSeq(seqs))
         /\ \A x \in ToSet(FlattenSeq(seqs)) : \E i \in DOMAIN seqs : x \in ToSet(seqs[i])
<1> DEFINE N == Len(seqs)
<1>0. N \in Nat /\ DOMAIN seqs = 1 .. N
  BY SequenceLen
<1>1. CASE N = 0
  <2>1. PICK S : seqs \in Seq(S)
    BY DEF IsSequence
  <2>2. seqs = <<>>
    BY <1>1, <2>1, EmptySeq
  <2>3. FlattenSeq(seqs) = seqs
    BY <1>1 DEF FlattenSeq
  <2> QED BY <2>2, <2>3, EmptyIs
<1>2. CASE N # 0
  <2>1. PICK w : Flattened(w, seqs)
    BY <1>2, FlattenIs
  <2>2. /\ w[1] = seqs[1] /\ FlattenSeq(seqs) = w[N]
        /\ \A i \in 2 .. N : w[i] = w[i - 1] \o seqs[i]
    BY <2>1 DEF Flattened
  <2> DEFINE Kept(n) == /\ IsSequence(w[n])
                        /\ \A x \in ToSet(w[n]) : \E i \in 1 .. n : x \in ToSet(seqs[i])
             T == {n \in 0 .. N : n # 0 => Kept(n)}
  <2> HIDE DEF N
  <2>3. 0 \in T
    BY <1>0
  <2>4. ASSUME NEW n \in 1 .. N, n - 1 \in T PROVE n \in T
    <3>1. n \in 0 .. N /\ n \in Nat /\ n \in 1 .. n /\ IsSequence(seqs[n])
      BY <1>0
    <3>2. CASE n = 1
      <4>1. w[n] = seqs[n]
        BY <2>2, <3>2
      <4>2. Kept(n)
        BY <3>1, <4>1
      <4> QED BY <3>1, <4>2
    <3>3. CASE n # 1
      <4>1. n \in 2 .. N /\ n - 1 # 0 /\ \A i \in 1 .. n - 1 : i \in 1 .. n
        BY <1>0, <3>3
      <4>2. Kept(n - 1)
        BY <2>4, <4>1
      <4>3. PICK u, v : u = w[n - 1] /\ v = seqs[n]
        OBVIOUS
      <4>4. w[n] = u \o v /\ IsSequence(u) /\ IsSequence(v)
        BY <2>2, <3>1, <4>1, <4>2, <4>3
      <4>5. IsSequence(u \o v) /\ ToSet(u \o v) \subseteq ToSet(u) \cup ToSet(v)
        BY <4>4, ConcatOnly
      <4>6. \A x \in ToSet(u) : \E i \in 1 .. n : x \in ToSet(seqs[i])
        BY <4>1, <4>2, <4>3
      <4>7. Kept(n)
        BY <3>1, <4>3, <4>4, <4>5, <4>6
      <4> QED BY <3>1, <4>7
    <3> QED BY <3>2, <3>3
  <2>5. N \in T
    <3> HIDE DEF T
    <3>1. \A n \in 0 .. N : n \in T
      BY <1>0, <2>3, <2>4, UptoInduction
    <3> QED BY <1>0, <3>1
  <2>6. Kept(N)
    BY <1>2, <2>5
  <2> QED BY <1>0, <2>2, <2>6
<1> QED BY <1>1, <1>2

\* The stubs the linker has are those of the objects.
LEMMA LinkedStubs ==
  ASSUME IsSequence(objs), NEW p, DOMAIN p = DOMAIN objs, \A i \in DOMAIN p : IsSequence(p[i]),
         p = [i \in DOMAIN p |-> p[i]]
  PROVE  /\ IsSequence(FlattenSeq(p))
         /\ \A x : x \in ToSet(FlattenSeq(p)) <=> \E i \in DOMAIN objs : x \in ToSet(p[i])
<1>1. Len(objs) \in Nat /\ DOMAIN objs = 1 .. Len(objs)
  BY SequenceLen
<1> DEFINE n == Len(objs)
           V == {p[i] : i \in DOMAIN p}
<1>2. n \in Nat /\ p \in [1 .. n -> V]
  BY <1>1
<1> HIDE DEF n, V
<1>3. p \in Seq(V)
  BY <1>2
<1>4. IsSequence(p)
  BY <1>3 DEF IsSequence
<1>5. /\ IsSequence(FlattenSeq(p))
      /\ \A x \in ToSet(FlattenSeq(p)) : \E i \in DOMAIN p : x \in ToSet(p[i])
  BY <1>4, FlattenOnly
<1>6. ASSUME NEW x, NEW i \in DOMAIN p, x \in ToSet(p[i]) PROVE x \in ToSet(FlattenSeq(p))
  <2>1. \E j \in DOMAIN FlattenSeq(p) : FlattenSeq(p)[j] = x
    BY <1>4, <1>6, FlattenHas
  <2> QED BY <2>1 DEF ToSet
<1> QED BY <1>5, <1>6

LEMMA NotifyInvariance ==
  Spec => []NInv
<1>1. Init => NInv
  <2> SUFFICES ASSUME Init PROVE NInv
    OBVIOUS
  <2>0. /\ phase = "abigen" /\ src = 1 /\ decl = 0 /\ ag = EmptyABI
        /\ cg = NoNames /\ stubs = NoStubs /\ objs = <<>>
    BY DEF Init
  <2>1. DOMAIN objs = {} /\ cg.notify = {} /\ stubs.notify = <<>> /\ 1 .. src - 1 = {}
    BY <2>0 DEF NoNames, NoStubs
  <2>2. IsABI(ag)
    BY <2>0 DEF IsABI, EmptyABI
  <2>3. NotifyShapes
    BY <2>1, <2>2, EmptyIs DEF NotifyShapes
  <2>4. Cursor /\ KnownHandlers /\ HandlersDone /\ HandlersAtHand
    BY <2>0, <2>1 DEF Cursor, KnownHandlers, HandlersDone, HandlersAtHand
  <2> QED BY <2>3, <2>4 DEF NInv
<1>2. AInv /\ NInv /\ [Next]_vars => NInv'
  <2> SUFFICES ASSUME AInv, NInv, [Next]_vars PROVE NInv'
    OBVIOUS
  <2>1. CASE Link \/ MergeNext \/ SetCode
    <3>1. /\ phase \in {"link", "write abi"} /\ UNCHANGED <<prog, src, decl, ag, cg, stubs, objs>>
          /\ phase' \in Merging \/ phase' = phase \/ phase' = "no dispatcher"
      BY <2>1 DEF Link, MergeNext, SetCode, compiling, Merging, Installed
    <3>2. phase \in Going /\ "no dispatcher" \notin Going
      BY <3>1 DEF Going, Merging, Installed
    <3> QED BY <3>1, <3>2, NotifyStays
  <2>2. CASE (\E c \in Calls : Apply(c)) \/ CallFunction \/ Branch
    <3>1. phase' \in {"apply", "aborted", "returned"}
      BY <2>2 DEF Apply, CallFunction, Branch
    <3> QED BY <3>1 DEF NInv, Going, Merging, Installed
  <2>3. CASE UNCHANGED vars
    <3>1. UNCHANGED <<prog, src, decl, ag, cg, stubs, objs>> /\ phase' = phase
      BY <2>3 DEF vars
    <3>2. CASE phase \in Going
      BY <3>1, <3>2, NotifyStays
    <3>3. CASE phase \notin Going
      BY <3>1, <3>3 DEF NInv
    <3> QED BY <3>2, <3>3
  <2> QED BY <2>1, <2>2, <2>3, AbigenNotifies, VisitNotifies, EndOfSourceNotifies DEF Next
<1> QED BY <1>1, <1>2, AbiInvariance, PTL DEF Spec

\* The body is the one of the objects, and a node that rejects it has read it.
BInv ==
  /\ phase \in {"write abi", "rejected"} => body = createDispatchFunction(Linked)
  /\ phase = "rejected" => ~Validated(body)

LEMMA BodyInvariance ==
  Spec => []BInv
<1>1. Init => BInv
  BY DEF Init, BInv
<1>2. BInv /\ [Next]_vars => BInv'
  <2> SUFFICES ASSUME BInv, [Next]_vars PROVE BInv'
    OBVIOUS
  <2>1. ASSUME UNCHANGED <<prog, objs>> PROVE Linked' = Linked
    BY <2>1 DEF Linked
  <2>2. CASE Abigen \/ Visit \/ EndOfSource
    <3>1. phase' \in {"abigen", "codegen", "link", "codegen error"}
      <4>1. CASE Abigen
        BY <4>1 DEF Abigen, NextSource
      <4>2. CASE Visit
        BY <4>2 DEF Visit
      <4>3. CASE EndOfSource
        BY <4>3 DEF EndOfSource, NextSource
      <4> QED BY <2>2, <4>1, <4>2, <4>3
    <3> QED BY <3>1 DEF BInv
  <2>3. CASE Link
    <3>1. /\ UNCHANGED <<prog, objs>>
          /\ \/ phase' = "write abi" /\ body' = createDispatchFunction(Linked)
             \/ phase' = "no dispatcher"
      BY <2>3 DEF Link, compiling
    <3>2. PICK o : o = Linked
      OBVIOUS
    <3>3. Linked' = o
      BY <2>1, <3>1, <3>2
    <3> QED BY <3>1, <3>2, <3>3 DEF BInv
  <2>4. CASE MergeNext
    <3>1. /\ phase = "write abi" /\ phase' \in {"write abi", "failed to write abi"}
          /\ UNCHANGED <<prog, objs, body>>
      BY <2>4 DEF MergeNext, compiling
    <3>2. Linked' = Linked
      BY <2>1, <3>1
    <3> QED BY <3>1, <3>2 DEF BInv
  <2>5. CASE SetCode
    <3>1. /\ phase = "write abi" /\ UNCHANGED <<prog, objs, body>>
          /\ phase' = "deployed" \/ (phase' = "rejected" /\ ~Validated(body))
      BY <2>5 DEF SetCode, compiling, linking
    <3>2. Linked' = Linked
      BY <2>1, <3>1
    <3>3. PICK b : b = body
      OBVIOUS
    <3>4. body' = b
      BY <3>1, <3>3
    <3> QED BY <3>1, <3>2, <3>3, <3>4 DEF BInv
  <2>6. CASE (\E c \in Calls : Apply(c)) \/ CallFunction \/ Branch
    <3>1. phase' \in {"apply", "aborted", "returned"}
      BY <2>6 DEF Apply, CallFunction, Branch
    <3> QED BY <3>1 DEF BInv
  <2>7. CASE UNCHANGED vars
    <3>1. UNCHANGED <<prog, objs, body, phase>>
      BY <2>7 DEF vars
    <3>2. Linked' = Linked
      BY <2>1, <3>1
    <3>3. PICK b : b = body
      OBVIOUS
    <3>4. body' = b
      BY <3>1, <3>3
    <3> QED BY <3>1, <3>2, <3>3, <3>4 DEF BInv
  <2> QED BY <2>2, <2>3, <2>4, <2>5, <2>6, <2>7 DEF Next
<1> QED BY <1>1, <1>2, PTL DEF Spec

LEMMA NotifyHandlerIs ==
  ASSUME Shapes, src = Len(prog.sources) + 1, NEW m \in Handlers("notify")
  PROVE  \E k \in 1 .. src - 1 : m \in OwnNotify(k)
<1>1. prog.sources \in Seq(ToSet(prog.sources))
  BY ProgramsAssumption DEF Shapes
<1>2. Len(prog.sources) \in Nat /\ DOMAIN prog.sources = 1 .. Len(prog.sources)
  BY <1>1, LenProperties
<1>3. src - 1 = Len(prog.sources)
  BY <1>2
<1>4. m \in Methods /\ m.own /\ m.kind = "notify"
  BY DEF Handlers
<1>5. PICK k \in DOMAIN prog.sources : m \in ToSet(prog.sources[k].methods)
  BY <1>4 DEF Methods
<1> QED BY <1>2, <1>3, <1>4, <1>5 DEF OwnNotify

\* Each stub of a notification handler is one of the contract's own handlers,
\* and each of these has its stub, so the accounts are those of the sources.
LEMMA LinkedCodes ==
  ASSUME AInv, NInv, phase \in Merging, Plain
  PROVE  /\ IsSequence(Linked.actions) /\ IsSequence(Linked.notify)
         /\ {h.code : h \in ToSet(Linked.notify)} = {m.code : m \in Handlers("notify")}
<1>0. /\ Shapes /\ src = Len(prog.sources) + 1 /\ NotifyShapes /\ HandlersDone
  BY DEF AInv, NInv, Going
<1>1. /\ IsSequence(objs) /\ \A i \in DOMAIN objs : IsSequence(objs[i].stubs.actions)
  BY <1>0 DEF Shapes
<1>2. \A i \in DOMAIN objs : /\ IsSequence(objs[i].stubs.notify)
                             /\ \A x \in ToSet(objs[i].stubs.notify) : OfHandler(x)
  BY <1>0 DEF NotifyShapes
<1> DEFINE as == [i \in DOMAIN objs |-> objs[i].stubs.actions]
           ns == [i \in DOMAIN objs |-> objs[i].stubs.notify]
<1>3. /\ DOMAIN as = DOMAIN objs /\ as = [i \in DOMAIN as |-> as[i]]
      /\ DOMAIN ns = DOMAIN objs /\ ns = [i \in DOMAIN ns |-> ns[i]]
      /\ \A i \in DOMAIN objs : as[i] = objs[i].stubs.actions /\ ns[i] = objs[i].stubs.notify
  OBVIOUS
<1>4. Linked.actions = FlattenSeq(as) /\ Linked.notify = FlattenSeq(ns)
  BY DEF Linked
<1> HIDE DEF as, ns
<1>5. IsSequence(Linked.actions)
  BY <1>1, <1>3, <1>4, LinkedStubs
<1>6. /\ IsSequence(Linked.notify)
      /\ \A x : x \in ToSet(Linked.notify) <=> \E i \in DOMAIN objs : x \in ToSet(ns[i])
  <2>1. PICK p : p = ns
    OBVIOUS
  <2>2. \A i \in DOMAIN p : IsSequence(p[i])
    BY <1>2, <1>3, <2>1
  <2>3. /\ IsSequence(FlattenSeq(p))
        /\ \A x : x \in ToSet(FlattenSeq(p)) <=> \E i \in DOMAIN objs : x \in ToSet(p[i])
    BY <1>1, <1>3, <2>1, <2>2, LinkedStubs
  <2> QED BY <1>4, <2>1, <2>3
<1>7. ASSUME NEW h \in ToSet(Linked.notify) PROVE \E m \in Handlers("notify") : h.code = m.code
  <2>0. PICK i \in DOMAIN objs : h \in ToSet(objs[i].stubs.notify)
    BY <1>3, <1>6
  <2>1. PICK m \in Handlers("notify") : h = StubOf(m)
    BY <1>2, <2>0 DEF OfHandler
  <2> QED BY <2>1 DEF StubOf
<1>8. ASSUME NEW m \in Handlers("notify") PROVE \E h \in ToSet(Linked.notify) : h.code = m.code
  <2>1. PICK k \in 1 .. src - 1 : m \in OwnNotify(k)
    BY <1>0, NotifyHandlerIs
  <2>2. PICK j \in DOMAIN objs : StubOf(m) \in ToSet(objs[j].stubs.notify)
    BY <1>0, <2>1 DEF HandlersDone, Notified
  <2>3. StubOf(m) \in ToSet(Linked.notify)
    BY <1>3, <1>6, <2>2
  <2> QED BY <2>3 DEF StubOf
<1> QED BY <1>5, <1>6, <1>7, <1>8

\* The accounts are in the order of the keys, each once.
LEMMA CodesOnce ==
  IsSequence(CodeOrder) /\ Distinct(CodeOrder) /\ IsFiniteSet(ToSet(CodeOrder))
<1> DEFINE f == CodeOrder
           S == ToSet(CodeOrder)
           n == Len(f)
<1>1. f \in Seq(S) /\ \A i, j \in DOMAIN f : f[i] = f[j] => i = j
  BY CodeOrderAssumption DEF IsInjective
<1>2. IsSequence(f)
  BY <1>1 DEF IsSequence
<1>3. n \in Nat /\ DOMAIN f = 1 .. n /\ f \in [1 .. n -> S]
      /\ \A x \in S : \E i \in 1 .. n : f[i] = x
  <2>1. n \in Nat /\ DOMAIN f = 1 .. n /\ \A x : x \in S <=> \E i \in 1 .. n : f[i] = x
    BY <1>2, InSequence
  <2>2. f \in [1 .. n -> S]
    <3> HIDE DEF S
    <3> QED BY <1>1, <2>1
  <2> QED BY <2>1, <2>2
<1>4. Distinct(f)
  BY <1>1, <1>3 DEF Distinct
<1>5. IsFiniteSet(1 .. n)
  <2> HIDE DEF n
  <2>1. 1 \in Int /\ n \in Int
    BY <1>3
  <2> QED BY <2>1, FS_Interval
<1>6. f \in Surjection(1 .. n, S)
  <2> HIDE DEF n, S
  <2> QED BY <1>3 DEF Surjection
<1>7. IsFiniteSet(S)
  <2> HIDE DEF n, S
  <2> QED BY <1>5, <1>6, FS_Surjection
<1> QED BY <1>2, <1>4, <1>7

\* createDispatchFunction closes what it opens, for any contract of these
\* shapes: whatever its actions, its hooks and the number of its handlers and
\* sources, a node does not reject the body that the linker writes for it.
THEOREM DispatcherCloses ==
  Spec => []BodyCloses
<1>1. AInv /\ NInv /\ BInv => BodyCloses
  <2> SUFFICES ASSUME AInv, NInv, BInv, phase = "rejected", Plain, ClosingShape PROVE FALSE
    BY DEF BodyCloses
  <2>0. phase \in Merging /\ body = createDispatchFunction(Linked) /\ ~Validated(body)
    BY DEF BInv, Merging, Installed
  <2>1. prog \in Programs
    BY <2>0 DEF AInv, Going, Shapes
  <2>2. PICK o : o = Linked
    OBVIOUS
  <2>3. /\ o.pre \in BOOLEAN /\ o.post \in BOOLEAN /\ o.dtors \in BOOLEAN /\ o.post = prog.post
    <3>1. prog.pre \in BOOLEAN /\ prog.post \in BOOLEAN /\ prog.dtors \in BOOLEAN
      BY <2>1, ProgramsAssumption
    <3>2. o.pre = prog.pre /\ o.post = prog.post /\ o.dtors = prog.dtors
      BY <2>2 DEF Linked
    <3> QED BY <3>1, <3>2
  <2> DEFINE codes == {m.code : m \in Handlers("notify")}
             accounts == codes \ {ANY}
  <2>4. /\ IsSequence(o.actions) /\ IsSequence(o.notify)
        /\ {h.code : h \in ToSet(o.notify)} = codes
    BY <2>0, <2>2, LinkedCodes
  <2>5. codes \subseteq ToSet(CodeOrder)
    <3>1. ASSUME NEW m \in Handlers("notify") PROVE m.code \in ToSet(CodeOrder)
      <4>1. m \in Methods /\ m.kind = "notify"
        BY DEF Handlers
      <4> QED BY <2>1, <4>1, MethodKinds
    <3> QED BY <3>1
  <2>6. \/ ANY \in codes /\ Cardinality(accounts) = (IF prog.post THEN 1 ELSE 0)
        \/ codes = {} /\ ~prog.post
    BY DEF ClosingShape
  <2>7. NotifyCodes(o.notify) = Keep(CodeOrder, accounts)
    BY <2>4 DEF NotifyCodes
  <2>8. IsSequence(HasDispatched(o.actions))
    BY <2>4, HasDispatchedIs
  <2>9. ASSUME NEW c
        PROVE  /\ IsSequence(NotifyHandlers(o.notify, c))
               /\ ToSet(NotifyHandlers(o.notify, c)) = {h \in ToSet(o.notify) : h.code = c}
    <3>1. PICK d : d = HasDispatched(o.notify) /\ IsSequence(d) /\ ToSet(d) = ToSet(o.notify)
      BY <2>4, HasDispatchedIs
    <3>2. PICK S : S = {h \in ToSet(o.notify) : h.code = c}
      OBVIOUS
    <3>3. NotifyHandlers(o.notify, c) = Keep(d, S)
      BY <3>1, <3>2 DEF NotifyHandlers
    <3>4. IsSequence(Keep(d, S)) /\ ToSet(Keep(d, S)) = ToSet(d) \cap S
      BY <3>1, KeepIs
    <3> QED BY <3>1, <3>2, <3>3, <3>4
  <2>10. ANY \in codes => Len(NotifyHandlers(o.notify, ANY)) # 0
    <3> SUFFICES ASSUME ANY \in codes PROVE Len(NotifyHandlers(o.notify, ANY)) # 0
      OBVIOUS
    <3>1. PICK s : s = NotifyHandlers(o.notify, ANY)
      OBVIOUS
    <3>2. \E h \in ToSet(o.notify) : h.code = ANY
      BY <2>4
    <3>3. IsSequence(s) /\ ToSet(s) # {}
      BY <2>9, <3>1, <3>2
    <3>4. Len(s) # 0
      <4>1. 1 .. 0 = {}
        OBVIOUS
      <4> QED BY <3>3, <4>1, InSequence
    <3> QED BY <3>1, <3>4
  <2> HIDE DEF codes
  <2>11. PICK K : K = NotifyCodes(o.notify) /\ IsSequence(K) /\ Distinct(K) /\ ToSet(K) = accounts
    <3>1. PICK A : A = accounts
      OBVIOUS
    <3>2. /\ IsSequence(Keep(CodeOrder, A)) /\ Distinct(Keep(CodeOrder, A))
          /\ ToSet(Keep(CodeOrder, A)) = ToSet(CodeOrder) \cap A
      BY CodesOnce, KeepIs
    <3>3. ToSet(CodeOrder) \cap A = accounts
      BY <2>5, <3>1
    <3> QED BY <2>7, <3>1, <3>2, <3>3
  <2>12. IsFiniteSet(accounts)
    <3>1. accounts \in SUBSET ToSet(CodeOrder)
      BY <2>5
    <3> QED BY <3>1, CodesOnce, FS_Subset
  <2>13. \/ o.post /\ Len(K) = 1 /\ ANY \in codes
         \/ ~o.post /\ Len(K) = 0
    <3>1. CASE prog.post
      <4>1. ANY \in codes /\ Cardinality(accounts) = 1
        BY <2>6, <3>1
      <4> HIDE DEF accounts
      <4>2. PICK x : accounts = {x}
        BY <2>12, <4>1, FS_Singleton
      <4>3. Len(K) = 1
        BY <2>11, <4>2, HowMany
      <4> QED BY <2>3, <3>1, <4>1, <4>3
    <3>2. CASE ~prog.post
      <4>1. accounts = {}
        <5>1. CASE codes = {}
          BY <5>1
        <5>2. CASE Cardinality(accounts) = 0
          <6> HIDE DEF accounts
          <6> QED BY <2>12, <5>2, FS_EmptySet
        <5> QED BY <2>6, <3>2, <5>1, <5>2
      <4>2. Len(K) = 0
        BY <2>11, <4>1, HowMany
      <4> QED BY <2>3, <3>2, <4>2
    <3> QED BY <3>1, <3>2
  <2>14. Runs(<<"function">>, createDispatchFunction(o), <<>>)
    <3>1. IsSequence(NotifyCodes(o.notify)) /\ \A c : IsSequence(NotifyHandlers(o.notify, c))
      BY <2>9, <2>11
    <3>2. \/ o.post /\ Len(NotifyCodes(o.notify)) = 1 /\ Len(NotifyHandlers(o.notify, ANY)) # 0
          \/ ~o.post /\ Len(NotifyCodes(o.notify)) = 0
      BY <2>10, <2>11, <2>13
    <3> QED BY <2>3, <2>8, <3>1, <3>2, DispatcherRuns
  <2>15. Validated(createDispatchFunction(o))
    BY <2>14, RunsValidated
  <2> QED BY <2>0, <2>2, <2>15
<1> QED BY <1>1, AbiInvariance, NotifyInvariance, BodyInvariance, PTL
=============================================================================
