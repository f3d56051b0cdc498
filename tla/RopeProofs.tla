----------------------------- MODULE RopeProofs -----------------------------
(***************************************************************************)
(* Rope, for any ropes, strings and bounds: types, the way back of the     *)
(* walk, the buffer it fills, at(), and the refinement of TextValues.      *)
(*                                                                         *)
(* The texts below nodes, and the visits of at(), are recursive functions. *)
(* That they exist and are what their equations say is proved first, by    *)
(* induction over the numbers of the nodes.  The inductive invariant then  *)
(* says of a walk that there are a way back P and, for each node on it,    *)
(* the place L in the buffer where the text below the node goes.           *)
(***************************************************************************)
EXTENDS Rope, TLAPS, SequenceTheorems, WellFoundedInduction

-----------------------------------------------------------------------------
(***************************************************************************)
(* Induction over the nodes, which are numbered, with the property as a    *)
(* set.                                                                    *)
(***************************************************************************)
LEMMA Induction ==
  ASSUME NEW N \in Nat, NEW S,
         \A k \in 0 .. N : (\A j \in 0 .. k - 1 : j \in S) => k \in S
  PROVE  \A k \in 0 .. N : k \in S
<1> DEFINE T == {k \in 0 .. N : k \notin S}
           R == OpToRel(<, Nat)
<1>1. R = {ss \in Nat \X Nat : ss[1] < ss[2]}
  BY DEF OpToRel
<1>2. IsWellFoundedOn(R, Nat)
  BY NatLessThanWellFounded
<1> SUFFICES ASSUME T # {} PROVE FALSE
  OBVIOUS
<1>3. T \in SUBSET Nat
  OBVIOUS
<1> HIDE DEF R
<1>4. PICK x \in T : \A y \in T : ~(<<y, x>> \in R)
  BY <1>2, <1>3, WFMin
<1>5. ASSUME NEW j \in 0 .. x - 1 PROVE j \in S
  <2>1. j \in Nat /\ x \in Nat /\ j < x /\ j \in 0 .. N
    OBVIOUS
  <2>2. <<j, x>> \in R
    BY <1>1, <2>1
  <2> QED BY <1>4, <2>1, <2>2
<1> QED BY <1>4, <1>5

-----------------------------------------------------------------------------
(***************************************************************************)
(* The text below a node.                                                  *)
(***************************************************************************)
\* One turn of the recursion of TextIn.
Unfold(nodes, f, n) ==
  IF n = 0 THEN <<>>
  ELSE IF nodes[n].tag = "str" THEN nodes[n].text
  ELSE f[nodes[n].right] \o f[nodes[n].left]

\* f gives the texts below the first k nodes.
TextsUpTo(nodes, k, f) ==
  f \in [0 .. k -> Seq(Chars)] /\ \A n \in 0 .. k : f[n] = Unfold(nodes, f, n)

Texts(nodes, f) == TextsUpTo(nodes, Len(nodes), f)

LEMMA NodeShape ==
  ASSUME NEW nodes \in Seq(Node), WellFormed(nodes), NEW n \in 1 .. Len(nodes)
  PROVE  /\ nodes[n] \in Node
         /\ nodes[n].text \in Seq(Chars)
         /\ nodes[n].left \in 0 .. n - 1
         /\ nodes[n].right \in 0 .. n - 1
<1>1. nodes[n] \in Node
  BY ElementOfSeq
<1>2. nodes[n].text \in Seq(Chars) /\ nodes[n].left \in Nat /\ nodes[n].right \in Nat
  BY <1>1 DEF Node
<1>3. nodes[n].left < n /\ nodes[n].right < n
  BY DEF WellFormed
<1>4. n \in Nat
  OBVIOUS
<1>5. nodes[n].left \in 0 .. n - 1 /\ nodes[n].right \in 0 .. n - 1
  BY <1>2, <1>3, <1>4
<1> QED BY <1>1, <1>2, <1>5

LEMMA UnfoldOlder ==
  ASSUME NEW nodes \in Seq(Node), WellFormed(nodes), NEW n \in 0 .. Len(nodes),
         NEW f, NEW g,
         \A j \in 0 .. n - 1 : f[j] \in Seq(Chars) /\ g[j] = f[j]
  PROVE  Unfold(nodes, f, n) \in Seq(Chars) /\ Unfold(nodes, g, n) = Unfold(nodes, f, n)
<1>1. CASE n = 0
  BY <1>1 DEF Unfold
<1>2. CASE n # 0
  <2>1. n \in 1 .. Len(nodes)
    BY <1>2
  <2>2. /\ nodes[n].text \in Seq(Chars)
        /\ nodes[n].left \in 0 .. n - 1
        /\ nodes[n].right \in 0 .. n - 1
    BY <2>1, NodeShape
  <2>3. f[nodes[n].right] \o f[nodes[n].left] \in Seq(Chars)
    BY <2>2, ConcatProperties
  <2> QED BY <1>2, <2>2, <2>3 DEF Unfold
<1> QED BY <1>1, <1>2

LEMMA TextsExist ==
  ASSUME NEW nodes \in Seq(Node), WellFormed(nodes)
  PROVE  \E f : Texts(nodes, f)
<1> DEFINE S == {k \in 0 .. Len(nodes) : \E f : TextsUpTo(nodes, k, f)}
<1>1. Len(nodes) \in Nat
  BY LenProperties
<1>2. ASSUME NEW k \in 0 .. Len(nodes), \A j \in 0 .. k - 1 : j \in S
      PROVE  k \in S
  <2>1. \E f : f \in [0 .. k - 1 -> Seq(Chars)] /\ \A n \in 0 .. k - 1 : f[n] = Unfold(nodes, f, n)
    <3>1. CASE k = 0
      <4> DEFINE e == [i \in 0 .. k - 1 |-> <<>>]
      <4>1. e \in [0 .. k - 1 -> Seq(Chars)]
        OBVIOUS
      <4>2. \A n : n \notin 0 .. k - 1
        BY <3>1
      <4> HIDE DEF e
      <4> QED BY <4>1, <4>2
    <3>2. CASE k # 0
      <4>1. k - 1 \in S
        BY <1>2, <3>2
      <4> QED BY <4>1 DEF TextsUpTo
    <3> QED BY <3>1, <3>2
  <2>2. PICK f : f \in [0 .. k - 1 -> Seq(Chars)] /\ \A n \in 0 .. k - 1 : f[n] = Unfold(nodes, f, n)
    BY <2>1
  <2> DEFINE g == [n \in 0 .. k |-> IF n = k THEN Unfold(nodes, f, k) ELSE f[n]]
  <2>3. \A j \in 0 .. k - 1 : f[j] \in Seq(Chars) /\ g[j] = f[j]
    BY <2>2
  <2>4. g[k] = Unfold(nodes, f, k)
    OBVIOUS
  <2>5. ASSUME NEW n \in 0 .. k
        PROVE  g[n] \in Seq(Chars) /\ g[n] = Unfold(nodes, g, n)
    <3>1. \A j \in 0 .. n - 1 : f[j] \in Seq(Chars) /\ g[j] = f[j]
      <4>1. \A j \in 0 .. n - 1 : j \in 0 .. k - 1
        OBVIOUS
      <4> HIDE DEF g
      <4> QED BY <2>3, <4>1
    <3>2. n \in 0 .. Len(nodes)
      OBVIOUS
    <3> HIDE DEF g
    <3>3. Unfold(nodes, f, n) \in Seq(Chars) /\ Unfold(nodes, g, n) = Unfold(nodes, f, n)
      BY <3>1, <3>2, UnfoldOlder
    <3>4. CASE n = k
      BY <2>4, <3>3, <3>4
    <3>5. CASE n # k
      <4>1. n \in 0 .. k - 1
        BY <3>5
      <4> QED BY <2>2, <2>3, <3>3, <4>1
    <3> QED BY <3>4, <3>5
  <2>6. g \in [0 .. k -> Seq(Chars)]
    BY <2>5
  <2> HIDE DEF g
  <2>7. TextsUpTo(nodes, k, g)
    BY <2>5, <2>6 DEF TextsUpTo
  <2> QED BY <2>7
<1> HIDE DEF S
<1>3. Len(nodes) \in S
  <2>1. PICK N \in Nat : N = Len(nodes)
    BY <1>1
  <2>2. \A k \in 0 .. N : (\A j \in 0 .. k - 1 : j \in S) => k \in S
    BY <1>2, <2>1
  <2>3. \A k \in 0 .. N : k \in S
    BY <2>2, Induction
  <2> QED BY <2>1, <2>3
<1> QED BY <1>3 DEF S, Texts

LEMMA TextsAgree ==
  ASSUME NEW nodes \in Seq(Node), WellFormed(nodes), NEW f, Texts(nodes, f),
         NEW k \in Nat, k <= Len(nodes), NEW g,
         \A n \in 0 .. k : g[n] = Unfold(nodes, g, n)
  PROVE  \A n \in 0 .. k : g[n] = f[n]
<1> DEFINE S == {n \in 0 .. k : g[n] = f[n]}
<1>1. ASSUME NEW n \in 0 .. k, \A j \in 0 .. n - 1 : j \in S
      PROVE  n \in S
  <2>0. Len(nodes) \in Nat
    BY LenProperties
  <2>1. \A j \in 0 .. n - 1 : f[j] \in Seq(Chars) /\ g[j] = f[j]
    BY <1>1, <2>0 DEF Texts, TextsUpTo
  <2>2. n \in 0 .. Len(nodes)
    BY <2>0
  <2>3. Unfold(nodes, g, n) = Unfold(nodes, f, n)
    BY <2>1, <2>2, UnfoldOlder
  <2> QED BY <2>2, <2>3 DEF Texts, TextsUpTo
<1> HIDE DEF S
<1>2. \A n \in 0 .. k : n \in S
  BY <1>1, Induction
<1> QED BY <1>2 DEF S

\* TextIn, a recursive function, is what its equation says.
LEMMA TextInTexts ==
  ASSUME NEW nodes \in Seq(Node), WellFormed(nodes)
  PROVE  Texts(nodes, TextIn(nodes))
<1> DEFINE Body(f) == [n \in 0 .. Len(nodes) |->
                         IF n = 0 THEN <<>>
                         ELSE IF nodes[n].tag = "str" THEN nodes[n].text
                         ELSE f[nodes[n].right] \o f[nodes[n].left]]
<1>1. PICK f : Texts(nodes, f)
  BY TextsExist
<1>2. f = Body(f)
  BY <1>1 DEF Texts, TextsUpTo, Unfold
<1>3. TextIn(nodes) = CHOOSE g : g = Body(g)
  BY Zenon DEF TextIn
<1>4. TextIn(nodes) = Body(TextIn(nodes))
  <2> HIDE DEF Body
  <2> QED BY <1>2, <1>3, Zenon
<1> DEFINE g == TextIn(nodes)
<1>5. \A n \in 0 .. Len(nodes) : g[n] = Unfold(nodes, g, n)
  <2> HIDE DEF g
  <2>1. g = Body(g)
    BY <1>4 DEF g
  <2> QED BY <2>1 DEF Unfold
<1>6. g = [n \in 0 .. Len(nodes) |-> g[n]]
  <2> HIDE DEF g
  <2>1. g = Body(g)
    BY <1>4 DEF g
  <2> QED BY <2>1
<1> HIDE DEF g
<1>7. Len(nodes) \in Nat
  BY LenProperties
<1>8. \A n \in 0 .. Len(nodes) : g[n] = f[n]
  BY <1>1, <1>5, <1>7, TextsAgree
<1>9. g \in [0 .. Len(nodes) -> Seq(Chars)]
  BY <1>1, <1>6, <1>8 DEF Texts, TextsUpTo
<1>10. Texts(nodes, g)
  BY <1>5, <1>9 DEF Texts, TextsUpTo
<1> QED BY <1>10 DEF g

LEMMA TextAt ==
  ASSUME NEW nodes \in Seq(Node), WellFormed(nodes), NEW n \in 0 .. Len(nodes)
  PROVE  /\ TextIn(nodes)[0] = <<>>
         /\ TextIn(nodes)[n] \in Seq(Chars)
         /\ n # 0 /\ nodes[n].tag = "str" => TextIn(nodes)[n] = nodes[n].text
         /\ n # 0 /\ nodes[n].tag = "concat"
              => TextIn(nodes)[n] = TextIn(nodes)[nodes[n].right] \o TextIn(nodes)[nodes[n].left]
<1> DEFINE f == TextIn(nodes)
<1>1. Texts(nodes, f)
  BY TextInTexts
<1> HIDE DEF f
<1>2. Len(nodes) \in Nat
  BY LenProperties
<1>3. f[0] = Unfold(nodes, f, 0) /\ f[n] = Unfold(nodes, f, n) /\ f[n] \in Seq(Chars)
  BY <1>1, <1>2 DEF Texts, TextsUpTo
<1>4. f[0] = <<>>
  BY <1>3 DEF Unfold
<1>5. /\ n # 0 /\ nodes[n].tag = "str" => f[n] = nodes[n].text
      /\ n # 0 /\ nodes[n].tag = "concat" => f[n] = f[nodes[n].right] \o f[nodes[n].left]
  BY <1>3 DEF Unfold
<1> QED BY <1>3, <1>4, <1>5 DEF f

\* Same text, same children.
SameTree(a, b) ==
  a.tag = b.tag /\ a.text = b.text /\ a.left = b.left /\ a.right = b.right

LEMMA TextKept ==
  ASSUME NEW nodes \in Seq(Node), WellFormed(nodes),
         NEW more \in Seq(Node), WellFormed(more), Len(nodes) <= Len(more),
         \A n \in 1 .. Len(nodes) : SameTree(more[n], nodes[n])
  PROVE  \A n \in 0 .. Len(nodes) : TextIn(more)[n] = TextIn(nodes)[n]
<1> DEFINE f == TextIn(nodes)
           g == TextIn(more)
<1>1. Texts(nodes, f) /\ Texts(more, g)
  BY TextInTexts
<1> HIDE DEF f, g
<1>2. Len(nodes) \in Nat /\ Len(more) \in Nat
  BY LenProperties
<1>3. ASSUME NEW n \in 0 .. Len(nodes) PROVE g[n] = Unfold(nodes, g, n)
  <2>1. g[n] = Unfold(more, g, n)
    BY <1>1, <1>2 DEF Texts, TextsUpTo
  <2>2. CASE n = 0
    BY <2>1, <2>2 DEF Unfold
  <2>3. CASE n # 0
    <3>1. SameTree(more[n], nodes[n])
      BY <2>3
    <3> QED BY <2>1, <3>1 DEF Unfold, SameTree
  <2> QED BY <2>2, <2>3
<1>4. \A n \in 0 .. Len(nodes) : g[n] = f[n]
  BY <1>1, <1>2, <1>3, TextsAgree
<1> QED BY <1>4 DEF f, g

LEMMA MarkedLeft ==
  ASSUME NEW a \in Node, NEW left \in BOOLEAN, NEW m, m = [a EXCEPT !.temp_left = left]
  PROVE  m \in Node /\ SameTree(m, a) /\ m.temp_left = left /\ m.temp = a.temp
<1>1. m \in Node
  BY DEF Node
<1>2. SameTree(m, a)
  BY DEF Node, SameTree
<1>3. m.temp_left = left
  BY DEF Node
<1>4. m.temp = a.temp
  BY DEF Node
<1> QED BY <1>1, <1>2, <1>3, <1>4

LEMMA MarkedTemp ==
  ASSUME NEW a \in Node, NEW t \in Nat, NEW m, m = [a EXCEPT !.temp = t]
  PROVE  m \in Node /\ SameTree(m, a) /\ m.temp = t /\ m.temp_left = a.temp_left
<1>1. m \in Node
  BY DEF Node
<1>2. SameTree(m, a)
  BY DEF Node, SameTree
<1>3. m.temp = t
  BY DEF Node
<1>4. m.temp_left = a.temp_left
  BY DEF Node
<1> QED BY <1>1, <1>2, <1>3, <1>4

\* Nodes that change in nothing but their marks.
LEMMA SameTrees ==
  ASSUME NEW nodes \in Seq(Node), WellFormed(nodes), NEW more,
         more = [n \in DOMAIN nodes |-> more[n]],
         \A n \in 1 .. Len(nodes) : more[n] \in Node /\ SameTree(more[n], nodes[n])
  PROVE  more \in Seq(Node) /\ Len(more) = Len(nodes) /\ WellFormed(more)
<1>0. Len(nodes) \in Nat /\ DOMAIN nodes = 1 .. Len(nodes)
  BY LenProperties
<1>1. ASSUME NEW n \in 1 .. Len(nodes)
      PROVE  more[n] \in Node /\ SameTree(more[n], nodes[n])
  OBVIOUS
<1>2. more \in [1 .. Len(nodes) -> Node]
  <2>1. DOMAIN more = 1 .. Len(nodes)
    BY <1>0
  <2> QED BY <1>0, <1>1, <2>1
<1>3. more \in Seq(Node) /\ Len(more) = Len(nodes)
  <2>1. more \in Seq(Node)
    BY <1>0, <1>2, SeqDef
  <2>2. DOMAIN more = 1 .. Len(more) /\ Len(more) \in Nat
    BY <2>1, LenProperties
  <2>3. 1 .. Len(more) = 1 .. Len(nodes)
    BY <1>2, <2>2
  <2>4. Len(more) = Len(nodes)
    BY <1>0, <2>2, <2>3
  <2> QED BY <2>1, <2>4
<1>4. WellFormed(more)
  <2> SUFFICES ASSUME NEW n \in 1 .. Len(nodes)
               PROVE  /\ more[n].left < n /\ more[n].right < n
                      /\ more[n].tag = "str" => more[n].left = 0 /\ more[n].right = 0
                      /\ more[n].right # 0 => more[more[n].right].tag = "concat"
    BY <1>3 DEF WellFormed
  <2>1. SameTree(more[n], nodes[n])
    BY <1>1
  <2>2. nodes[n].right \in 0 .. n - 1
    BY NodeShape
  <2>3. ASSUME nodes[n].right # 0
        PROVE  SameTree(more[nodes[n].right], nodes[nodes[n].right])
    <3>1. nodes[n].right \in 1 .. Len(nodes)
      BY <1>0, <2>2, <2>3
    <3> QED BY <1>1, <3>1
  <2> QED BY <2>1, <2>2, <2>3 DEF WellFormed, SameTree
<1> QED BY <1>3, <1>4

MarkedAs(more, nodes, a, left, b, t) ==
  /\ more \in Seq(Node) /\ Len(more) = Len(nodes) /\ WellFormed(more)
  /\ \A n \in 1 .. Len(nodes) : SameTree(more[n], nodes[n])
  /\ \A n \in 1 .. Len(nodes) :
       /\ more[n].temp = IF n = b THEN t ELSE nodes[n].temp
       /\ more[n].temp_left = IF n = a THEN left ELSE nodes[n].temp_left

\* A walk marks nodes and leaves every tree as it is.
LEMMA Marked ==
  ASSUME NEW nodes \in Seq(Node), WellFormed(nodes),
         NEW a \in 1 .. Len(nodes), NEW b \in 1 .. Len(nodes),
         NEW left \in BOOLEAN, NEW t \in Nat, NEW more,
         more = [nodes EXCEPT ![a].temp_left = left, ![b].temp = t]
  PROVE  MarkedAs(more, nodes, a, left, b, t)
<1>0. Len(nodes) \in Nat /\ DOMAIN nodes = 1 .. Len(nodes)
  BY LenProperties
<1>1. ASSUME NEW n \in 1 .. Len(nodes)
      PROVE  /\ more[n] \in Node
             /\ SameTree(more[n], nodes[n])
             /\ more[n].temp = IF n = b THEN t ELSE nodes[n].temp
             /\ more[n].temp_left = IF n = a THEN left ELSE nodes[n].temp_left
  <2>1. nodes[n] \in Node
    BY ElementOfSeq
  <2>5. n # a /\ n # b => more[n] = nodes[n]
    BY <1>0
  <2>6. CASE n = a /\ n = b
    <3>1. PICK c : c = [nodes[n] EXCEPT !.temp_left = left]
      OBVIOUS
    <3>2. more[n] = [c EXCEPT !.temp = t]
      BY <1>0, <2>6, <3>1
    <3>3. c \in Node /\ SameTree(c, nodes[n]) /\ c.temp_left = left
      BY <2>1, <3>1, MarkedLeft
    <3>4. /\ more[n] \in Node /\ SameTree(more[n], c)
          /\ more[n].temp = t /\ more[n].temp_left = c.temp_left
      BY <3>2, <3>3, MarkedTemp
    <3> QED BY <2>6, <3>3, <3>4 DEF SameTree
  <2>7. CASE n = a /\ n # b
    <3>1. PICK c : c = [nodes[n] EXCEPT !.temp_left = left]
      OBVIOUS
    <3>2. more[n] = c
      BY <1>0, <2>7, <3>1
    <3>3. c \in Node /\ SameTree(c, nodes[n]) /\ c.temp_left = left /\ c.temp = nodes[n].temp
      BY <2>1, <3>1, MarkedLeft
    <3> QED BY <2>7, <3>2, <3>3
  <2>8. CASE n # a /\ n = b
    <3>1. PICK c : c = [nodes[n] EXCEPT !.temp = t]
      OBVIOUS
    <3>2. more[n] = c
      BY <1>0, <2>8, <3>1
    <3>3. c \in Node /\ SameTree(c, nodes[n]) /\ c.temp = t /\ c.temp_left = nodes[n].temp_left
      BY <2>1, <3>1, MarkedTemp
    <3> QED BY <2>8, <3>2, <3>3
  <2>9. CASE n # a /\ n # b
    BY <2>1, <2>5, <2>9 DEF SameTree
  <2> QED BY <2>6, <2>7, <2>8, <2>9
<1>2. more = [n \in DOMAIN nodes |-> more[n]]
  BY <1>0
<1>3. more \in Seq(Node) /\ Len(more) = Len(nodes) /\ WellFormed(more)
  <2>1. \A n \in 1 .. Len(nodes) : more[n] \in Node /\ SameTree(more[n], nodes[n])
    BY <1>1
  <2> QED BY <1>2, <2>1, SameTrees
<1> QED BY <1>1, <1>3 DEF MarkedAs

\* A node is added above the others.
Fits(nodes, c) ==
  /\ c.left <= Len(nodes) /\ c.right <= Len(nodes)
  /\ c.tag = "str" => c.left = 0 /\ c.right = 0
  /\ c.right # 0 => nodes[c.right].tag = "concat"

IsWith(more, nodes, c) ==
  /\ more \in Seq(Node) /\ Len(more) = Len(nodes) + 1 /\ WellFormed(more)
  /\ more[Len(nodes) + 1] = c
  /\ \A n \in 1 .. Len(nodes) : more[n] = nodes[n]

LEMMA Added ==
  ASSUME NEW nodes \in Seq(Node), WellFormed(nodes), NEW c \in Node, Fits(nodes, c),
         NEW more, more = Append(nodes, c)
  PROVE  IsWith(more, nodes, c)
<1>0. Len(nodes) \in Nat /\ c.left \in Nat /\ c.right \in Nat
  BY LenProperties DEF Node
<1>1. /\ more \in Seq(Node) /\ Len(more) = Len(nodes) + 1
      /\ more[Len(nodes) + 1] = c
      /\ \A n \in 1 .. Len(nodes) : more[n] = nodes[n]
  BY AppendProperties
<1>2. ASSUME NEW n \in 1 .. Len(more)
      PROVE  /\ more[n].left < n /\ more[n].right < n
             /\ more[n].tag = "str" => more[n].left = 0 /\ more[n].right = 0
             /\ more[n].right # 0 => more[more[n].right].tag = "concat"
  <2>1. CASE n = Len(nodes) + 1
    <3>1. more[n] = c
      BY <1>1, <2>1
    <3>2. c.right # 0 => more[c.right] = nodes[c.right]
      BY <1>0, <1>1 DEF Fits
    <3> QED BY <1>0, <2>1, <3>1, <3>2 DEF Fits
  <2>2. CASE n # Len(nodes) + 1
    <3>1. n \in 1 .. Len(nodes)
      BY <1>0, <1>1, <2>2
    <3>2. more[n] = nodes[n] /\ nodes[n].right \in 0 .. n - 1
      BY <1>1, <3>1, NodeShape
    <3>3. nodes[n].right # 0 => more[nodes[n].right] = nodes[nodes[n].right]
      BY <1>0, <1>1, <3>1, <3>2
    <3> QED BY <3>1, <3>2, <3>3 DEF WellFormed
  <2> QED BY <2>1, <2>2
<1>3. WellFormed(more)
  BY <1>2 DEF WellFormed
<1> QED BY <1>1, <1>3 DEF IsWith

LEMMA AddTwo ==
  ASSUME NEW s \in Seq(Node), NEW a \in Node, NEW b \in Node
  PROVE  /\ s \o <<a>> = Append(s, a)
         /\ s \o <<a, b>> = Append(Append(s, a), b)
<1>1. s \o <<a>> = Append(s, a)
  OBVIOUS
<1>2. s \o <<a, b>> = Append(Append(s, a), b)
  OBVIOUS
<1> QED BY <1>1, <1>2

\* more has all of nodes, and in k a new root over the text t.
Grown(nodes, more, k, t) ==
  /\ more \in Seq(Node) /\ WellFormed(more) /\ Len(nodes) <= Len(more)
  /\ \A n \in 1 .. Len(nodes) : more[n] = nodes[n]
  /\ \A n \in 0 .. Len(nodes) : TextIn(more)[n] = TextIn(nodes)[n]
  /\ k \in 1 .. Len(more) /\ more[k].tag = "concat" /\ TextIn(more)[k] = t

\* What the two ways to build add: text at the end of a rope.
LEMMA PieceAdded ==
  ASSUME NEW nodes \in Seq(Node), WellFormed(nodes), NEW s \in Seq(Chars),
         NEW right \in 0 .. Len(nodes), right # 0 => nodes[right].tag = "concat",
         NEW more, more = nodes \o <<str_t(s), concat_t(Len(nodes) + 1, right)>>
  PROVE  Grown(nodes, more, Len(nodes) + 2, TextIn(nodes)[right] \o s)
<1>0. Len(nodes) \in Nat
  BY LenProperties
<1>1. str_t(s) \in Node /\ concat_t(Len(nodes) + 1, right) \in Node
  BY <1>0, EmptySeq DEF str_t, concat_t, Node
<1>2. PICK a \in Node : a = str_t(s)
  BY <1>1
<1>3. PICK b \in Node : b = concat_t(Len(nodes) + 1, right)
  BY <1>1
<1>4. PICK one : one = Append(nodes, a)
  OBVIOUS
<1>5. more = Append(one, b)
  BY <1>2, <1>3, <1>4, AddTwo
<1>6. a.tag = "str" /\ a.text = s /\ a.left = 0 /\ a.right = 0
  BY <1>2 DEF str_t
<1>7. b.tag = "concat" /\ b.left = Len(nodes) + 1 /\ b.right = right
  BY <1>3 DEF concat_t
<1>8. /\ one \in Seq(Node) /\ Len(one) = Len(nodes) + 1 /\ WellFormed(one)
      /\ one[Len(nodes) + 1] = a
      /\ \A n \in 1 .. Len(nodes) : one[n] = nodes[n]
  <2>1. a.left <= Len(nodes) /\ a.right <= Len(nodes)
    BY <1>0, <1>6
  <2>2. (a.tag = "str" => a.left = 0 /\ a.right = 0) /\ (a.right # 0 => nodes[a.right].tag = "concat")
    BY <1>6
  <2>3. Fits(nodes, a)
    BY <2>1, <2>2 DEF Fits
  <2>4. IsWith(one, nodes, a)
    BY <1>4, <2>3, Added
  <2> QED BY <2>4 DEF IsWith
<1>9. right # 0 => one[right].tag = "concat"
  BY <1>0, <1>8
<1>10. /\ more \in Seq(Node) /\ Len(more) = Len(one) + 1 /\ WellFormed(more)
       /\ more[Len(one) + 1] = b
       /\ \A n \in 1 .. Len(one) : more[n] = one[n]
  <2>1. b.left <= Len(one) /\ b.right <= Len(one)
    BY <1>0, <1>7, <1>8
  <2>2. (b.tag = "str" => b.left = 0 /\ b.right = 0) /\ (b.right # 0 => one[b.right].tag = "concat")
    BY <1>7, <1>9
  <2>3. Fits(one, b)
    BY <2>1, <2>2 DEF Fits
  <2>4. IsWith(more, one, b)
    BY <1>5, <1>8, <2>3, Added
  <2> QED BY <2>4 DEF IsWith
<1>11. \A n \in 1 .. Len(nodes) : more[n] = nodes[n]
  BY <1>0, <1>8, <1>10
<1>12. \A n \in 0 .. Len(nodes) : TextIn(more)[n] = TextIn(nodes)[n]
  <2>1. \A n \in 1 .. Len(nodes) : SameTree(more[n], nodes[n])
    BY <1>11 DEF SameTree
  <2>2. Len(nodes) <= Len(more)
    BY <1>0, <1>8, <1>10
  <2> QED BY <1>10, <2>1, <2>2, TextKept
<1>13. TextIn(more)[Len(nodes) + 1] = s
  <2>1. more[Len(nodes) + 1] = a
    BY <1>0, <1>8, <1>10
  <2>2. PICK n : n = Len(nodes) + 1
    OBVIOUS
  <2>3. n \in 0 .. Len(more) /\ n # 0 /\ more[n].tag = "str"
    BY <1>0, <1>6, <1>8, <1>10, <2>1, <2>2
  <2>4. TextIn(more)[n] = more[n].text
    BY <1>10, <2>3, TextAt
  <2> QED BY <1>6, <2>1, <2>2, <2>4
<1>14. TextIn(more)[Len(nodes) + 2] = TextIn(more)[right] \o TextIn(more)[Len(nodes) + 1]
  <2>1. more[Len(nodes) + 2] = b
    BY <1>0, <1>8, <1>10
  <2>2. PICK n : n = Len(nodes) + 2
    OBVIOUS
  <2>3. n \in 0 .. Len(more) /\ n # 0 /\ more[n].tag = "concat"
    BY <1>0, <1>7, <1>8, <1>10, <2>1, <2>2
  <2>4. TextIn(more)[n] = TextIn(more)[more[n].right] \o TextIn(more)[more[n].left]
    BY <1>10, <2>3, TextAt
  <2> QED BY <1>7, <2>1, <2>2, <2>4
<1>15. /\ Len(more) = Len(nodes) + 2
       /\ more[Len(nodes) + 2].tag = "concat"
  BY <1>0, <1>7, <1>8, <1>10
<1>16. TextIn(more)[Len(nodes) + 2] = TextIn(nodes)[right] \o s
  BY <1>12, <1>13, <1>14
<1>17. Len(nodes) + 2 \in 1 .. Len(more) /\ Len(nodes) <= Len(more)
  BY <1>0, <1>15
<1> QED BY <1>10, <1>11, <1>12, <1>15, <1>16, <1>17 DEF Grown

LEMMA RootAdded ==
  ASSUME NEW nodes \in Seq(Node), WellFormed(nodes),
         NEW left \in 0 .. Len(nodes), NEW right \in 0 .. Len(nodes),
         right # 0 => nodes[right].tag = "concat",
         NEW more, more = nodes \o <<concat_t(left, right)>>
  PROVE  Grown(nodes, more, Len(nodes) + 1, TextIn(nodes)[right] \o TextIn(nodes)[left])
<1>0. Len(nodes) \in Nat
  BY LenProperties
<1>1. concat_t(left, right) \in Node
  BY <1>0, EmptySeq DEF concat_t, Node
<1>2. PICK b \in Node : b = concat_t(left, right)
  BY <1>1
<1>3. b.tag = "concat" /\ b.left = left /\ b.right = right
  BY <1>2 DEF concat_t
<1>4. more = Append(nodes, b)
  BY <1>2, AddTwo
<1>5. /\ more \in Seq(Node) /\ Len(more) = Len(nodes) + 1 /\ WellFormed(more)
      /\ more[Len(nodes) + 1] = b
      /\ \A n \in 1 .. Len(nodes) : more[n] = nodes[n]
  <2>1. b.left <= Len(nodes) /\ b.right <= Len(nodes)
    BY <1>0, <1>3
  <2>2. (b.tag = "str" => b.left = 0 /\ b.right = 0) /\ (b.right # 0 => nodes[b.right].tag = "concat")
    BY <1>3
  <2>3. Fits(nodes, b)
    BY <2>1, <2>2 DEF Fits
  <2>4. IsWith(more, nodes, b)
    BY <1>4, <2>3, Added
  <2> QED BY <2>4 DEF IsWith
<1>6. \A n \in 0 .. Len(nodes) : TextIn(more)[n] = TextIn(nodes)[n]
  <2>1. \A n \in 1 .. Len(nodes) : SameTree(more[n], nodes[n])
    BY <1>5 DEF SameTree
  <2>2. Len(nodes) <= Len(more)
    BY <1>0, <1>5
  <2> QED BY <1>5, <2>1, <2>2, TextKept
<1>7. TextIn(more)[Len(nodes) + 1] = TextIn(more)[right] \o TextIn(more)[left]
  <2>1. PICK n : n = Len(nodes) + 1
    OBVIOUS
  <2>2. n \in 0 .. Len(more) /\ n # 0 /\ more[n].tag = "concat"
    BY <1>0, <1>3, <1>5, <2>1
  <2>3. TextIn(more)[n] = TextIn(more)[more[n].right] \o TextIn(more)[more[n].left]
    BY <1>5, <2>2, TextAt
  <2> QED BY <1>3, <1>5, <2>1, <2>3
<1>8. TextIn(more)[Len(nodes) + 1] = TextIn(nodes)[right] \o TextIn(nodes)[left]
  BY <1>6, <1>7
<1>9. Len(nodes) + 1 \in 1 .. Len(more) /\ Len(nodes) <= Len(more)
  BY <1>0, <1>5
<1> QED BY <1>3, <1>5, <1>6, <1>8, <1>9 DEF Grown

-----------------------------------------------------------------------------
(***************************************************************************)
(* The inductive invariant.                                                *)
(***************************************************************************)
Sizes == \A x \in Ropes : rope[x].size = Len(TextOf(x))

\* What the node the walk is at still has to give.
Pending ==
  IF going_down THEN Len(Text[r])
  ELSE IF node[r].temp_left THEN Len(Text[node[r].right]) ELSE 0

\* L says where in the buffer the text below each node of the way back goes.
Placed(P, L) ==
  LET root == rope[walked.of].root
      text == TextOf(walked.of)
  IN /\ L[root] = 0
     /\ \A n \in P : n # root =>
          LET p == node[n].temp
          IN L[n] = L[p] + IF node[p].temp_left THEN Len(Text[node[p].right]) ELSE 0
     /\ \A n \in P :
          /\ L[n] + Len(Text[n]) <= Len(text)
          /\ \A i \in 1 .. Len(Text[n]) : text[L[n] + i] = Text[n][i]
     /\ walked.off = L[r] + Pending

Walking ==
  r # 0 =>
    /\ walked # Idle
    /\ \E P \in SUBSET (r .. rope[walked.of].root) : \E L \in [P -> Nat] :
         WayBack(P) /\ Placed(P, L)

IInv == TypeOK /\ Sizes /\ BufferHoldsSuffix /\ Walking

\* What a rope's root leads to is a text.
LEMMA TextOfRope ==
  ASSUME TypeOK, NEW x \in Ropes
  PROVE  /\ Len(node) \in Nat
         /\ rope[x].root \in 0 .. Len(node)
         /\ rope[x].size \in 0 .. MaxSize
         /\ TextOf(x) \in Seq(Chars)
<1>1. Len(node) \in Nat /\ node \in Seq(Node) /\ WellFormed(node)
  BY LenProperties DEF TypeOK
<1>2. rope[x].root \in 0 .. Len(node) /\ rope[x].size \in 0 .. MaxSize
  BY DEF TypeOK
<1>3. TextIn(node)[rope[x].root] \in Seq(Chars)
  BY <1>1, <1>2, TextAt
<1> QED BY <1>1, <1>2, <1>3 DEF TextOf, Text

\* Rope x takes the text t and every other keeps its own.
Takes(x, t) == \A y \in Ropes : TextOf(y)' = IF y = x THEN t ELSE TextOf(y)

\* A rope gets a new root while nobody walks.
LEMMA Rerooted ==
  ASSUME IInv, walked = Idle, UNCHANGED <<walked, r, going_down>>,
         NEW x \in Ropes, NEW k, NEW t, NEW z \in 0 .. MaxSize, z = Len(t),
         Grown(node, node', k, t),
         rope' = [rope EXCEPT ![x] = [root |-> k, size |-> z]]
  PROVE  IInv' /\ Takes(x, t)
<1> USE DEF Grown
<1>0. Len(node) \in Nat /\ Len(node') \in Nat
  BY LenProperties DEF IInv, TypeOK
<1>1. r = 0
  BY DEF IInv, Walking
<1>2. ASSUME NEW y \in Ropes
      PROVE  rope'[y] = IF y = x THEN [root |-> k, size |-> z] ELSE rope[y]
  BY DEF IInv, TypeOK
<1>3. rope' \in [Ropes -> [root : 0 .. Len(node'), size : 0 .. MaxSize]]
  <2>1. [root |-> k, size |-> z] \in [root : 0 .. Len(node'), size : 0 .. MaxSize]
    OBVIOUS
  <2>2. ASSUME NEW y \in Ropes
        PROVE  rope[y] \in [root : 0 .. Len(node'), size : 0 .. MaxSize]
    <3>1. rope[y] \in [root : 0 .. Len(node), size : 0 .. MaxSize]
      BY DEF IInv, TypeOK
    <3> QED BY <1>0, <3>1
  <2> QED BY <1>2, <2>1, <2>2 DEF IInv, TypeOK
<1>4. ASSUME NEW y \in Ropes, rope'[y].root # 0
      PROVE  node'[rope'[y].root].tag = "concat"
  <2>1. CASE y = x
    BY <1>2, <2>1
  <2>2. CASE y # x
    <3>1. rope'[y] = rope[y] /\ rope[y].root \in 1 .. Len(node)
      BY <1>0, <1>2, <1>4, <2>2, TextOfRope DEF IInv
    <3>2. node[rope[y].root].tag = "concat"
      BY <3>1 DEF IInv, TypeOK, Built
    <3> QED BY <3>1, <3>2
  <2> QED BY <2>1, <2>2
<1>5. TypeOK'
  <2>1. (\A y \in Built : node[rope[y].root].tag = "concat")'
    BY <1>4 DEF Built
  <2>2. (r \in 0 .. Len(node) /\ going_down \in BOOLEAN /\ (~going_down => r = 0 \/ node[r].tag = "concat"))'
    BY <1>0, <1>1 DEF IInv, TypeOK
  <2> QED BY <1>3, <2>1, <2>2 DEF TypeOK, Idle
<1>6. ASSUME NEW y \in Ropes
      PROVE  TextOf(y)' = IF y = x THEN t ELSE TextOf(y)
  <2>1. CASE y = x
    BY <1>2, <2>1 DEF TextOf, Text
  <2>2. CASE y # x
    BY <1>2, <2>2, TextOfRope DEF TextOf, Text, IInv
  <2> QED BY <2>1, <2>2
<1>7. Sizes'
  <2> SUFFICES ASSUME NEW y \in Ropes PROVE rope'[y].size = Len(TextOf(y)')
    BY DEF Sizes
  <2>1. CASE y = x
    BY <1>2, <1>6, <2>1
  <2>2. CASE y # x
    BY <1>2, <1>6, <2>2 DEF IInv, Sizes
  <2> QED BY <2>1, <2>2
<1>8. BufferHoldsSuffix' /\ Walking'
  BY <1>1 DEF BufferHoldsSuffix, Walking, Idle
<1> QED BY <1>5, <1>6, <1>7, <1>8 DEF IInv, Takes

LEMMA NULIsChar == NUL \in Chars
  BY DEF Chars

LEMMA PieceText ==
  /\ <<>> \in Seq(Chars)
  /\ \A s \in Pieces : s \in Seq(Chars) /\ Append(s, NUL) \in Seq(Chars)
<1>1. NUL \in Chars
  BY NULIsChar
<1>2. ASSUME NEW s \in Pieces PROVE s \in Seq(Chars)
  <2>1. s \in Seq(Chars \ {NUL, Fresh})
    BY RopeAssumption
  <2> QED BY <2>1, SeqMonotonic
<1> QED BY <1>1, <1>2, EmptySeq, AppendProperties

LEMMA ConstructBuilds ==
  ASSUME IInv, NEW x \in Ropes, NEW s \in Seq(Chars), Construct(x, s)
  PROVE  IInv' /\ Takes(x, s)
<1>1. node \in Seq(Node) /\ WellFormed(node) /\ Len(node) \in Nat
  BY LenProperties DEF IInv, TypeOK
<1>2. node' = node \o <<str_t(s), concat_t(Len(node) + 1, 0)>>
  BY DEF Construct, New
<1>3. 0 \in 0 .. Len(node)
  BY <1>1
<1>4. PICK k : k = Len(node) + 2
  OBVIOUS
<1>5. Grown(node, node', k, TextIn(node)[0] \o s)
  BY <1>1, <1>2, <1>3, <1>4, PieceAdded
<1>6. TextIn(node)[0] = <<>>
  BY <1>1, <1>3, TextAt
<1>7. <<>> \o s = s
  BY ConcatEmptySeq
<1>8. PICK z : z = Len(s)
  OBVIOUS
<1>9. z \in 0 .. MaxSize
  BY <1>8, LenProperties, RopeAssumption DEF Construct
<1>10. /\ walked = Idle /\ UNCHANGED <<walked, r, going_down>>
       /\ rope' = [rope EXCEPT ![x] = [root |-> k, size |-> z]]
  BY <1>4, <1>8 DEF Construct, Callable
<1>11. Grown(node, node', k, s)
  BY <1>5, <1>6, <1>7
<1> QED BY <1>8, <1>9, <1>10, <1>11, Rerooted

LEMMA AppendBuilds ==
  ASSUME IInv, NEW x \in Built, NEW s \in Seq(Chars), Append_(x, s)
  PROVE  IInv' /\ Takes(x, TextOf(x) \o s)
<1>1. node \in Seq(Node) /\ WellFormed(node) /\ Len(node) \in Nat
  BY LenProperties DEF IInv, TypeOK
<1>2. PICK root : root = rope[x].root
  OBVIOUS
<1>3. node' = node \o <<str_t(s), concat_t(Len(node) + 1, root)>>
  BY <1>2 DEF Append_, AppendNode, New
<1>4. /\ x \in Ropes /\ root \in 0 .. Len(node) /\ rope[x].size \in 0 .. MaxSize
      /\ TextOf(x) \in Seq(Chars) /\ node[root].tag = "concat"
  BY <1>2, TextOfRope DEF Built, IInv, TypeOK
<1>5. PICK k : k = Len(node) + 2
  OBVIOUS
<1>6. Grown(node, node', k, TextIn(node)[root] \o s)
  BY <1>1, <1>3, <1>4, <1>5, PieceAdded
<1>7. PICK t : t = TextOf(x) \o s
  OBVIOUS
<1>8. PICK z : z = rope[x].size + Len(s)
  OBVIOUS
<1>9. Len(s) \in Nat /\ Len(t) = Len(TextOf(x)) + Len(s)
  BY <1>4, <1>7, LenProperties, ConcatProperties
<1>10. z \in 0 .. MaxSize /\ z = Len(t)
  <2>1. rope[x].size = Len(TextOf(x))
    BY <1>4 DEF IInv, Sizes
  <2>2. z <= MaxSize
    BY <1>8 DEF Append_
  <2> QED BY <1>4, <1>8, <1>9, <2>1, <2>2, RopeAssumption
<1>11. Grown(node, node', k, t)
  BY <1>2, <1>6, <1>7 DEF TextOf, Text
<1>12. /\ walked = Idle /\ UNCHANGED <<walked, r, going_down>>
       /\ rope' = [rope EXCEPT ![x] = [root |-> k, size |-> z]]
  BY <1>5, <1>8 DEF Append_, AppendNode, Callable
<1> QED BY <1>4, <1>7, <1>10, <1>11, <1>12, Rerooted

LEMMA AppendRopeBuilds ==
  ASSUME IInv, NEW x \in Built, NEW q \in Built, AppendRope(x, q)
  PROVE  IInv' /\ Takes(x, TextOf(x) \o TextOf(q))
<1>1. node \in Seq(Node) /\ WellFormed(node) /\ Len(node) \in Nat
  BY LenProperties DEF IInv, TypeOK
<1>2. PICK root, other : root = rope[x].root /\ other = rope[q].root
  OBVIOUS
<1>3. node' = node \o <<concat_t(other, root)>>
  BY <1>2 DEF AppendRope, AppendRoot, New
<1>4. /\ x \in Ropes /\ root \in 0 .. Len(node) /\ rope[x].size \in 0 .. MaxSize
      /\ TextOf(x) \in Seq(Chars) /\ node[root].tag = "concat"
  BY <1>2, TextOfRope DEF Built, IInv, TypeOK
<1>5. /\ q \in Ropes /\ other \in 0 .. Len(node) /\ rope[q].size \in 0 .. MaxSize
      /\ TextOf(q) \in Seq(Chars)
  BY <1>2, TextOfRope DEF Built, IInv
<1>6. PICK k : k = Len(node) + 1
  OBVIOUS
<1>7. Grown(node, node', k, TextIn(node)[root] \o TextIn(node)[other])
  BY <1>1, <1>3, <1>4, <1>5, <1>6, RootAdded
<1>8. PICK t : t = TextOf(x) \o TextOf(q)
  OBVIOUS
<1>9. PICK z : z = rope[x].size + rope[q].size
  OBVIOUS
<1>10. z \in 0 .. MaxSize /\ z = Len(t)
  <2>1. rope[x].size = Len(TextOf(x)) /\ rope[q].size = Len(TextOf(q))
    BY <1>4, <1>5 DEF IInv, Sizes
  <2>2. z <= MaxSize
    BY <1>9 DEF AppendRope
  <2>3. Len(t) = Len(TextOf(x)) + Len(TextOf(q))
    BY <1>4, <1>5, <1>8, ConcatProperties
  <2> QED BY <1>4, <1>5, <1>9, <2>1, <2>2, <2>3, RopeAssumption
<1>11. Grown(node, node', k, t)
  BY <1>2, <1>7, <1>8 DEF TextOf, Text
<1>12. /\ walked = Idle /\ UNCHANGED <<walked, r, going_down>>
       /\ rope' = [rope EXCEPT ![x] = [root |-> k, size |-> z]]
  BY <1>6, <1>9 DEF AppendRope, AppendRoot, Callable
<1> QED BY <1>4, <1>8, <1>10, <1>11, <1>12, Rerooted

LEMMA CopyBuilds ==
  ASSUME IInv, NEW x \in Ropes, NEW q \in Built, Copy(x, q)
  PROVE  IInv' /\ Takes(x, TextOf(q))
<1>1. node \in Seq(Node) /\ WellFormed(node) /\ Len(node) \in Nat /\ node' = node
  BY LenProperties DEF IInv, TypeOK, Copy
<1>2. PICK k, z : k = rope[q].root /\ z = rope[q].size
  OBVIOUS
<1>3. /\ q \in Ropes /\ k \in 1 .. Len(node) /\ z \in 0 .. MaxSize
      /\ node[k].tag = "concat" /\ z = Len(TextIn(node)[k])
      /\ TextIn(node)[k] = TextOf(q)
  BY <1>1, <1>2, TextOfRope DEF Built, IInv, TypeOK, Sizes, TextOf, Text
<1>4. rope[q] = [root |-> k, size |-> z]
  BY <1>2, <1>3 DEF IInv, TypeOK
<1>5. /\ walked = Idle /\ UNCHANGED <<walked, r, going_down>>
      /\ rope' = [rope EXCEPT ![x] = [root |-> k, size |-> z]]
  BY <1>4 DEF Copy, Callable
<1>6. PICK t : t = TextOf(q)
  OBVIOUS
<1>7. Grown(node, node', k, t)
  BY <1>1, <1>3, <1>6 DEF Grown
<1> QED BY <1>3, <1>5, <1>6, <1>7, Rerooted

-----------------------------------------------------------------------------
(***************************************************************************)
(* The walk.                                                               *)
(***************************************************************************)
\* The nodes may change their marks; no rope changes.
LEMMA TextsStay ==
  ASSUME IInv, rope' = rope, node' \in Seq(Node), WellFormed(node'), Len(node') = Len(node),
         \A n \in 1 .. Len(node) : SameTree(node'[n], node[n])
  PROVE  /\ \A n \in 0 .. Len(node) : Text'[n] = Text[n]
         /\ \A x \in Ropes : TextOf(x)' = TextOf(x)
         /\ Sizes'
         /\ \A x \in Ropes : rope'[x].root # 0 => node'[rope'[x].root].tag = "concat"
<1>1. node \in Seq(Node) /\ WellFormed(node) /\ Len(node) \in Nat
  BY LenProperties DEF IInv, TypeOK
<1>2. PICK more : more = node'
  OBVIOUS
<1>3. Len(node) <= Len(more)
  BY <1>1, <1>2
<1>4. \A n \in 0 .. Len(node) : TextIn(more)[n] = TextIn(node)[n]
  BY <1>1, <1>2, <1>3, TextKept
<1>5. \A n \in 0 .. Len(node) : Text'[n] = Text[n]
  BY <1>2, <1>4 DEF Text
<1>6. ASSUME NEW x \in Ropes PROVE TextOf(x)' = TextOf(x)
  <2>1. rope[x].root \in 0 .. Len(node)
    BY TextOfRope DEF IInv
  <2> QED BY <1>5, <2>1 DEF TextOf
<1>7. Sizes'
  BY <1>6 DEF Sizes, IInv
<1>8. ASSUME NEW x \in Ropes, rope'[x].root # 0
      PROVE  node'[rope'[x].root].tag = "concat"
  <2>1. rope[x].root \in 1 .. Len(node)
    BY <1>8, TextOfRope DEF IInv
  <2>2. node[rope[x].root].tag = "concat"
    BY <1>8 DEF IInv, TypeOK, Built
  <2> QED BY <2>1, <2>2 DEF SameTree
<1> QED BY <1>5, <1>6, <1>7, <1>8

LEMMA CStrKeeps ==
  ASSUME IInv, NEW x \in Built, CStr(x)
  PROVE  IInv' /\ \A y \in Ropes : TextOf(y)' = TextOf(y)
<1>1. node \in Seq(Node) /\ WellFormed(node) /\ Len(node) \in Nat
  BY LenProperties DEF IInv, TypeOK
<1>2. PICK root : root = rope[x].root
  OBVIOUS
<1>3. /\ x \in Ropes /\ root \in 1 .. Len(node) /\ node[root].tag = "concat"
      /\ rope[x].size \in 0 .. MaxSize /\ TextOf(x) \in Seq(Chars)
  BY <1>2, TextOfRope DEF Built, IInv, TypeOK
<1>4. node' = [node EXCEPT ![root].temp = 0] /\ r' = root /\ rope' = rope /\ going_down' = TRUE
  BY <1>2 DEF CStr
<1>5. ASSUME NEW n \in 1 .. Len(node)
      PROVE  node'[n] \in Node /\ SameTree(node'[n], node[n])
  <2>0. node[n] \in Node /\ DOMAIN node = 1 .. Len(node)
    BY <1>1, ElementOfSeq, LenProperties
  <2>1. CASE n = root
    <3>1. PICK c : c = [node[n] EXCEPT !.temp = 0]
      OBVIOUS
    <3>2. node'[n] = c
      BY <1>4, <2>0, <2>1, <3>1
    <3>3. c \in Node /\ SameTree(c, node[n])
      BY <2>0, <3>1, MarkedTemp
    <3> QED BY <3>2, <3>3
  <2>2. CASE n # root
    <3>1. node'[n] = node[n]
      BY <1>4, <2>0, <2>2
    <3> QED BY <2>0, <3>1 DEF SameTree
  <2> QED BY <2>1, <2>2
<1>6. node' = [n \in DOMAIN node |-> node'[n]]
  BY <1>4
<1>7. node' \in Seq(Node) /\ Len(node') = Len(node) /\ WellFormed(node')
  BY <1>1, <1>5, <1>6, SameTrees
<1>8. /\ \A n \in 0 .. Len(node) : Text'[n] = Text[n]
      /\ \A y \in Ropes : TextOf(y)' = TextOf(y)
      /\ Sizes'
      /\ \A y \in Ropes : rope'[y].root # 0 => node'[rope'[y].root].tag = "concat"
  BY <1>4, <1>5, <1>7, TextsStay
<1>9. PICK n : n = rope[x].size
  OBVIOUS
<1>10. n \in Nat /\ n = Len(TextOf(x))
  BY <1>3, <1>9, RopeAssumption DEF IInv, Sizes
<1>11. walked' = [of |-> x, size |-> n, off |-> n, buffer |-> [i \in 1 .. n + 1 |-> Fresh]]
  BY <1>9 DEF CStr
<1>12. /\ walked'.of = x /\ walked'.size = n /\ walked'.off = n
       /\ walked'.buffer = [i \in 1 .. n + 1 |-> Fresh]
  BY <1>11
<1>13. /\ [i \in 1 .. n + 1 |-> Fresh] \in Seq(Chars \cup {Fresh})
       /\ Len([i \in 1 .. n + 1 |-> Fresh]) = n + 1
  BY <1>10
<1>14. TypeOK'
  <2>1. (\A y \in Built : node[rope[y].root].tag = "concat")'
    BY <1>8 DEF Built
  <2>2. rope' \in [Ropes -> [root : 0 .. Len(node'), size : 0 .. MaxSize]]
    BY <1>4, <1>7 DEF IInv, TypeOK
  <2>3. /\ walked' \in [of : Ropes, size : Nat, off : Int, buffer : Seq(Chars \cup {Fresh})]
        /\ Len(walked'.buffer) = walked'.size + 1
    BY <1>3, <1>10, <1>11, <1>12, <1>13
  <2>4. r' \in 0 .. Len(node') /\ going_down' \in BOOLEAN /\ going_down'
    BY <1>3, <1>4, <1>7
  <2> QED BY <1>7, <2>1, <2>2, <2>3, <2>4 DEF TypeOK
<1>15. walked' # Idle
  <2>1. Len(walked'.buffer) = n + 1 /\ Len(Idle.buffer) = 0
    BY <1>12, <1>13 DEF Idle
  <2> QED BY <1>10, <2>1
<1>16. BufferHoldsSuffix'
  <2>1. TextOf(walked.of)' = TextOf(x)
    BY <1>3, <1>8, <1>12 DEF TextOf
  <2>2. walked'.size = Len(TextOf(x)) /\ walked'.off \in 0 .. walked'.size /\ r' # 0
    BY <1>3, <1>4, <1>10, <1>12
  <2>3. \A i \in walked'.off + 1 .. walked'.size : FALSE
    BY <1>10, <1>12
  <2> QED BY <1>12, <2>1, <2>2, <2>3 DEF BufferHoldsSuffix
<1>17. Walking'
  <2> DEFINE P == {root}
             L == [m \in P |-> 0]
  <2>0. rope'[walked'.of].root = root
    BY <1>2, <1>4, <1>12
  <2>1. P \in SUBSET (r' .. rope'[walked'.of].root) /\ L \in [P -> Nat]
    BY <1>3, <1>4, <2>0
  <2>2. node'[root].temp = 0
    <3>1. node[root] \in Node /\ DOMAIN node = 1 .. Len(node)
      BY <1>1, <1>3, ElementOfSeq, LenProperties
    <3>2. node'[root] = [node[root] EXCEPT !.temp = 0]
      BY <1>3, <1>4, <3>1
    <3> QED BY <3>1, <3>2 DEF Node
  <2>3. WayBack(P)'
    BY <1>4, <2>0, <2>2 DEF WayBack
  <2>4. L[root] = 0
    OBVIOUS
  <2>5. Text'[root] = TextOf(x) /\ TextOf(walked.of)' = TextOf(x)
    <3>1. Text'[root] = Text[root] /\ Text[root] = TextOf(x)
      BY <1>2, <1>3, <1>8 DEF TextOf
    <3> QED BY <2>0, <3>1 DEF TextOf
  <2>6. Pending' = Len(TextOf(x))
    BY <1>4, <2>5 DEF Pending
  <2>7. \A m \in P : m = root
    OBVIOUS
  <2>8. \A i \in 1 .. Len(TextOf(x)) : 0 + i = i
    BY <1>10
  <2> HIDE DEF P, L
  <2>9. Placed(P, L)'
    BY <1>4, <1>10, <1>12, <2>0, <2>4, <2>5, <2>6, <2>7, <2>8 DEF Placed
  <2> QED BY <1>15, <2>1, <2>3, <2>9 DEF Walking
<1> QED BY <1>8, <1>14, <1>16, <1>17 DEF IInv

\* The way back, picked apart: root is the root of the rope walked, N the
\* number of nodes.
LEMMA OnTheWay ==
  ASSUME IInv, r # 0
  PROVE  /\ node \in Seq(Node) /\ WellFormed(node) /\ Len(node) \in Nat
         /\ walked # Idle /\ walked.of \in Ropes
         /\ walked \in [of : Ropes, size : Nat, off : Int, buffer : Seq(Chars \cup {Fresh})]
         /\ rope[walked.of].root \in 1 .. Len(node) /\ r \in 1 .. rope[walked.of].root
         /\ node[r].left \in 0 .. r - 1 /\ node[r].right \in 0 .. r - 1
         /\ \A n \in 0 .. Len(node) : Text[n] \in Seq(Chars) /\ Len(Text[n]) \in Nat
         /\ TextOf(walked.of) \in Seq(Chars) /\ Len(TextOf(walked.of)) \in Nat
<1>1. node \in Seq(Node) /\ WellFormed(node) /\ Len(node) \in Nat
  BY LenProperties DEF IInv, TypeOK
<1>2. /\ walked # Idle /\ walked.of \in Ropes
      /\ walked \in [of : Ropes, size : Nat, off : Int, buffer : Seq(Chars \cup {Fresh})]
  BY DEF IInv, TypeOK, Walking
<1>3. rope[walked.of].root \in 0 .. Len(node) /\ TextOf(walked.of) \in Seq(Chars)
  BY <1>2, TextOfRope DEF IInv
<1>4. r \in 1 .. Len(node)
  BY <1>1 DEF IInv, TypeOK
<1>5. r \in r .. rope[walked.of].root
  BY DEF IInv, Walking, WayBack
<1>6. rope[walked.of].root \in 1 .. Len(node) /\ r \in 1 .. rope[walked.of].root
  BY <1>1, <1>3, <1>4, <1>5
<1>7. node[r].left \in 0 .. r - 1 /\ node[r].right \in 0 .. r - 1
  BY <1>1, <1>4, NodeShape
<1>8. ASSUME NEW n \in 0 .. Len(node) PROVE Text[n] \in Seq(Chars) /\ Len(Text[n]) \in Nat
  BY <1>1, TextAt, LenProperties DEF Text
<1>9. Len(TextOf(walked.of)) \in Nat
  BY <1>3, LenProperties
<1> QED BY <1>1, <1>2, <1>3, <1>6, <1>7, <1>8, <1>9

\* Where the text below the child goes.
Skipped(left) == IF left THEN Len(Text[node[r].right]) ELSE 0

LEMMA ChildText ==
  ASSUME IInv, r # 0, node[r].tag = "concat", NEW left \in BOOLEAN, NEW child,
         child # 0, child = IF left THEN node[r].left ELSE node[r].right
  PROVE  /\ child \in 1 .. r - 1 /\ Skipped(left) \in Nat
         /\ Skipped(left) + Len(Text[child]) <= Len(Text[r])
         /\ \A i \in 1 .. Len(Text[child]) : Text[r][Skipped(left) + i] = Text[child][i]
<1>1. /\ node \in Seq(Node) /\ WellFormed(node) /\ Len(node) \in Nat
      /\ node[r].left \in 0 .. r - 1 /\ node[r].right \in 0 .. r - 1
      /\ r \in 1 .. Len(node)
      /\ \A n \in 0 .. Len(node) : Text[n] \in Seq(Chars) /\ Len(Text[n]) \in Nat
  BY OnTheWay
<1>2. PICK a, b : a = Text[node[r].right] /\ b = Text[node[r].left]
  OBVIOUS
<1>3. Text[r] = a \o b
  <2>1. r \in 0 .. Len(node)
    BY <1>1
  <2>2. TextIn(node)[r] = TextIn(node)[node[r].right] \o TextIn(node)[node[r].left]
    BY <1>1, <2>1, TextAt
  <2> QED BY <1>2, <2>2 DEF Text
<1>4. a \in Seq(Chars) /\ b \in Seq(Chars) /\ Len(a) \in Nat /\ Len(b) \in Nat
  BY <1>1, <1>2
<1>5. /\ Len(a \o b) = Len(a) + Len(b)
      /\ \A i \in 1 .. Len(a) + Len(b) : (a \o b)[i] = IF i <= Len(a) THEN a[i] ELSE b[i - Len(a)]
  BY <1>4, ConcatProperties
<1>6. CASE left
  <2>1. Skipped(left) = Len(a) /\ Text[child] = b
    BY <1>2, <1>6 DEF Skipped
  <2>2. ASSUME NEW i \in 1 .. Len(b) PROVE (a \o b)[Len(a) + i] = b[i]
    <3>1. Len(a) + i \in 1 .. Len(a) + Len(b) /\ ~(Len(a) + i <= Len(a)) /\ Len(a) + i - Len(a) = i
      BY <1>4
    <3> QED BY <1>5, <3>1
  <2>3. child \in 1 .. r - 1
    BY <1>1, <1>6
  <2> QED BY <1>3, <1>4, <1>5, <2>1, <2>2, <2>3
<1>7. CASE ~left
  <2>1. Skipped(left) = 0 /\ Text[child] = a
    BY <1>2, <1>7 DEF Skipped
  <2>2. ASSUME NEW i \in 1 .. Len(a) PROVE (a \o b)[0 + i] = a[i]
    <3>1. 0 + i \in 1 .. Len(a) + Len(b) /\ 0 + i <= Len(a) /\ 0 + i = i
      BY <1>4
    <3> QED BY <1>5, <3>1
  <2>3. child \in 1 .. r - 1
    BY <1>1, <1>7
  <2> QED BY <1>3, <1>4, <1>5, <2>1, <2>2, <2>3
<1> QED BY <1>6, <1>7

LEMMA EnterKeeps ==
  ASSUME IInv, r # 0, node[r].tag = "concat", NEW left \in BOOLEAN, NEW child,
         child # 0, child = IF left THEN node[r].left ELSE node[r].right,
         Enter(child, left), rope' = rope, walked' = walked,
         Pending = Skipped(left) + Len(Text[child])
  PROVE  IInv' /\ \A y \in Ropes : TextOf(y)' = TextOf(y)
<1>1. /\ node \in Seq(Node) /\ WellFormed(node) /\ Len(node) \in Nat
      /\ walked # Idle /\ walked.of \in Ropes
      /\ rope[walked.of].root \in 1 .. Len(node) /\ r \in 1 .. rope[walked.of].root
      /\ node[r].left \in 0 .. r - 1 /\ node[r].right \in 0 .. r - 1
      /\ \A n \in 0 .. Len(node) : Text[n] \in Seq(Chars) /\ Len(Text[n]) \in Nat
      /\ Len(TextOf(walked.of)) \in Nat
  BY OnTheWay
<1>2. PICK root : root = rope[walked.of].root
  OBVIOUS
<1>3. /\ child \in 1 .. r - 1 /\ Skipped(left) \in Nat
      /\ Skipped(left) + Len(Text[child]) <= Len(Text[r])
      /\ \A i \in 1 .. Len(Text[child]) : Text[r][Skipped(left) + i] = Text[child][i]
  BY ChildText
<1>4. /\ node' = [node EXCEPT ![r].temp_left = left, ![child].temp = r]
      /\ going_down' = TRUE /\ r' = child
  BY DEF Enter
<1>n. Len(node) \in Nat /\ root \in 1 .. Len(node) /\ r \in 1 .. root /\ child \in 1 .. r - 1
  BY <1>1, <1>2, <1>3
<1>5. child \in 1 .. Len(node) /\ r \in 1 .. Len(node) /\ r \in Nat
  BY <1>n
<1>6. /\ node' \in Seq(Node) /\ Len(node') = Len(node) /\ WellFormed(node')
      /\ \A n \in 1 .. Len(node) : SameTree(node'[n], node[n])
      /\ \A n \in 1 .. Len(node) :
           /\ node'[n].temp = IF n = child THEN r ELSE node[n].temp
           /\ node'[n].temp_left = IF n = r THEN left ELSE node[n].temp_left
  <2>1. MarkedAs(node', node, r, left, child, r)
    BY <1>1, <1>4, <1>5, Marked
  <2> QED BY <2>1 DEF MarkedAs
<1>7. /\ \A n \in 0 .. Len(node) : Text'[n] = Text[n]
      /\ \A y \in Ropes : TextOf(y)' = TextOf(y)
      /\ Sizes'
      /\ \A y \in Ropes : rope'[y].root # 0 => node'[rope'[y].root].tag = "concat"
  BY <1>6, TextsStay
<1>8. TypeOK'
  <2>1. (\A y \in Built : node[rope[y].root].tag = "concat")'
    BY <1>7 DEF Built
  <2>2. rope' \in [Ropes -> [root : 0 .. Len(node'), size : 0 .. MaxSize]]
    BY <1>6 DEF IInv, TypeOK
  <2>3. r' \in 0 .. Len(node') /\ going_down' \in BOOLEAN /\ going_down'
    BY <1>4, <1>5, <1>6
  <2>4. \/ walked' = Idle
        \/ /\ walked' \in [of : Ropes, size : Nat, off : Int, buffer : Seq(Chars \cup {Fresh})]
           /\ Len(walked'.buffer) = walked'.size + 1
    BY DEF IInv, TypeOK
  <2> QED BY <1>6, <2>1, <2>2, <2>3, <2>4 DEF TypeOK, Idle
<1>9. TextOf(walked.of)' = TextOf(walked.of)
  BY <1>1, <1>7 DEF TextOf
<1>10. BufferHoldsSuffix'
  <2>1. r' # 0
    BY <1>3, <1>4
  <2> QED BY <1>9, <2>1 DEF BufferHoldsSuffix, IInv, Idle
<1>0. PICK P \in SUBSET (r .. root) : \E L \in [P -> Nat] : WayBack(P) /\ Placed(P, L)
  BY <1>2 DEF IInv, Walking
<1>11. PICK L \in [P -> Nat] : WayBack(P) /\ Placed(P, L)
  BY <1>0
<1>12. r \in P /\ root \in P
  BY <1>2, <1>11 DEF WayBack
<1>13. ASSUME NEW n \in P
       PROVE  /\ n \in 1 .. Len(node) /\ n >= r /\ n # child /\ n <= root
              /\ node'[n].temp = node[n].temp
  <2>1. n \in 1 .. Len(node) /\ n >= r /\ n # child /\ n <= root
    BY <1>n
  <2> QED BY <1>6, <2>1
<1>14. ASSUME NEW n \in P, n # root
       PROVE  LET p == node[n].temp
              IN /\ p \in P /\ p > n /\ p # r
                 /\ node'[p].temp_left = node[p].temp_left
                 /\ n = IF node[p].temp_left THEN node[p].left ELSE node[p].right
                 /\ L[n] = L[p] + IF node[p].temp_left THEN Len(Text[node[p].right]) ELSE 0
  <2>1. PICK p : p = node[n].temp
    OBVIOUS
  <2>2. p \in P /\ p > n /\ n = IF node[p].temp_left THEN node[p].left ELSE node[p].right
    BY <1>2, <1>11, <1>14, <2>1 DEF WayBack
  <2>3. p # r
    BY <1>5, <1>13, <2>2
  <2>4. node'[p].temp_left = node[p].temp_left
    BY <1>6, <1>13, <2>2, <2>3
  <2>5. L[n] = L[p] + IF node[p].temp_left THEN Len(Text[node[p].right]) ELSE 0
    BY <1>2, <1>11, <1>14, <2>1 DEF Placed
  <2> QED BY <2>1, <2>2, <2>3, <2>4, <2>5
<1>a. PICK sk \in Nat : sk = Skipped(left)
  BY <1>3
<1>b. PICK Q : Q = P \cup {child}
  OBVIOUS
<1>c. PICK M : M = [n \in Q |-> IF n = child THEN L[r] + sk ELSE L[n]]
  OBVIOUS
<1>15. Q \in SUBSET (r' .. rope'[walked'.of].root)
  <2>1. ASSUME NEW n \in Q PROVE n \in child .. root
    <3>1. CASE n = child
      BY <1>n, <3>1
    <3>2. CASE n \in P
      BY <1>n, <3>2
    <3> QED BY <1>b, <3>1, <3>2
  <2> QED BY <1>2, <1>4, <2>1
<1>16. M \in [Q -> Nat]
  <2>1. PICK l \in Nat : l = L[r] + sk
    BY <1>12
  <2>2. \A n \in P : L[n] \in Nat
    OBVIOUS
  <2> QED BY <1>b, <1>c, <2>1, <2>2
<1>17. M[child] = L[r] + sk /\ \A n \in P : M[n] = L[n]
  BY <1>13, <1>b, <1>c
<1>18. child \in Q /\ r \in Q /\ root \in Q /\ P \subseteq Q /\ \A n \in Q : n = child \/ n \in P
  BY <1>12, <1>b
<1>19. child # root /\ child < r
  BY <1>3, <1>5, <1>12, <1>13
<1>20. /\ node'[child].temp = r /\ node'[r].temp_left = left
       /\ node'[r].left = node[r].left /\ node'[r].right = node[r].right
  BY <1>5, <1>6 DEF SameTree
<1>21. WayBack(Q)'
  <2>1. rope'[walked'.of].root = root
    BY <1>2
  <2>2. ASSUME NEW n \in Q, n = root PROVE node'[n].temp = 0
    <3>1. node[root].temp = 0
      BY <1>2, <1>11, <1>12 DEF WayBack
    <3> QED BY <1>12, <1>13, <2>2, <3>1
  <2>3. ASSUME NEW n \in Q, n # root
        PROVE  LET p == node'[n].temp
               IN p \in Q /\ p > n /\ n = IF node'[p].temp_left THEN node'[p].left ELSE node'[p].right
    <3>1. CASE n = child
      BY <1>5, <1>18, <1>19, <1>20, <3>1
    <3>2. CASE n \in P
      <4>1. PICK p : p = node[n].temp
        OBVIOUS
      <4>2. /\ p \in P /\ p > n /\ node'[p].temp_left = node[p].temp_left
            /\ n = IF node[p].temp_left THEN node[p].left ELSE node[p].right
        BY <1>14, <2>3, <3>2, <4>1
      <4>3. node'[p].left = node[p].left /\ node'[p].right = node[p].right
        BY <1>6, <1>13, <4>2 DEF SameTree
      <4>4. p = node'[n].temp
        BY <1>13, <3>2, <4>1
      <4>5. p \in Q
        BY <1>18, <4>2
      <4>6. n = IF node'[p].temp_left THEN node'[p].left ELSE node'[p].right
        BY <4>2, <4>3
      <4> QED BY <4>2, <4>4, <4>5, <4>6
    <3> QED BY <1>18, <3>1, <3>2
  <2>4. {r', root} \subseteq Q
    BY <1>4, <1>18
  <2> QED BY <2>1, <2>2, <2>3, <2>4 DEF WayBack
<1>22. Placed(Q, M)'
  <2>1. PICK text : text = TextOf(walked.of)
    OBVIOUS
  <2>2. rope'[walked'.of].root = root /\ TextOf(walked.of)' = text
    BY <1>2, <1>9, <2>1
  <2>3. L[root] = 0 /\ walked.off = L[r] + Pending
    BY <1>2, <1>11 DEF Placed
  <2>4. M[root] = 0
    BY <1>12, <1>17, <2>3
  <2>5. ASSUME NEW n \in Q, n # root
        PROVE  LET p == node'[n].temp
               IN M[n] = M[p] + IF node'[p].temp_left THEN Len(Text'[node'[p].right]) ELSE 0
    <3>1. CASE n = child
      <4>1. node[r].right \in 0 .. Len(node)
        BY <1>1, <1>5
      <4>2. sk = IF node'[r].temp_left THEN Len(Text'[node'[r].right]) ELSE 0
        BY <1>7, <1>20, <1>a, <4>1 DEF Skipped
      <4> QED BY <1>12, <1>17, <1>20, <3>1, <4>2
    <3>2. CASE n \in P
      <4>1. PICK p : p = node[n].temp
        OBVIOUS
      <4>2. /\ p \in P /\ p > n /\ node'[p].temp_left = node[p].temp_left
            /\ L[n] = L[p] + IF node[p].temp_left THEN Len(Text[node[p].right]) ELSE 0
        BY <1>14, <2>5, <3>2, <4>1
      <4>3. node'[p].right = node[p].right /\ p \in 1 .. Len(node)
        BY <1>6, <1>13, <4>2 DEF SameTree
      <4>4. node[p].right \in 0 .. Len(node)
        BY <1>1, <4>3, NodeShape
      <4>5. Text'[node'[p].right] = Text[node[p].right]
        BY <1>7, <4>3, <4>4
      <4>6. p = node'[n].temp
        BY <1>13, <3>2, <4>1
      <4> QED BY <1>17, <3>2, <4>2, <4>5, <4>6
    <3> QED BY <1>18, <3>1, <3>2
  <2>6. ASSUME NEW n \in P
        PROVE  /\ L[n] + Len(Text[n]) <= Len(text)
               /\ \A i \in 1 .. Len(Text[n]) : text[L[n] + i] = Text[n][i]
    BY <1>2, <1>11, <2>1 DEF Placed
  <2>7. ASSUME NEW n \in Q
        PROVE  /\ M[n] + Len(Text'[n]) <= Len(text)
               /\ \A i \in 1 .. Len(Text'[n]) : text[M[n] + i] = Text'[n][i]
    <3>1. CASE n = child
      <4>0. /\ sk + Len(Text[child]) <= Len(Text[r])
            /\ \A i \in 1 .. Len(Text[child]) : Text[r][sk + i] = Text[child][i]
        BY <1>3, <1>a
      <4>1. Text'[n] = Text[child] /\ Len(Text[child]) \in Nat /\ Len(Text[r]) \in Nat
        <5>1. child \in 0 .. Len(node) /\ r \in 0 .. Len(node)
          BY <1>n, <1>5
        <5>2. Len(Text[child]) \in Nat /\ Len(Text[r]) \in Nat
          BY <1>1, <5>1
        <5> QED BY <1>7, <3>1, <5>1, <5>2
      <4>2. L[r] \in Nat /\ M[n] = L[r] + sk
        BY <1>12, <1>17, <3>1
      <4>3. L[r] + Len(Text[r]) <= Len(text)
        BY <1>12, <2>6
      <4>4. M[n] + Len(Text[child]) <= Len(text)
        <5>1. PICK u, v, w : u = Len(Text[child]) /\ v = Len(Text[r]) /\ w = Len(text)
          OBVIOUS
        <5>2. u \in Nat /\ v \in Nat /\ w \in Nat /\ sk + u <= v /\ L[r] + v <= w
          BY <1>1, <2>1, <4>0, <4>1, <4>3, <5>1
        <5>3. L[r] + sk + u <= w
          BY <4>2, <5>2
        <5> QED BY <4>2, <5>1, <5>3
      <4>5. ASSUME NEW i \in 1 .. Len(Text[child]) PROVE text[M[n] + i] = Text[child][i]
        <5>1. sk + i \in 1 .. Len(Text[r])
          <6>1. PICK u, v : u = Len(Text[child]) /\ v = Len(Text[r])
            OBVIOUS
          <6>2. u \in Nat /\ v \in Nat /\ sk + u <= v /\ i \in 1 .. u
            BY <4>0, <4>1, <6>1
          <6>3. sk + i \in 1 .. v
            BY <6>2
          <6> QED BY <6>1, <6>3
        <5>2. text[L[r] + (sk + i)] = Text[r][sk + i]
          BY <1>12, <2>6, <5>1
        <5>3. L[r] + (sk + i) = M[n] + i
          BY <4>1, <4>2
        <5> QED BY <4>0, <5>2, <5>3
      <4> QED BY <4>1, <4>4, <4>5
    <3>2. CASE n \in P
      <4>0. n \in 0 .. Len(node)
        <5>1. n \in 1 .. Len(node)
          BY <1>13, <3>2
        <5> QED BY <1>1, <5>1
      <4>1. Text'[n] = Text[n] /\ M[n] = L[n]
        BY <1>7, <1>17, <3>2, <4>0
      <4> QED BY <2>6, <3>2, <4>1
    <3> QED BY <1>18, <3>1, <3>2
  <2>8. walked'.off = M[r'] + Pending'
    <3>0. child \in 0 .. Len(node)
      BY <1>n, <1>5
    <3>1. Pending' = Len(Text[child])
      <4>1. Pending' = Len(Text'[child])
        BY <1>4 DEF Pending
      <4> QED BY <1>7, <3>0, <4>1
    <3>2. Len(Text[child]) \in Nat /\ L[r] \in Nat
      BY <1>1, <1>12, <3>0
    <3>3. Pending = sk + Len(Text[child])
      BY <1>a
    <3> QED BY <1>4, <1>17, <2>3, <3>1, <3>2, <3>3
  <2> QED BY <2>2, <2>4, <2>5, <2>7, <2>8 DEF Placed
<1>23. Walking'
  BY <1>1, <1>15, <1>16, <1>21, <1>22 DEF Walking, Idle
<1> QED BY <1>7, <1>8, <1>10, <1>23 DEF IInv

\* Back up with the buffer filled as far down as the node just left begins.
LEMMA LeaveKeeps ==
  ASSUME IInv, r # 0, Leave, node' = node, rope' = rope,
         NEW P \in SUBSET (r .. rope[walked.of].root), NEW L \in [P -> Nat],
         WayBack(P), Placed(P, L),
         walked' \in [of : Ropes, size : Nat, off : Int, buffer : Seq(Chars \cup {Fresh})],
         Len(walked'.buffer) = walked'.size + 1,
         walked'.of = walked.of, walked'.size = walked.size, walked'.off = L[r],
         \A i \in L[r] + 1 .. walked.size : walked'.buffer[i] = TextOf(walked.of)[i]
  PROVE  IInv' /\ \A y \in Ropes : TextOf(y)' = TextOf(y)
<1>1. /\ node \in Seq(Node) /\ WellFormed(node) /\ Len(node) \in Nat
      /\ walked # Idle /\ walked.of \in Ropes
      /\ rope[walked.of].root \in 1 .. Len(node) /\ r \in 1 .. rope[walked.of].root
      /\ \A n \in 0 .. Len(node) : Text[n] \in Seq(Chars) /\ Len(Text[n]) \in Nat
      /\ Len(TextOf(walked.of)) \in Nat
  BY OnTheWay
<1>2. PICK root : root = rope[walked.of].root
  OBVIOUS
<1>3. \A n \in 1 .. Len(node) : SameTree(node'[n], node[n])
  BY DEF SameTree
<1>4. /\ \A n \in 0 .. Len(node) : Text'[n] = Text[n]
      /\ \A y \in Ropes : TextOf(y)' = TextOf(y)
      /\ Sizes'
      /\ \A y \in Ropes : rope'[y].root # 0 => node'[rope'[y].root].tag = "concat"
  BY <1>1, <1>3, TextsStay
<1>5. r' = node[r].temp /\ going_down' = FALSE
  BY DEF Leave
<1>6. r \in P /\ root \in P /\ L[r] \in Nat
  BY <1>2 DEF WayBack
<1>7. TextOf(walked.of)' = TextOf(walked.of)
  BY <1>1, <1>4 DEF TextOf
<1>8. walked' # Idle
  <2>1. Len(Idle.buffer) = 0
    BY DEF Idle
  <2> QED BY <2>1
<1>9. /\ L[root] = 0 /\ walked.size = Len(TextOf(walked.of))
      /\ L[r] + Len(Text[r]) <= walked.size
  BY <1>1, <1>2, <1>6 DEF Placed, IInv, BufferHoldsSuffix
<1>10. L[r] \in 0 .. walked.size
  <2>1. PICK u \in Nat, v \in Nat : u = Len(Text[r]) /\ v = walked.size
    BY <1>1, <1>9
  <2> QED BY <1>6, <1>9, <2>1
<1>11. ASSUME r' \in 0 .. Len(node), r' = 0 \/ node[r'].tag = "concat", r' = 0 => L[r] = 0
       PROVE  TypeOK' /\ BufferHoldsSuffix'
  <2>1. (\A y \in Built : node[rope[y].root].tag = "concat")'
    BY <1>4 DEF Built
  <2>2. rope' \in [Ropes -> [root : 0 .. Len(node'), size : 0 .. MaxSize]]
    BY DEF IInv, TypeOK
  <2>3. going_down' \in BOOLEAN
    BY <1>5
  <2>4. TypeOK'
    BY <1>1, <1>11, <2>1, <2>2, <2>3 DEF TypeOK
  <2>5. BufferHoldsSuffix'
    BY <1>7, <1>9, <1>10, <1>11 DEF BufferHoldsSuffix
  <2> QED BY <2>4, <2>5
<1>12. CASE r = root
  <2>1. r' = 0 /\ L[r] = 0
    BY <1>2, <1>5, <1>6, <1>9, <1>12 DEF WayBack
  <2>2. TypeOK' /\ BufferHoldsSuffix'
    BY <1>1, <1>11, <2>1
  <2>3. Walking'
    BY <2>1 DEF Walking
  <2> QED BY <1>4, <2>2, <2>3 DEF IInv
<1>13. CASE r # root
  <2>1. PICK p : p = node[r].temp
    OBVIOUS
  <2>2. p \in P /\ p > r /\ r = IF node[p].temp_left THEN node[p].left ELSE node[p].right
    BY <1>2, <1>6, <1>13, <2>1 DEF WayBack
  <2>3. L[r] = L[p] + IF node[p].temp_left THEN Len(Text[node[p].right]) ELSE 0
    BY <1>2, <1>6, <1>13, <2>1 DEF Placed
  <2>4. p \in 1 .. Len(node) /\ p <= root /\ r' = p
    <3>1. p \in r .. root
      BY <1>2, <2>2
    <3>2. root \in 1 .. Len(node) /\ r \in 1 .. root
      BY <1>1, <1>2
    <3>3. p \in 1 .. Len(node) /\ p <= root
      BY <1>1, <3>1, <3>2
    <3> QED BY <1>5, <2>1, <3>3
  <2>5. node[p].tag = "concat"
    <3>1. node[p] \in Node
      BY <1>1, <2>4, ElementOfSeq
    <3>2. node[p].tag # "str"
      BY <1>1, <2>2, <2>4 DEF WellFormed
    <3> QED BY <3>1, <3>2 DEF Node
  <2>6. TypeOK' /\ BufferHoldsSuffix'
    BY <1>1, <1>11, <2>4, <2>5
  <2>7. PICK Q : Q = {n \in P : n >= p}
    OBVIOUS
  <2>8. PICK M : M = [n \in Q |-> L[n]]
    OBVIOUS
  <2>9. Q \in SUBSET (p .. root) /\ p \in Q /\ root \in Q /\ Q \subseteq P
    BY <1>1, <1>2, <1>6, <2>2, <2>4, <2>7
  <2>10. M \in [Q -> Nat] /\ \A n \in Q : M[n] = L[n]
    BY <2>7, <2>8
  <2>11. rope'[walked'.of].root = root
    BY <1>2
  <2>12. ASSUME NEW n \in Q, n # root
         PROVE  LET q == node[n].temp
                IN /\ q \in Q /\ q > n
                   /\ n = IF node[q].temp_left THEN node[q].left ELSE node[q].right
                   /\ L[n] = L[q] + IF node[q].temp_left THEN Len(Text[node[q].right]) ELSE 0
    <3>1. PICK q : q = node[n].temp
      OBVIOUS
    <3>2. /\ q \in P /\ q > n
          /\ n = IF node[q].temp_left THEN node[q].left ELSE node[q].right
      BY <1>2, <2>9, <2>12, <3>1 DEF WayBack
    <3>3. L[n] = L[q] + IF node[q].temp_left THEN Len(Text[node[q].right]) ELSE 0
      BY <1>2, <2>9, <2>12, <3>1 DEF Placed
    <3>4. q \in Q
      <4>1. n \in p .. root
        BY <2>9
      <4>2. q \in r .. root
        BY <1>2, <3>2
      <4>3. q >= p
        BY <2>4, <3>2, <4>1, <4>2
      <4> QED BY <2>7, <3>2, <4>3
    <3> QED BY <3>1, <3>2, <3>3, <3>4
  <2>13. WayBack(Q)'
    <3>1. node[root].temp = 0
      BY <1>2, <1>6 DEF WayBack
    <3> QED BY <2>4, <2>9, <2>11, <2>12, <3>1 DEF WayBack
  <2>14. Placed(Q, M)'
    <3>1. M[root] = 0
      BY <1>9, <2>9, <2>10
    <3>2. ASSUME NEW n \in Q, n # root
          PROVE  LET q == node'[n].temp
                 IN M[n] = M[q] + IF node'[q].temp_left THEN Len(Text'[node'[q].right]) ELSE 0
      <4>1. PICK q : q = node[n].temp
        OBVIOUS
      <4>2. q \in Q /\ L[n] = L[q] + IF node[q].temp_left THEN Len(Text[node[q].right]) ELSE 0
        BY <2>12, <3>2, <4>1
      <4>3. node[q].right \in 0 .. Len(node)
        <5>1. q \in 1 .. Len(node)
          <6>1. q \in p .. root /\ root \in 1 .. Len(node)
            BY <1>1, <1>2, <2>9, <4>2
          <6> QED BY <1>1, <2>4, <6>1
        <5>2. node[q].right \in 0 .. q - 1
          BY <1>1, <5>1, NodeShape
        <5> QED BY <1>1, <5>1, <5>2
      <4> QED BY <1>4, <2>10, <4>1, <4>2, <4>3
    <3>3. ASSUME NEW n \in Q
          PROVE  /\ M[n] + Len(Text'[n]) <= Len(TextOf(walked.of))
                 /\ \A i \in 1 .. Len(Text'[n]) : TextOf(walked.of)[M[n] + i] = Text'[n][i]
      <4>1. Text'[n] = Text[n] /\ M[n] = L[n]
        <5>1. n \in 0 .. Len(node)
          <6>1. n \in p .. root /\ root \in 1 .. Len(node)
            BY <1>1, <1>2, <2>9
          <6> QED BY <1>1, <2>4, <6>1
        <5> QED BY <1>4, <2>10, <5>1
      <4>2. /\ L[n] + Len(Text[n]) <= Len(TextOf(walked.of))
            /\ \A i \in 1 .. Len(Text[n]) : TextOf(walked.of)[L[n] + i] = Text[n][i]
        BY <2>9 DEF Placed
      <4> QED BY <4>1, <4>2
    <3>4. walked'.off = M[r'] + Pending'
      <4>1. node[p].right \in 0 .. Len(node)
        <5>1. node[p].right \in 0 .. p - 1
          BY <1>1, <2>4, NodeShape
        <5> QED BY <1>1, <2>4, <5>1
      <4>2. Pending' = IF node[p].temp_left THEN Len(Text[node[p].right]) ELSE 0
        BY <1>4, <1>5, <2>4, <4>1 DEF Pending
      <4> QED BY <2>3, <2>4, <2>9, <2>10, <4>2
    <3> QED BY <1>7, <2>11, <3>1, <3>2, <3>3, <3>4 DEF Placed
  <2>15. Walking'
    BY <1>8, <2>4, <2>9, <2>10, <2>11, <2>13, <2>14 DEF Walking
  <2> QED BY <1>4, <2>6, <2>15 DEF IInv
<1> QED BY <1>12, <1>13

\* off moves down by the length of the string, whose characters go there.
LEMMA FillPlaces ==
  ASSUME IInv, r # 0, NEW s \in Seq(Chars), Fill(s), s = Text[r],
         NEW l \in Nat, walked.off = l + Len(s), l + Len(s) <= walked.size,
         \A i \in 1 .. Len(s) : TextOf(walked.of)[l + i] = s[i]
  PROVE  /\ walked' \in [of : Ropes, size : Nat, off : Int, buffer : Seq(Chars \cup {Fresh})]
         /\ Len(walked'.buffer) = walked'.size + 1
         /\ walked'.of = walked.of /\ walked'.size = walked.size /\ walked'.off = l
         /\ \A i \in l + 1 .. walked.size : walked'.buffer[i] = TextOf(walked.of)[i]
<1>0. PICK len \in Nat : len = Len(s)
  BY LenProperties
<1>1. /\ walked \in [of : Ropes, size : Nat, off : Int, buffer : Seq(Chars \cup {Fresh})]
      /\ walked # Idle /\ Len(walked.buffer) = walked.size + 1
  BY OnTheWay DEF IInv, TypeOK
<1>2. PICK b : b = walked.buffer
  OBVIOUS
<1>3. PICK c : c = [i \in DOMAIN b |-> IF i - l \in DOMAIN s THEN s[i - l] ELSE b[i]]
  OBVIOUS
<1>4. walked.off - Len(s) = l /\ walked.size \in Nat
  BY <1>0, <1>1
<1>5. walked' = [walked EXCEPT !.off = l, !.buffer = c]
  BY <1>2, <1>3, <1>4 DEF Fill
<1>6. /\ b \in Seq(Chars \cup {Fresh}) /\ DOMAIN b = 1 .. walked.size + 1
      /\ DOMAIN s = 1 .. len
  BY <1>0, <1>1, <1>2, LenProperties
<1>7. ASSUME NEW i \in 1 .. walked.size + 1
      PROVE  /\ c[i] \in Chars \cup {Fresh}
             /\ i - l \in 1 .. len => c[i] = s[i - l]
             /\ i - l \notin 1 .. len => c[i] = b[i]
  <2>1. b[i] \in Chars \cup {Fresh}
    <3>1. i \in 1 .. Len(b)
      BY <1>1, <1>2
    <3> QED BY <1>6, <3>1, ElementOfSeq
  <2>2. i - l \in 1 .. len => s[i - l] \in Chars
    BY <1>0
  <2> QED BY <1>3, <1>6, <2>1, <2>2
<1>8. c \in Seq(Chars \cup {Fresh}) /\ Len(c) = walked.size + 1
  <2>1. c \in [1 .. walked.size + 1 -> Chars \cup {Fresh}]
    BY <1>3, <1>6, <1>7
  <2>2. walked.size + 1 \in Nat
    BY <1>4
  <2>3. PICK n \in Nat : n = walked.size + 1
    BY <2>2
  <2>4. c \in [1 .. n -> Chars \cup {Fresh}]
    BY <2>1, <2>3
  <2>5. c \in Seq(Chars \cup {Fresh}) /\ Len(c) = n
    BY <2>4
  <2> QED BY <2>3, <2>5
<1>9. /\ walked' \in [of : Ropes, size : Nat, off : Int, buffer : Seq(Chars \cup {Fresh})]
      /\ walked'.of = walked.of /\ walked'.size = walked.size /\ walked'.off = l
      /\ walked'.buffer = c
  <2>1. walked.of \in Ropes /\ walked.size \in Nat
    BY <1>1
  <2>2. walked' = [of |-> walked.of, size |-> walked.size, off |-> l, buffer |-> c]
    BY <1>1, <1>5
  <2> QED BY <1>8, <2>1, <2>2
<1>10. ASSUME NEW i \in l + 1 .. walked.size PROVE c[i] = TextOf(walked.of)[i]
  <2>0. i \in 1 .. walked.size + 1
    BY <1>4
  <2>1. CASE i <= l + len
    <3>1. i - l \in 1 .. len /\ l + (i - l) = i
      BY <1>4, <2>1
    <3>2. TextOf(walked.of)[l + (i - l)] = s[i - l]
      BY <1>0, <3>1
    <3> QED BY <1>7, <2>0, <3>1, <3>2
  <2>2. CASE ~(i <= l + len)
    <3>1. i - l \notin 1 .. len /\ i \in walked.off + 1 .. walked.size
      BY <1>0, <1>4, <2>2
    <3>2. b[i] = TextOf(walked.of)[i]
      BY <1>1, <1>2, <3>1 DEF IInv, BufferHoldsSuffix
    <3> QED BY <1>7, <2>0, <3>1, <3>2
  <2> QED BY <2>1, <2>2
<1> QED BY <1>8, <1>9, <1>10

LEMMA TurnKeeps ==
  ASSUME IInv, Turn
  PROVE  IInv' /\ \A y \in Ropes : TextOf(y)' = TextOf(y)
<1>1. r # 0 /\ rope' = rope
  BY DEF Turn
<1>2. /\ node \in Seq(Node) /\ WellFormed(node) /\ Len(node) \in Nat
      /\ walked # Idle /\ walked.of \in Ropes
      /\ walked \in [of : Ropes, size : Nat, off : Int, buffer : Seq(Chars \cup {Fresh})]
      /\ rope[walked.of].root \in 1 .. Len(node) /\ r \in 1 .. rope[walked.of].root
      /\ node[r].left \in 0 .. r - 1 /\ node[r].right \in 0 .. r - 1
      /\ \A n \in 0 .. Len(node) : Text[n] \in Seq(Chars) /\ Len(Text[n]) \in Nat
      /\ TextOf(walked.of) \in Seq(Chars) /\ Len(TextOf(walked.of)) \in Nat
  BY <1>1, OnTheWay
<1>3. r \in 1 .. Len(node) /\ r \in 0 .. Len(node) /\ node[r].right \in 0 .. Len(node)
      /\ node[r].left \in 0 .. Len(node)
  <2>1. PICK root : root = rope[walked.of].root
    OBVIOUS
  <2>2. Len(node) \in Nat /\ root \in 1 .. Len(node) /\ r \in 1 .. root
    BY <1>2, <2>1
  <2>3. node[r].left \in 0 .. r - 1 /\ node[r].right \in 0 .. r - 1
    BY <1>2
  <2> QED BY <2>2, <2>3
<1>4. /\ Text[0] = <<>>
      /\ node[r].tag = "str" => Text[r] = node[r].text
      /\ node[r].tag = "concat" => Text[r] = Text[node[r].right] \o Text[node[r].left]
  BY <1>1, <1>2, <1>3, TextAt DEF Text
<1>5. node[r].tag = "concat" => Len(Text[r]) = Len(Text[node[r].right]) + Len(Text[node[r].left])
  <2>1. PICK a, b : a = Text[node[r].right] /\ b = Text[node[r].left]
    OBVIOUS
  <2>2. a \in Seq(Chars) /\ b \in Seq(Chars)
    BY <1>2, <1>3, <2>1
  <2>3. Len(a \o b) = Len(a) + Len(b)
    BY <2>2, ConcatProperties
  <2> QED BY <1>4, <2>1, <2>3
<1>6. Len(Text[0]) = 0
  BY <1>4
<1>7. PICK P \in SUBSET (r .. rope[walked.of].root) : \E L \in [P -> Nat] : WayBack(P) /\ Placed(P, L)
  BY <1>1 DEF IInv, Walking
<1>8. PICK L \in [P -> Nat] : WayBack(P) /\ Placed(P, L)
  BY <1>7
<1>9. r \in P /\ L[r] \in Nat
  BY <1>8 DEF WayBack
<1>10. /\ walked.off = L[r] + Pending
       /\ L[r] + Len(Text[r]) <= Len(TextOf(walked.of))
       /\ \A i \in 1 .. Len(Text[r]) : TextOf(walked.of)[L[r] + i] = Text[r][i]
  BY <1>8, <1>9 DEF Placed
<1>11. /\ walked.size = Len(TextOf(walked.of))
       /\ \A i \in walked.off + 1 .. walked.size : walked.buffer[i] = TextOf(walked.of)[i]
       /\ Len(walked.buffer) = walked.size + 1
  BY <1>2 DEF IInv, BufferHoldsSuffix, TypeOK
\* Back up with nothing to add.
<1>12. ASSUME Pending = 0, Leave, UNCHANGED <<node, walked>>
       PROVE  IInv' /\ \A y \in Ropes : TextOf(y)' = TextOf(y)
  <2>1. walked'.off = L[r]
    BY <1>9, <1>10, <1>12
  <2>2. \A i \in L[r] + 1 .. walked.size : walked'.buffer[i] = TextOf(walked.of)[i]
    BY <1>11, <1>12, <2>1
  <2>3. /\ walked' \in [of : Ropes, size : Nat, off : Int, buffer : Seq(Chars \cup {Fresh})]
        /\ Len(walked'.buffer) = walked'.size + 1
        /\ walked'.of = walked.of /\ walked'.size = walked.size
    BY <1>2, <1>11, <1>12
  <2> QED BY <1>1, <1>8, <1>12, <2>1, <2>2, <2>3, LeaveKeeps
<1>13. CASE Down /\ node[r].tag = "concat"
  <2>0. Pending = Len(Text[r]) /\ UNCHANGED walked /\ DownConcat
    BY <1>13 DEF Down, Pending
  <2>1. CASE node[r].left # 0 /\ Enter(node[r].left, TRUE)
    <3>1. Pending = Skipped(TRUE) + Len(Text[node[r].left])
      BY <1>5, <1>13, <2>0 DEF Skipped
    <3> QED BY <1>1, <1>13, <2>0, <2>1, <3>1, EnterKeeps
  <2>2. CASE node[r].left = 0 /\ node[r].right # 0 /\ Enter(node[r].right, FALSE)
    <3>1. Pending = Skipped(FALSE) + Len(Text[node[r].right])
      <4>1. PICK u \in Nat : u = Len(Text[node[r].right])
        BY <1>2, <1>3
      <4>2. Pending = u + 0
        BY <1>5, <1>6, <1>13, <2>0, <2>2, <4>1
      <4>3. Skipped(FALSE) = 0 /\ u + 0 = 0 + u
        BY DEF Skipped
      <4> QED BY <4>1, <4>2, <4>3
    <3> QED BY <1>1, <1>13, <2>0, <2>2, <3>1, EnterKeeps
  <2>3. CASE node[r].left = 0 /\ node[r].right = 0 /\ Leave /\ UNCHANGED node
    <3>1. Pending = 0
      BY <1>5, <1>6, <1>13, <2>0, <2>3
    <3> QED BY <1>12, <2>0, <2>3, <3>1
  <2> QED BY <2>0, <2>1, <2>2, <2>3 DEF DownConcat
<1>14. CASE Down /\ node[r].tag = "str"
  <2>0. Pending = Len(Text[r]) /\ Fill(Text[r]) /\ Leave /\ node' = node
    BY <1>4, <1>14 DEF Down, Pending
  <2>1. PICK s, l : s = Text[r] /\ l = L[r]
    OBVIOUS
  <2>2. s \in Seq(Chars) /\ l \in Nat /\ walked.off = l + Len(s) /\ l + Len(s) <= walked.size
    BY <1>2, <1>3, <1>9, <1>10, <1>11, <2>0, <2>1
  <2>3. \A i \in 1 .. Len(s) : TextOf(walked.of)[l + i] = s[i]
    BY <1>10, <2>1
  <2>4. /\ walked' \in [of : Ropes, size : Nat, off : Int, buffer : Seq(Chars \cup {Fresh})]
        /\ Len(walked'.buffer) = walked'.size + 1
        /\ walked'.of = walked.of /\ walked'.size = walked.size /\ walked'.off = l
        /\ \A i \in l + 1 .. walked.size : walked'.buffer[i] = TextOf(walked.of)[i]
    BY <1>1, <2>0, <2>1, <2>2, <2>3, FillPlaces
  <2> QED BY <1>1, <1>8, <2>0, <2>1, <2>4, LeaveKeeps
<1>15. CASE Up
  <2>0. ~going_down /\ UNCHANGED walked /\ node[r].tag = "concat"
    BY <1>1, <1>15 DEF Up, IInv, TypeOK
  <2>1. CASE node[r].temp_left /\ node[r].right # 0 /\ Enter(node[r].right, FALSE)
    <3>1. Pending = Skipped(FALSE) + Len(Text[node[r].right])
      <4>1. PICK u \in Nat : u = Len(Text[node[r].right])
        BY <1>2, <1>3
      <4>2. Pending = u /\ Skipped(FALSE) = 0
        BY <2>0, <2>1, <4>1 DEF Skipped, Pending
      <4>3. u = 0 + u
        OBVIOUS
      <4> QED BY <4>1, <4>2, <4>3
    <3> QED BY <1>1, <2>0, <2>1, <3>1, EnterKeeps
  <2>2. CASE ~(node[r].temp_left /\ node[r].right # 0) /\ Leave /\ UNCHANGED node
    <3>1. Pending = 0
      BY <1>6, <2>0, <2>2 DEF Pending
    <3> QED BY <1>12, <2>0, <2>2, <3>1
  <2> QED BY <1>15, <2>1, <2>2 DEF Up
<1> QED BY <1>13, <1>14, <1>15 DEF Turn, Down

LEMMA ReturnKeeps ==
  ASSUME IInv, Return
  PROVE  IInv' /\ \A y \in Ropes : TextOf(y)' = TextOf(y)
<1>1. r' = 0 /\ walked' = Idle /\ node' = node /\ rope' = rope /\ going_down' = TRUE
  BY DEF Return
<1>2. Text' = Text
  BY <1>1 DEF Text
<1>3. \A y \in Ropes : TextOf(y)' = TextOf(y)
  BY <1>1, <1>2 DEF TextOf
<1>4. Sizes'
  BY <1>1, <1>3 DEF Sizes, IInv
<1>5. TypeOK'
  <2>1. Built' = Built
    BY <1>1 DEF Built
  <2>2. 0 \in 0 .. Len(node)
    BY <1>1 DEF IInv, TypeOK, Return
  <2> QED BY <1>1, <2>1, <2>2 DEF IInv, TypeOK, Idle
<1>6. BufferHoldsSuffix' /\ Walking'
  BY <1>1 DEF BufferHoldsSuffix, Walking, Idle
<1> QED BY <1>3, <1>4, <1>5, <1>6 DEF IInv

-----------------------------------------------------------------------------
(***************************************************************************)
(* at().                                                                   *)
(***************************************************************************)
\* One call of the visit that at() makes.
VisitNode(f, index, n, st) ==
  IF n = 0 THEN st
  ELSE IF node[n].tag = "str" THEN AtStr(node[n].text, index, st)
  ELSE IF st.stop THEN st
  ELSE f[node[n].right][f[node[n].left][st]]

LEMMA AtStrType ==
  ASSUME NEW s \in Seq(Chars), NEW index \in Int, NEW st \in AtState
  PROVE  /\ AtStr(s, index, st) \in AtState
         /\ index < st.so_far =>
              LET low == st.so_far - Len(s)
              IN IF index >= low
                 THEN AtStr(s, index, st).stop /\ AtStr(s, index, st).ret = s[index - low + 1]
                 ELSE AtStr(s, index, st).so_far = low /\ AtStr(s, index, st).stop = st.stop
<1>1. PICK len \in Nat : len = Len(s)
  BY LenProperties
<1>2. PICK low \in Int : low = st.so_far - len
  BY DEF AtState
<1>3. \A i \in Int : CharAt(s, i) \in Chars \cup {Fresh}
  <2> TAKE i \in Int
  <2>1. CASE i + 1 \in DOMAIN s
    <3>1. i + 1 \in 1 .. Len(s)
      BY <2>1, LenProperties
    <3>2. s[i + 1] \in Chars
      BY <3>1, ElementOfSeq
    <3> QED BY <2>1, <3>2 DEF CharAt
  <2>2. CASE i + 1 \notin DOMAIN s
    BY <2>2 DEF CharAt
  <2> QED BY <2>1, <2>2
<1>4. CASE index >= low
  <2>1. AtStr(s, index, st) = [so_far |-> low, stop |-> TRUE, ret |-> CharAt(s, index - low)]
    BY <1>1, <1>2, <1>4 DEF AtStr
  <2>2. AtStr(s, index, st) \in AtState
    BY <1>3, <2>1 DEF AtState
  <2>3. AtStr(s, index, st).stop /\ AtStr(s, index, st).ret = CharAt(s, index - low)
    BY <2>1
  <2>4. ASSUME index < st.so_far PROVE CharAt(s, index - low) = s[index - low + 1]
    <3>1. PICK s0 \in Int : s0 = st.so_far
      BY DEF AtState
    <3>a. low = s0 - len /\ index < s0
      BY <1>2, <2>4, <3>1
    <3>2. index - low + 1 \in 1 .. len
      BY <1>4, <3>a
    <3>3. index - low + 1 \in DOMAIN s
      BY <1>1, <3>2, LenProperties
    <3> QED BY <3>3 DEF CharAt
  <2> QED BY <1>1, <1>2, <1>4, <2>2, <2>3, <2>4
<1>5. CASE ~(index >= low)
  <2>1. AtStr(s, index, st) = [st EXCEPT !.so_far = low]
    BY <1>1, <1>2, <1>5 DEF AtStr
  <2>2. AtStr(s, index, st) \in AtState
    BY <2>1 DEF AtState
  <2>3. AtStr(s, index, st).so_far = low
    BY <2>1 DEF AtState
  <2>4. AtStr(s, index, st).stop = st.stop
    BY <2>1 DEF AtState
  <2> QED BY <1>1, <1>2, <1>5, <2>2, <2>3, <2>4
<1> QED BY <1>4, <1>5

SameVisits(n, f, g) ==
  \A j \in 0 .. n - 1 : f[j] \in [AtState -> AtState] /\ g[j] = f[j]

LEMMA VisitNodeOlder ==
  ASSUME TypeOK, NEW index \in Int, NEW n \in 0 .. Len(node), NEW f, NEW g,
         SameVisits(n, f, g), NEW st \in AtState
  PROVE  /\ VisitNode(f, index, n, st) \in AtState
         /\ VisitNode(g, index, n, st) = VisitNode(f, index, n, st)
<1>0. node \in Seq(Node) /\ WellFormed(node) /\ Len(node) \in Nat
  BY LenProperties DEF TypeOK
<1>1. CASE n = 0
  BY <1>1 DEF VisitNode
<1>2. CASE n # 0
  <2>1. n \in 1 .. Len(node)
    BY <1>0, <1>2
  <2>2. /\ node[n].text \in Seq(Chars)
        /\ node[n].left \in 0 .. n - 1 /\ node[n].right \in 0 .. n - 1
    BY <1>0, <2>1, NodeShape
  <2>3. AtStr(node[n].text, index, st) \in AtState
    BY <2>2, AtStrType
  <2>4. /\ f[node[n].left] \in [AtState -> AtState] /\ f[node[n].right] \in [AtState -> AtState]
        /\ g[node[n].left] = f[node[n].left] /\ g[node[n].right] = f[node[n].right]
    BY <2>2 DEF SameVisits
  <2>5. f[node[n].right][f[node[n].left][st]] \in AtState
    BY <2>4
  <2> QED BY <1>2, <2>3, <2>4, <2>5 DEF VisitNode
<1> QED BY <1>1, <1>2

VisitsUpTo(k, f, index) ==
  /\ f \in [0 .. k -> [AtState -> AtState]]
  /\ \A n \in 0 .. k : \A st \in AtState : f[n][st] = VisitNode(f, index, n, st)

LEMMA VisitsExist ==
  ASSUME TypeOK, NEW index \in Int
  PROVE  \E f : VisitsUpTo(Len(node), f, index)
<1> DEFINE S == {k \in 0 .. Len(node) : \E f : VisitsUpTo(k, f, index)}
<1>1. Len(node) \in Nat
  BY LenProperties DEF TypeOK
<1>2. ASSUME NEW k \in 0 .. Len(node), \A j \in 0 .. k - 1 : j \in S
      PROVE  k \in S
  <2>1. \E f : VisitsUpTo(k - 1, f, index)
    <3>1. CASE k = 0
      <4> DEFINE e == [i \in 0 .. k - 1 |-> [st \in AtState |-> st]]
      <4>1. e \in [0 .. k - 1 -> [AtState -> AtState]]
        OBVIOUS
      <4>2. \A n : n \notin 0 .. k - 1
        BY <3>1
      <4> HIDE DEF e
      <4>3. VisitsUpTo(k - 1, e, index)
        BY <4>1, <4>2 DEF VisitsUpTo
      <4> QED BY <4>3
    <3>2. CASE k # 0
      <4>1. k - 1 \in S
        BY <1>2, <3>2
      <4> QED BY <4>1
    <3> QED BY <3>1, <3>2
  <2>2. PICK f : VisitsUpTo(k - 1, f, index)
    BY <2>1
  <2>a. PICK top : top = [st \in AtState |-> VisitNode(f, index, k, st)]
    OBVIOUS
  <2> DEFINE g == [n \in 0 .. k |-> IF n = k THEN top ELSE f[n]]
  <2>3. ASSUME NEW j \in 0 .. k - 1 PROVE f[j] \in [AtState -> AtState] /\ g[j] = f[j]
    BY <2>2 DEF VisitsUpTo
  <2>4. g[k] = top
    OBVIOUS
  <2>g. g = [n \in 0 .. k |-> g[n]]
    OBVIOUS
  <2> HIDE DEF g
  <2>5. ASSUME NEW n \in 0 .. k, NEW st \in AtState
        PROVE  g[n][st] \in AtState /\ g[n][st] = VisitNode(g, index, n, st)
    <3>1. SameVisits(n, f, g)
      <4>1. \A j \in 0 .. n - 1 : j \in 0 .. k - 1
        OBVIOUS
      <4> QED BY <2>3, <4>1 DEF SameVisits
    <3>2. n \in 0 .. Len(node)
      OBVIOUS
    <3>3. /\ VisitNode(f, index, n, st) \in AtState
          /\ VisitNode(g, index, n, st) = VisitNode(f, index, n, st)
      BY <3>1, <3>2, VisitNodeOlder
    <3>4. CASE n = k
      BY <2>a, <2>4, <3>3, <3>4
    <3>5. CASE n # k
      <4>1. n \in 0 .. k - 1
        BY <3>5
      <4>2. f[n][st] = VisitNode(f, index, n, st)
        BY <2>2, <4>1 DEF VisitsUpTo
      <4> QED BY <2>3, <3>3, <4>1, <4>2
    <3> QED BY <3>4, <3>5
  <2>6. ASSUME NEW n \in 0 .. k PROVE g[n] \in [AtState -> AtState]
    <3>1. CASE n = k
      <4>1. ASSUME NEW st \in AtState PROVE VisitNode(f, index, k, st) \in AtState
        BY <2>5, <2>4, <2>a, <3>1
      <4> QED BY <2>4, <2>a, <3>1, <4>1
    <3>2. CASE n # k
      BY <2>3, <3>2
    <3> QED BY <3>1, <3>2
  <2>7. VisitsUpTo(k, g, index)
    BY <2>5, <2>6, <2>g DEF VisitsUpTo
  <2> QED BY <2>7
<1> HIDE DEF S
<1>3. Len(node) \in S
  <2>1. PICK N \in Nat : N = Len(node)
    BY <1>1
  <2>2. \A k \in 0 .. N : (\A j \in 0 .. k - 1 : j \in S) => k \in S
    BY <1>2, <2>1
  <2>3. \A k \in 0 .. N : k \in S
    BY <2>2, Induction
  <2> QED BY <2>1, <2>3
<1> QED BY <1>3 DEF S

LEMMA VisitUnfolds ==
  ASSUME TypeOK, NEW index \in Int
  PROVE  \A n \in 0 .. Len(node) :
           Visit(index)[n] = [st \in AtState |-> VisitNode(Visit(index), index, n, st)]
<1> DEFINE Body(f) == [n \in 0 .. Len(node) |->
                         [st \in AtState |->
                            IF n = 0 THEN st
                            ELSE IF node[n].tag = "str" THEN AtStr(node[n].text, index, st)
                            ELSE IF st.stop THEN st
                            ELSE f[node[n].right][f[node[n].left][st]]]]
<1>1. PICK f : VisitsUpTo(Len(node), f, index)
  BY VisitsExist
<1>2. f = Body(f)
  <2>1. ASSUME NEW n \in 0 .. Len(node)
        PROVE  f[n] = [st \in AtState |-> VisitNode(f, index, n, st)]
    BY <1>1 DEF VisitsUpTo
  <2>2. f = [n \in 0 .. Len(node) |-> [st \in AtState |-> VisitNode(f, index, n, st)]]
    BY <1>1, <2>1 DEF VisitsUpTo
  <2> QED BY <2>2, Zenon DEF VisitNode
<1>3. Visit(index) = CHOOSE g : g = Body(g)
  BY Zenon DEF Visit
<1>4. Visit(index) = Body(Visit(index))
  <2> HIDE DEF Body
  <2> QED BY <1>2, <1>3, Zenon
<1> DEFINE g == Visit(index)
<1>5. g = Body(g)
  BY <1>4
<1> HIDE DEF g
<1>6. \A n \in 0 .. Len(node) : g[n] = [st \in AtState |-> VisitNode(g, index, n, st)]
  BY <1>5 DEF VisitNode
<1> QED BY <1>6 DEF g

\* What the visit of node n makes of st: past its hit it stops at once, and
\* before it the text below n ends at so_far.
Finds(n, index, st, u) ==
  /\ u \in AtState
  /\ st.stop /\ (n = 0 \/ node[n].tag = "concat") => u = st
  /\ ~st.stop /\ index < st.so_far =>
       LET low == st.so_far - Len(Text[n])
       IN IF index >= low THEN u.stop /\ u.ret = Text[n][index - low + 1]
          ELSE u.so_far = low /\ ~u.stop

LEMMA ConcatFinds ==
  ASSUME TypeOK, NEW index \in Int, NEW n \in 1 .. Len(node), node[n].tag = "concat",
         NEW st \in AtState, NEW u, NEW v, ~st.stop, index < st.so_far,
         Finds(node[n].left, index, st, u), Finds(node[n].right, index, u, v)
  PROVE  LET low == st.so_far - Len(Text[n])
         IN IF index >= low THEN v.stop /\ v.ret = Text[n][index - low + 1]
            ELSE v.so_far = low /\ ~v.stop
<1>0. node \in Seq(Node) /\ WellFormed(node) /\ Len(node) \in Nat
  BY LenProperties DEF TypeOK
<1>1. node[n].left \in 0 .. n - 1 /\ node[n].right \in 0 .. n - 1
  BY <1>0, NodeShape
<1>2. node[n].left \in 0 .. Len(node) /\ node[n].right \in 0 .. Len(node) /\ n \in 0 .. Len(node)
      /\ n # 0
  BY <1>0, <1>1
<1>3. node[n].right = 0 \/ node[node[n].right].tag = "concat"
  BY <1>0 DEF WellFormed
<1>4. PICK a \in Seq(Chars), b \in Seq(Chars) : a = Text[node[n].right] /\ b = Text[node[n].left]
  BY <1>0, <1>2, TextAt DEF Text
<1>5. Text[n] = a \o b
  <2>1. TextIn(node)[n] = TextIn(node)[node[n].right] \o TextIn(node)[node[n].left]
    BY <1>0, <1>2, TextAt
  <2> QED BY <1>4, <2>1 DEF Text
<1>6. PICK la \in Nat, lb \in Nat : la = Len(a) /\ lb = Len(b)
  BY LenProperties
<1>7. /\ Len(a \o b) = la + lb
      /\ \A i \in 1 .. la + lb : (a \o b)[i] = IF i <= la THEN a[i] ELSE b[i - la]
  BY <1>6, ConcatProperties
<1>a. PICK s \in Int : s = st.so_far
  BY DEF AtState
<1>8. PICK m \in Int, low \in Int : m = s - lb /\ low = m - la
  <2>1. s - lb \in Int /\ (s - lb) - la \in Int
    BY <1>6
  <2> QED BY <2>1
<1>9. st.so_far - Len(Text[n]) = low
  <2>1. s - (la + lb) = low
    BY <1>8
  <2> QED BY <1>5, <1>7, <1>a, <2>1
<1>10. IF index >= m THEN u.stop /\ u.ret = b[index - m + 1] ELSE u.so_far = m /\ ~u.stop
  BY <1>4, <1>6, <1>8, <1>a DEF Finds
<1>11. CASE index >= m
  <2>1. v = u
    BY <1>3, <1>10, <1>11 DEF Finds
  <2>2. index >= low /\ index < s
    <3>1. index < s
      BY <1>a
    <3>2. index >= low
      BY <1>8, <1>11
    <3> QED BY <3>1, <3>2
  <2>3. PICK i \in Int : i = index - low + 1
    OBVIOUS
  <2>4. i \in 1 .. la + lb /\ ~(i <= la) /\ i - la = index - m + 1
    BY <1>8, <1>11, <2>2, <2>3
  <2>5. (a \o b)[i] = b[index - m + 1]
    BY <1>7, <2>4
  <2> QED BY <1>5, <1>9, <1>10, <1>11, <2>1, <2>2, <2>3, <2>5
<1>12. CASE ~(index >= m)
  <2>1. u.so_far = m /\ ~u.stop /\ index < m
    BY <1>6, <1>8, <1>a, <1>10, <1>12
  <2>2. IF index >= low THEN v.stop /\ v.ret = a[index - low + 1] ELSE v.so_far = low /\ ~v.stop
    BY <1>4, <1>6, <1>8, <1>a, <2>1 DEF Finds
  <2>3. ASSUME index >= low PROVE (a \o b)[index - low + 1] = a[index - low + 1]
    <3>1. PICK i \in Int : i = index - low + 1
      OBVIOUS
    <3>2. i \in 1 .. la + lb /\ i <= la
      BY <1>8, <2>1, <2>3, <3>1
    <3> QED BY <1>7, <3>1, <3>2
  <2> QED BY <1>5, <1>9, <2>2, <2>3
<1> QED BY <1>11, <1>12

LEMMA VisitFinds ==
  ASSUME TypeOK, NEW index \in Int
  PROVE  \A n \in 0 .. Len(node) : \A st \in AtState : Finds(n, index, st, Visit(index)[n][st])
<1>0. node \in Seq(Node) /\ WellFormed(node) /\ Len(node) \in Nat
  BY LenProperties DEF TypeOK
<1> DEFINE f == Visit(index)
<1>1. \A n \in 0 .. Len(node) : f[n] = [st \in AtState |-> VisitNode(f, index, n, st)]
  BY VisitUnfolds
<1> HIDE DEF f
<1> DEFINE S == {n \in 0 .. Len(node) : \A st \in AtState : Finds(n, index, st, f[n][st])}
<1>2. ASSUME NEW n \in 0 .. Len(node), \A j \in 0 .. n - 1 : j \in S
      PROVE  n \in S
  <2> SUFFICES ASSUME NEW st \in AtState PROVE Finds(n, index, st, f[n][st])
    OBVIOUS
  <2>1. PICK v : v = f[n][st]
    OBVIOUS
  <2>2. v = VisitNode(f, index, n, st)
    BY <1>1, <2>1
  <2>3. CASE n = 0
    <3>1. v = st /\ Text[n] = <<>>
      BY <1>0, <2>2, <2>3, TextAt DEF VisitNode, Text
    <3>2. Len(Text[n]) = 0
      BY <3>1
    <3>3. PICK s \in Int : s = st.so_far
      BY DEF AtState
    <3>4. s - 0 = s
      OBVIOUS
    <3> QED BY <2>1, <3>1, <3>2, <3>3, <3>4 DEF Finds
  <2>4. CASE n # 0 /\ node[n].tag = "str"
    <3>1. v = AtStr(node[n].text, index, st)
      BY <2>2, <2>4 DEF VisitNode
    <3>2. Text[n] = node[n].text
      BY <1>0, <2>4, TextAt DEF Text
    <3>3. node[n].text \in Seq(Chars)
      BY <1>0, <2>4, NodeShape
    <3>4. PICK s \in Seq(Chars) : s = node[n].text
      BY <3>3
    <3>5. /\ v \in AtState
          /\ index < st.so_far =>
               LET low == st.so_far - Len(s)
               IN IF index >= low THEN v.stop /\ v.ret = s[index - low + 1]
                  ELSE v.so_far = low /\ v.stop = st.stop
      BY <3>1, <3>4, AtStrType
    <3> QED BY <2>1, <2>4, <3>2, <3>4, <3>5 DEF Finds
  <2>5. CASE n # 0 /\ node[n].tag # "str"
    <3>1. n \in 1 .. Len(node)
      BY <1>0, <2>5
    <3>2. node[n].tag = "concat" /\ node[n].left \in 0 .. n - 1 /\ node[n].right \in 0 .. n - 1
      BY <1>0, <2>5, <3>1, NodeShape DEF Node
    <3>3. node[n].left \in S /\ node[n].right \in S
      BY <1>2, <3>2
    <3>4. CASE st.stop
      BY <2>1, <2>2, <2>5, <3>4 DEF VisitNode, Finds
    <3>5. CASE ~st.stop
      <4>1. PICK u : u = f[node[n].left][st]
        OBVIOUS
      <4>2. v = f[node[n].right][u]
        BY <2>2, <2>5, <3>5, <4>1 DEF VisitNode
      <4>3. Finds(node[n].left, index, st, u)
        BY <3>3, <4>1
      <4>4. u \in AtState
        BY <4>3 DEF Finds
      <4>5. Finds(node[n].right, index, u, v)
        BY <3>3, <4>2, <4>4
      <4>6. v \in AtState
        BY <4>5 DEF Finds
      <4>7. index < st.so_far =>
              LET low == st.so_far - Len(Text[n])
              IN IF index >= low THEN v.stop /\ v.ret = Text[n][index - low + 1]
                 ELSE v.so_far = low /\ ~v.stop
        BY <3>1, <3>2, <3>5, <4>3, <4>5, ConcatFinds
      <4> QED BY <2>1, <3>5, <4>6, <4>7 DEF Finds
    <3> QED BY <3>4, <3>5
  <2> QED BY <2>3, <2>4, <2>5
<1> HIDE DEF S
<1>3. PICK N \in Nat : N = Len(node)
  BY <1>0
<1>4. \A k \in 0 .. N : (\A j \in 0 .. k - 1 : j \in S) => k \in S
  BY <1>2, <1>3
<1>5. \A k \in 0 .. N : k \in S
  BY <1>4, Induction
<1> QED BY <1>3, <1>5 DEF S, f

LEMMA AtIsRight ==
  IInv => AtAgrees
<1> SUFFICES ASSUME IInv, NEW x \in Built
             PROVE  /\ rope[x].size = Len(TextOf(x))
                    /\ \A i \in 1 .. rope[x].size : at(x, i - 1) = TextOf(x)[i]
  BY DEF AtAgrees
<1>1. TypeOK /\ x \in Ropes
  BY DEF IInv, Built
<1>2. rope[x].root \in 0 .. Len(node) /\ rope[x].size \in 0 .. MaxSize /\ TextOf(x) \in Seq(Chars)
  BY <1>1, TextOfRope
<1>3. rope[x].size = Len(TextOf(x))
  BY <1>1 DEF IInv, Sizes
<1>4. ASSUME NEW i \in 1 .. rope[x].size PROVE at(x, i - 1) = TextOf(x)[i]
  <2>1. PICK root, size \in Nat : root = rope[x].root /\ size = rope[x].size
    BY <1>2, RopeAssumption
  <2>2. PICK st : st = [so_far |-> size, stop |-> FALSE, ret |-> NUL]
    OBVIOUS
  <2>3. st \in AtState
    BY <2>2, NULIsChar DEF AtState
  <2>4. PICK index \in Int : index = i - 1
    BY <2>1
  <2>5. PICK u : u = Visit(index)[root][st]
    OBVIOUS
  <2>6. Finds(root, index, st, u)
    BY <1>1, <1>2, <2>1, <2>3, <2>4, <2>5, VisitFinds
  <2>7. st.so_far = size /\ ~st.stop
    BY <2>2
  <2>8. index < size /\ index >= 0 /\ size - size = 0 /\ index - 0 + 1 = i
    BY <2>1, <2>4
  <2>9. Text[root] = TextOf(x) /\ Len(Text[root]) = size
    BY <1>3, <2>1 DEF TextOf
  <2>10. u.ret = Text[root][index - 0 + 1]
    BY <2>6, <2>7, <2>8, <2>9 DEF Finds
  <2>11. at(x, i - 1) = u.ret
    BY <2>1, <2>2, <2>4, <2>5 DEF at
  <2> QED BY <2>8, <2>9, <2>10, <2>11
<1> QED BY <1>3, <1>4

-----------------------------------------------------------------------------
(***************************************************************************)
(* The theorems.                                                           *)
(***************************************************************************)
LEMMA InitText ==
  ASSUME Init
  PROVE  TypeOK /\ \A x \in Ropes : TextOf(x) = <<>>
<1>1. node \in Seq(Node) /\ Len(node) = 0
  BY EmptySeq DEF Init
<1>2. WellFormed(node)
  BY <1>1 DEF WellFormed
<1>3. 0 \in 0 .. Len(node)
  BY <1>1
<1>4. Text[0] = <<>>
  BY <1>1, <1>2, <1>3, TextAt DEF Text
<1>5. TypeOK
  <2>1. rope \in [Ropes -> [root : 0 .. Len(node), size : 0 .. MaxSize]]
    BY <1>1, RopeAssumption DEF Init
  <2>2. Built = {}
    BY DEF Init, Built
  <2> QED BY <1>1, <1>2, <1>3, <2>1, <2>2 DEF Init, TypeOK
<1> QED BY <1>4, <1>5 DEF Init, TextOf

LEMMA InitInv == Init => IInv
<1> SUFFICES ASSUME Init PROVE IInv
  OBVIOUS
<1>1. TypeOK /\ \A x \in Ropes : TextOf(x) = <<>>
  BY InitText
<1>2. Sizes
  <2> SUFFICES ASSUME NEW x \in Ropes PROVE rope[x].size = Len(TextOf(x))
    BY DEF Sizes
  <2>1. rope[x].size = 0
    BY DEF Init
  <2>2. Len(TextOf(x)) = 0
    BY <1>1, EmptySeq
  <2> QED BY <2>1, <2>2
<1>3. BufferHoldsSuffix /\ Walking
  BY DEF BufferHoldsSuffix, Walking, Init
<1> QED BY <1>1, <1>2, <1>3 DEF IInv

\* The invariant is kept, and a step either changes no text or gives one rope
\* a piece, its text with a piece after it, another rope's text, or its text
\* with another rope's after it.
TextStep ==
  \/ \A y \in Ropes : TextOf(y)' = TextOf(y)
  \/ \E x \in Ropes :
       \/ \E s \in Pieces \cup {<<>>} \cup {Append(s, NUL) : s \in Pieces} :
            Takes(x, s) \/ Takes(x, TextOf(x) \o s)
       \/ \E q \in Ropes : Takes(x, TextOf(q)) \/ Takes(x, TextOf(x) \o TextOf(q))

LEMMA StepInv ==
  ASSUME IInv, [Next]_vars
  PROVE  IInv' /\ TextStep
<1>1. ASSUME NEW x \in Ropes, NEW s \in Pieces \cup {<<>>}, Construct(x, s)
      PROVE  IInv' /\ TextStep
  <2>1. s \in Seq(Chars)
    BY PieceText
  <2>2. IInv' /\ Takes(x, s)
    BY <1>1, <2>1, ConstructBuilds
  <2> QED BY <2>2 DEF TextStep
<1>2. ASSUME NEW x \in Built, NEW s \in Pieces, Append_(x, s)
      PROVE  IInv' /\ TextStep
  <2>1. s \in Seq(Chars) /\ x \in Ropes
    BY PieceText DEF Built
  <2>2. IInv' /\ Takes(x, TextOf(x) \o s)
    BY <1>2, <2>1, AppendBuilds
  <2> QED BY <2>1, <2>2 DEF TextStep
<1>3. ASSUME NEW x \in Built, NEW s \in Pieces, AppendLiteral(x, s)
      PROVE  IInv' /\ TextStep
  <2>1. PICK t : t = Append(s, NUL)
    OBVIOUS
  <2>2. t \in Seq(Chars) /\ x \in Ropes /\ Append_(x, t)
    BY <1>3, <2>1, PieceText DEF Built, AppendLiteral
  <2>3. IInv' /\ Takes(x, TextOf(x) \o t)
    BY <2>2, AppendBuilds
  <2>4. t \in Pieces \cup {<<>>} \cup {Append(q, NUL) : q \in Pieces}
    BY <2>1
  <2> QED BY <2>2, <2>3, <2>4 DEF TextStep
<1>4. ASSUME NEW x \in Built, NEW q \in Built, AppendRope(x, q)
      PROVE  IInv' /\ TextStep
  <2>1. x \in Ropes /\ q \in Ropes
    BY DEF Built
  <2>2. IInv' /\ Takes(x, TextOf(x) \o TextOf(q))
    BY <1>4, AppendRopeBuilds
  <2> QED BY <2>1, <2>2 DEF TextStep
<1>5. ASSUME NEW x \in Ropes, NEW q \in Built, Copy(x, q)
      PROVE  IInv' /\ TextStep
  <2>1. q \in Ropes
    BY DEF Built
  <2>2. IInv' /\ Takes(x, TextOf(q))
    BY <1>5, CopyBuilds
  <2> QED BY <2>1, <2>2 DEF TextStep
<1>6. ASSUME NEW x \in Built, CStr(x)
      PROVE  IInv' /\ TextStep
  BY <1>6, CStrKeeps DEF TextStep
<1>7. CASE Turn
  BY <1>7, TurnKeeps DEF TextStep
<1>8. CASE Return
  BY <1>8, ReturnKeeps DEF TextStep
<1>9. CASE UNCHANGED vars
  <2>1. UNCHANGED <<node, rope, walked, r, going_down>>
    BY <1>9 DEF vars
  <2>2. Text' = Text /\ Built' = Built
    BY <2>1 DEF Text, Built
  <2>3. \A y \in Ropes : TextOf(y)' = TextOf(y)
    BY <2>1, <2>2 DEF TextOf
  <2>4. TypeOK'
    BY <2>1, <2>2 DEF IInv, TypeOK, Idle
  <2>5. Sizes'
    BY <2>1, <2>3 DEF IInv, Sizes
  <2>6. TextOf(walked.of)' = TextOf(walked.of)
    BY <2>1, <2>2 DEF TextOf
  <2>7. BufferHoldsSuffix'
    BY <2>1, <2>6 DEF IInv, BufferHoldsSuffix, Idle
  <2>8. Walking'
    <3>1. Pending' = Pending
      BY <2>1, <2>2 DEF Pending
    <3> QED BY <2>1, <2>2, <2>6, <3>1 DEF IInv, Walking, WayBack, Placed, Idle
  <2> QED BY <2>3, <2>4, <2>5, <2>7, <2>8 DEF IInv, TextStep
<1> QED BY <1>1, <1>2, <1>3, <1>4, <1>5, <1>6, <1>7, <1>8, <1>9 DEF Next

\* The parts of the invariant that runs check follow from it.
LEMMA InvImplies == IInv => TypeOK /\ PathIntact /\ BufferHoldsSuffix /\ AtAgrees
<1> SUFFICES ASSUME IInv PROVE TypeOK /\ PathIntact /\ BufferHoldsSuffix /\ AtAgrees
  OBVIOUS
<1>1. PathIntact
  BY DEF IInv, Walking, PathIntact
<1>2. AtAgrees
  BY AtIsRight
<1> QED BY <1>1, <1>2 DEF IInv

\* IInv holds in every reachable state, for any number of ropes, any strings
\* and any bounds.
THEOREM InvHolds == Spec => []IInv
<1>1. IInv /\ [Next]_vars => IInv'
  BY StepInv
<1> QED BY InitInv, <1>1, PTL DEF Spec

\* Every node, rope and walk has its shape: children are older than their
\* parent, roots and right children are concat_t, so that std::get<concat_t>
\* in c_str() never throws.
THEOREM TypeCorrect == Spec => []TypeOK
<1>1. IInv => TypeOK
  BY DEF IInv
<1> QED BY InvHolds, <1>1, PTL

\* From wherever c_str() is, the marks in the nodes lead back to the root.
THEOREM PathStaysIntact == Spec => []PathIntact
<1>1. IInv => PathIntact
  BY InvImplies
<1> QED BY InvHolds, <1>1, PTL

\* c_str() writes each character where it belongs and never outside its buffer.
THEOREM BufferIsFilled == Spec => []BufferHoldsSuffix
<1>1. IInv => BufferHoldsSuffix
  BY DEF IInv
<1> QED BY InvHolds, <1>1, PTL

\* length() and at() give what c_str() gives.
THEOREM AtIsText == Spec => []AtAgrees
<1>1. IInv => AtAgrees
  BY InvImplies
<1> QED BY InvHolds, <1>1, PTL

\* Ropes behave as strings: every call is, for the values a caller sees, an
\* assignment to one rope, and the steps of c_str() change none.
THEOREM Refinement == Spec => ImplementsText
<1>1. Init => Values!Init
  BY InitText DEF Values!Init
<1>2. ASSUME IInv, [Next]_vars
      PROVE  Values!Next \/ UNCHANGED [x \in Ropes |-> TextOf(x)]
  <2>0. TextStep
    BY <1>2, StepInv
  <2>1. CASE \A y \in Ropes : TextOf(y)' = TextOf(y)
    BY <2>1
  <2>2. ASSUME NEW x \in Ropes, NEW t, Takes(x, t)
        PROVE  Values!Assign(x, t)
    BY <2>2 DEF Values!Assign, Takes
  <2>3. ASSUME NEW x \in Ropes,
               NEW s \in Pieces \cup {<<>>} \cup {Append(s, NUL) : s \in Pieces},
               Takes(x, s) \/ Takes(x, TextOf(x) \o s)
        PROVE  Values!Next
    BY <2>2, <2>3 DEF Values!Next
  <2>4. ASSUME NEW x \in Ropes, NEW q \in Ropes,
               Takes(x, TextOf(q)) \/ Takes(x, TextOf(x) \o TextOf(q))
        PROVE  Values!Next
    BY <2>2, <2>4 DEF Values!Next
  <2> QED BY <2>0, <2>1, <2>3, <2>4 DEF TextStep
<1>3. IInv /\ [Next]_vars => [Values!Next]_([x \in Ropes |-> TextOf(x)])
  BY <1>2
<1> QED BY InvHolds, <1>1, <1>3, PTL DEF Spec, ImplementsText, Values!Spec
=============================================================================
