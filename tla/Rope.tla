-------------------------------- MODULE Rope --------------------------------
(***************************************************************************)
(* uosio::rope: a string as a graph of nodes that ropes share and nobody   *)
(* frees.  Nodes are numbered in the order they are made, 0 is the null    *)
(* pointer.  c_str() walks the graph with the way back kept in the nodes   *)
(* themselves (temp, temp_left), one turn of its loop a step here, and     *)
(* fills the buffer from its end: the left child is the later text.        *)
(***************************************************************************)
EXTENDS Integers, Sequences

CONSTANTS Ropes,      \* the rope objects
          Pieces,     \* the strings appended, as sequences of characters
          NUL,        \* the character that ends a C string
          Fresh,      \* what memory holds before it is written
          MaxNodes,   \* bound: nodes made
          MaxSize     \* bound: length of a rope

Chars == (UNION {{s[i] : i \in DOMAIN s} : s \in Pieces}) \cup {NUL}

ASSUME RopeAssumption ==
  /\ MaxNodes \in Nat /\ MaxSize \in Nat
  /\ Pieces \subseteq Seq(Chars \ {NUL, Fresh})
  /\ NUL # Fresh

VARIABLES
  node,         \* the nodes made so far
  rope,         \* root and size of each rope
  walked,       \* the rope c_str() is called on, its buffer and off; or none
  r,            \* the node the walk is at
  going_down    \* whether it comes from above

vars == <<node, rope, walked, r, going_down>>

\* Both alternatives of rope_node; s.size is Len(text).
str_t(s) ==
  [tag |-> "str", text |-> s, left |-> 0, right |-> 0, temp |-> 0, temp_left |-> FALSE]
concat_t(left, right) ==
  [tag |-> "concat", text |-> <<>>, left |-> left, right |-> right, temp |-> 0,
   temp_left |-> FALSE]

Idle == [of |-> 0, size |-> 0, off |-> 0, buffer |-> <<>>]

\* A rope without a root is not constructed yet.
Init ==
  /\ node = <<>>
  /\ rope = [x \in Ropes |-> [root |-> 0, size |-> 0]]
  /\ walked = Idle /\ r = 0 /\ going_down = TRUE

Callable == walked = Idle
Built == {x \in Ropes : rope[x].root # 0}
-----------------------------------------------------------------------------
(***************************************************************************)
(* Building.                                                               *)
(***************************************************************************)
New(nodes) ==
  /\ Len(node) + Len(nodes) <= MaxNodes
  /\ node' = node \o nodes

\* Mutant: the string becomes the root without a concat_t over it.
ConstructBare(x, s) ==
  /\ Callable
  /\ Len(s) <= MaxSize
  /\ New(<<str_t(s)>>)
  /\ rope' = [rope EXCEPT ![x] = [root |-> Len(node) + 1, size |-> Len(s)]]
  /\ UNCHANGED <<walked, r, going_down>>

\* rope(const char*) and rope(std::string_view s = "").
Construct(x, s) ==
  /\ Callable
  /\ Len(s) <= MaxSize
  /\ New(<<str_t(s), concat_t(Len(node) + 1, 0)>>)
  /\ rope' = [rope EXCEPT ![x] = [root |-> Len(node) + 2, size |-> Len(s)]]
  /\ UNCHANGED <<walked, r, going_down>>

\* append(rope_node*) for a new concat_t: it takes the old root to its right.
AppendNode(x, s) ==
  /\ New(<<str_t(s), concat_t(Len(node) + 1, rope[x].root)>>)
  /\ rope' = [rope EXCEPT ![x] = [root |-> Len(node) + 2, size |-> @.size + Len(s)]]

\* append(const char*, size_t), and += of a C string.
Append_(x, s) ==
  /\ Callable
  /\ rope[x].size + Len(s) <= MaxSize
  /\ AppendNode(x, s)
  /\ UNCHANGED <<walked, r, going_down>>

\* append(const char(&)[N]): N counts the NUL of the literal.
AppendLiteral(x, s) == Append_(x, Append(s, NUL))

\* Mutant: the two roots the other way round.
AppendRootSwapped(x, y) ==
  /\ New(<<concat_t(rope[x].root, rope[y].root)>>)
  /\ rope' = [rope EXCEPT ![x] = [root |-> Len(node) + 1, size |-> @.size + rope[y].size]]

\* append(rope_node*, true): the other rope's root becomes the left child.
AppendRoot(x, y) ==
  /\ New(<<concat_t(rope[y].root, rope[x].root)>>)
  /\ rope' = [rope EXCEPT ![x] = [root |-> Len(node) + 1, size |-> @.size + rope[y].size]]

\* append(const rope&) and append(rope&&), x itself included.
AppendRope(x, y) ==
  /\ Callable
  /\ rope[x].size + rope[y].size <= MaxSize
  /\ node[rope[y].root].tag = "concat"
  /\ AppendRoot(x, y)
  /\ UNCHANGED <<walked, r, going_down>>

\* The implicit copy and move: the pointers.  x = y + z is this and an append.
Copy(x, y) ==
  /\ Callable
  /\ rope' = [rope EXCEPT ![x] = rope[y]]
  /\ UNCHANGED <<node, walked, r, going_down>>
-----------------------------------------------------------------------------
(***************************************************************************)
(* c_str().                                                                *)
(***************************************************************************)
CStr(x) ==
  /\ Callable
  /\ LET n == rope[x].size
     IN walked' = [of |-> x, size |-> n, off |-> n, buffer |-> [i \in 1 .. n + 1 |-> Fresh]]
  /\ r' = rope[x].root
  /\ node' = [node EXCEPT ![rope[x].root].temp = 0]
  /\ going_down' = TRUE
  /\ UNCHANGED rope

\* Mutant: the way back is set only on a node that has none yet.
EnterOnce(child, left) ==
  /\ node' = [node EXCEPT ![r].temp_left = left, ![child].temp = IF @ = 0 THEN r ELSE @]
  /\ going_down' = TRUE
  /\ r' = child

\* Down into a child, which gets its way back.
Enter(child, left) ==
  /\ node' = [node EXCEPT ![r].temp_left = left, ![child].temp = r]
  /\ going_down' = TRUE
  /\ r' = child

\* Back to where this node was entered from.
Leave == r' = node[r].temp /\ going_down' = FALSE

\* Mutant: the copy goes to where off was before it moved.
FillLate(s) ==
  LET off == walked.off
  IN walked' = [walked EXCEPT
       !.off = off - Len(s),
       !.buffer = [i \in DOMAIN @ |-> IF i - off \in DOMAIN s THEN s[i - off] ELSE @[i]]]

\* memcpy(buffer + off, s.c_str, s.size) with off moved before it.
Fill(s) ==
  LET off == walked.off - Len(s)
  IN walked' = [walked EXCEPT
       !.off = off,
       !.buffer = [i \in DOMAIN @ |-> IF i - off \in DOMAIN s THEN s[i - off] ELSE @[i]]]

DownConcat ==
  LET c == node[r]
  IN \/ /\ c.left # 0
        /\ Enter(c.left, TRUE)
     \/ /\ c.left = 0 /\ c.right # 0
        /\ Enter(c.right, FALSE)
     \/ /\ c.left = 0 /\ c.right = 0
        /\ Leave
        /\ UNCHANGED node

Down ==
  /\ going_down
  /\ \/ node[r].tag = "concat" /\ DownConcat /\ UNCHANGED walked
     \/ node[r].tag = "str" /\ Fill(node[r].text) /\ Leave /\ UNCHANGED node

\* Mutant: the node is done and r stays at it.
UpStays ==
  /\ ~going_down
  /\ \/ node[r].temp_left /\ node[r].right # 0 /\ Enter(node[r].right, FALSE)
     \/ ~(node[r].temp_left /\ node[r].right # 0) /\ UNCHANGED <<node, r, going_down>>
  /\ UNCHANGED walked

Up ==
  /\ ~going_down
  /\ \/ node[r].temp_left /\ node[r].right # 0 /\ Enter(node[r].right, FALSE)
     \/ ~(node[r].temp_left /\ node[r].right # 0) /\ Leave /\ UNCHANGED node
  /\ UNCHANGED walked

Turn == r # 0 /\ (Down \/ Up) /\ UNCHANGED rope

\* The walk is over: ret[size] = '\0', and the caller has its string.
Return ==
  /\ walked # Idle /\ r = 0
  /\ walked' = Idle /\ going_down' = TRUE
  /\ UNCHANGED <<node, rope, r>>

-----------------------------------------------------------------------------
(***************************************************************************)
(* at(index), which calls itself on the nodes; st is what it passes by     *)
(* reference.                                                              *)
(***************************************************************************)
AtState == [so_far : Int, stop : BOOLEAN, ret : Chars \cup {Fresh}]

\* c_str[i]; past the string lies what memory holds.
CharAt(s, i) == IF i + 1 \in DOMAIN s THEN s[i + 1] ELSE Fresh

\* The alternative for str_t, with no look at stop.
AtStr(s, index, st) ==
  LET so_far == st.so_far - Len(s)
  IN IF index >= so_far
     THEN [so_far |-> so_far, stop |-> TRUE, ret |-> CharAt(s, index - so_far)]
     ELSE [st EXCEPT !.so_far = so_far]

\* Mutant: a concat_t does not look at stop either.
VisitThrough(index) ==
  LET visit[n \in 0 .. Len(node)] ==
        [st \in AtState |->
           IF n = 0 THEN st
           ELSE IF node[n].tag = "str" THEN AtStr(node[n].text, index, st)
           ELSE visit[node[n].right][visit[node[n].left][st]]]
  IN visit

Visit(index) ==
  LET visit[n \in 0 .. Len(node)] ==
        [st \in AtState |->
           IF n = 0 THEN st
           ELSE IF node[n].tag = "str" THEN AtStr(node[n].text, index, st)
           ELSE IF st.stop THEN st
           ELSE visit[node[n].right][visit[node[n].left][st]]]
  IN visit

at(x, index) ==
  Visit(index)[rope[x].root][[so_far |-> rope[x].size, stop |-> FALSE, ret |-> NUL]].ret
-----------------------------------------------------------------------------
Next ==
  \/ \E x \in Ropes, s \in Pieces \cup {<<>>} : Construct(x, s)
  \/ \E x \in Built, s \in Pieces : Append_(x, s) \/ AppendLiteral(x, s)
  \/ \E x, y \in Built : AppendRope(x, y)
  \/ \E x \in Ropes, y \in Built : Copy(x, y)
  \/ \E x \in Built : CStr(x)
  \/ Turn \/ Return

\* c_str() runs on: a call is one thread's.
Spec == Init /\ [][Next]_vars /\ WF_vars(Turn) /\ WF_vars(Return)
-----------------------------------------------------------------------------
(***************************************************************************)
(* Properties.                                                             *)
(***************************************************************************)
Id == 1 .. Len(node)

\* The text below a node, right child first.
TextIn(nodes) ==
  LET T[n \in 0 .. Len(nodes)] ==
        IF n = 0 THEN <<>>
        ELSE IF nodes[n].tag = "str" THEN nodes[n].text
        ELSE T[nodes[n].right] \o T[nodes[n].left]
  IN T
Text == TextIn(node)

\* The value of a rope, for a caller.
TextOf(x) == Text[rope[x].root]

Node == [tag : {"str", "concat"}, text : Seq(Chars), left : Nat, right : Nat,
         temp : Nat, temp_left : BOOLEAN]

\* Children are older than their parent, and a right child is a concat_t
\* (std::get<concat_t> on the way up cannot fail, and at() stops at the next
\* node after its hit).
WellFormed(nodes) ==
  \A n \in 1 .. Len(nodes) :
    /\ nodes[n].left < n /\ nodes[n].right < n
    /\ nodes[n].tag = "str" => nodes[n].left = 0 /\ nodes[n].right = 0
    /\ nodes[n].right # 0 => nodes[nodes[n].right].tag = "concat"

\* Types, and the shape every operation relies on.
TypeOK ==
  /\ node \in Seq(Node) /\ WellFormed(node)
  /\ rope \in [Ropes -> [root : 0 .. Len(node), size : 0 .. MaxSize]]
  /\ \A x \in Built : node[rope[x].root].tag = "concat"
  /\ \/ walked = Idle
     \/ /\ walked \in [of : Ropes, size : Nat, off : Int,
                       buffer : Seq(Chars \cup {Fresh})]
        /\ Len(walked.buffer) = walked.size + 1
  /\ r \in 0 .. Len(node)
  /\ going_down \in BOOLEAN /\ (~going_down => r = 0 \/ node[r].tag = "concat")

\* P is a way back: from the node the walk is at the temps lead up, each over
\* the edge its parent's temp_left says was taken, to the root and end there.
WayBack(P) ==
  /\ {r, rope[walked.of].root} \subseteq P
  /\ \A n \in P :
       IF n = rope[walked.of].root THEN node[n].temp = 0
       ELSE LET p == node[n].temp
            IN p \in P /\ p > n /\ n = IF node[p].temp_left THEN node[p].left ELSE node[p].right

\* The way back is kept in nodes that other ropes, and other places of this
\* rope, share.  Whatever earlier walks left there, there is one.
PathIntact == r # 0 => \E P \in SUBSET (r .. rope[walked.of].root) : WayBack(P)

\* c_str() fills its buffer of size + 1 from the end: at every turn what lies
\* from off on is the text's tail, off never leaves the buffer, and when the
\* walk is over every character is in place, a shared node's once for each
\* time it occurs.
BufferHoldsSuffix ==
  walked # Idle =>
    LET text == TextOf(walked.of)
    IN /\ walked.size = Len(text)
       /\ walked.off \in 0 .. walked.size
       /\ \A i \in walked.off + 1 .. walked.size : walked.buffer[i] = text[i]
       /\ r = 0 => walked.off = 0

\* length() and at() read the graph by another way than c_str() and agree with
\* it on every index.
AtAgrees ==
  \A x \in Built :
    /\ rope[x].size = Len(TextOf(x))
    /\ \A i \in 1 .. rope[x].size : at(x, i - 1) = TextOf(x)[i]

\* Ropes share nodes and yet behave as values: no append to one rope changes
\* another, appending a rope to itself doubles it, and c_str() changes none.
Values == INSTANCE TextValues
  WITH text <- [x \in Ropes |-> TextOf(x)],
       Pieces <- Pieces \cup {<<>>} \cup {Append(s, NUL) : s \in Pieces}
ImplementsText == Values!Spec

\* c_str() returns: the way back it leaves in the nodes never leads in a circle.
WalkEnds == walked # Idle ~> walked = Idle
=============================================================================
