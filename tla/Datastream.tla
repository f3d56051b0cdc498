----------------------------- MODULE Datastream -----------------------------
(***************************************************************************)
(* The wire format of uosio::datastream: what operator<< writes and what   *)
(* operator>> reads back, for a representative of each family of types.    *)
(* A read starts at a cursor p in a buffer d and gives the value and the   *)
(* cursor after it, or fails, as uosio::check would.                       *)
(***************************************************************************)
EXTENDS Integers, Sequences, FiniteSets

CONSTANTS Group,   \* values of a varint's byte without its top bit: 2^7
          Word     \* values of a uint32_t

ASSUME DatastreamAssumption ==
  /\ Group \in Nat /\ Group > 1
  /\ Word \in Nat /\ Word > 1 /\ Word % 2 = 0

Byte == 2 * Group

Types == {"int", "unsigned_int", "signed_int", "string", "optional", "set", "variant"}

\* What a variable of each type can hold: an int of two bytes, a string or a set
\* whose size fits unsigned_int.  An optional is a sequence of at most one int, a
\* variant holds an int or a string.
Ints == 0 .. Byte * Byte - 1
Strings == {s \in Seq(0 .. Byte - 1) : Len(s) < Word}

TypeValues(t) ==
  CASE t = "int" -> Ints
    [] t = "unsigned_int" -> 0 .. Word - 1
    [] t = "signed_int" -> -(Word \div 2) .. (Word \div 2) - 1
    [] t = "string" -> Strings
    [] t = "optional" -> {<<>>} \cup {<<v>> : v \in Ints}
    [] t = "set" -> {s \in SUBSET (0 .. Word - 1) : Cardinality(s) < Word}
    [] t = "variant" -> [index : {0}, val : Ints] \cup [index : {1}, val : Strings]

\* T(), for the types above.
Default(t) ==
  CASE t \in {"int", "unsigned_int", "signed_int"} -> 0
    [] t \in {"string", "optional"} -> <<>>
    [] t = "set" -> {}
    [] t = "variant" -> [index |-> 0, val |-> 0]
-----------------------------------------------------------------------------
(***************************************************************************)
(* Writing.                                                                *)
(***************************************************************************)
\* sizeof(int) is 2 here, the low byte first.
write_int(v) == <<v % Byte, v \div Byte>>

write_unsigned[v \in 0 .. Word - 1] ==
  IF v < Group THEN <<v>> ELSE <<(v % Group) + Group>> \o write_unsigned[v \div Group]

\* (v << 1) ^ (v >> 31)
ZigZag(v) == IF v >= 0 THEN 2 * v ELSE -2 * v - 1

write_string(s) == write_unsigned[Len(s)] \o s

write_optional(o) == IF o = <<>> THEN <<0>> ELSE <<1>> \o write_int(o[1])

\* The elements in the order of std::set.
write_elems[s \in SUBSET (0 .. Word - 1)] ==
  IF s = {} THEN <<>>
  ELSE LET least == CHOOSE x \in s : \A y \in s : x <= y
       IN write_unsigned[least] \o write_elems[s \ {least}]

write_variant(v) ==
  write_unsigned[v.index] \o IF v.index = 0 THEN write_int(v.val) ELSE write_string(v.val)

Write(t, v) ==
  CASE t = "int" -> write_int(v)
    [] t = "unsigned_int" -> write_unsigned[v]
    [] t = "signed_int" -> write_unsigned[ZigZag(v)]
    [] t = "string" -> write_string(v)
    [] t = "optional" -> write_optional(v)
    [] t = "set" -> write_unsigned[Cardinality(v)] \o write_elems[v]
    [] t = "variant" -> write_variant(v)
-----------------------------------------------------------------------------
(***************************************************************************)
(* Reading.                                                                *)
(***************************************************************************)
Fail == [ok |-> FALSE, pos |-> 0, val |-> 0]
Got(p, v) == [ok |-> TRUE, pos |-> p, val |-> v]

\* What memcpy finds: past the buffer lies something else.
Copied(d, p, n) == [i \in 1 .. n |-> IF p + i \in DOMAIN d THEN d[p + i] ELSE 0]

\* Mutant: the read is not checked.
read_unchecked(d, p, n) == Got(p + n, Copied(d, p, n))

\* Mutant: the last byte of the buffer cannot be read.
read_strict(d, p, n) == IF Len(d) - p > n THEN Got(p + n, Copied(d, p, n)) ELSE Fail

\* datastream::read
read(d, p, n) == IF Len(d) - p >= n THEN Got(p + n, Copied(d, p, n)) ELSE Fail

read_int(d, p) ==
  LET b == read(d, p, 2)
  IN IF b.ok THEN Got(b.pos, b.val[1] + Byte * b.val[2]) ELSE Fail

\* The locals of the loop: the cursor, the value so far, and 1 << by.
Locals == [q : Nat, v : Nat, weight : Nat]

\* Mutant: by is not advanced, every group lands on the lowest bits.
read_unsigned_flat(d, p) ==
  LET Loop[l \in Locals] ==
        IF l.q >= Len(d) THEN Fail
        ELSE LET w == l.v + (((d[l.q + 1] % Group) * l.weight) % Word)
             IN IF d[l.q + 1] >= Group
                THEN Loop[[q |-> l.q + 1, v |-> w, weight |-> l.weight]]
                ELSE Got(l.q + 1, w)
  IN Loop[[q |-> p, v |-> 0, weight |-> 1]]

\* One get() for each group.
read_unsigned(d, p) ==
  LET Loop[l \in Locals] ==
        IF l.q >= Len(d) THEN Fail
        ELSE LET w == l.v + (((d[l.q + 1] % Group) * l.weight) % Word)
             IN IF d[l.q + 1] >= Group
                THEN Loop[[q |-> l.q + 1, v |-> w, weight |-> l.weight * Group]]
                ELSE Got(l.q + 1, w)
  IN Loop[[q |-> p, v |-> 0, weight |-> 1]]

\* (v >> 1) ^ (~(v & 1) + 1)
UnZigZag(v) == IF v % 2 = 0 THEN v \div 2 ELSE -(v \div 2) - 1

read_signed(d, p) ==
  LET v == read_unsigned(d, p) IN IF v.ok THEN Got(v.pos, UnZigZag(v.val)) ELSE Fail

\* Through a std::vector<char>.
read_string(d, p) ==
  LET n == read_unsigned(d, p) IN IF n.ok THEN read(d, n.pos, n.val) ELSE Fail

read_optional(d, p) ==
  LET valid == read(d, p, 1)
      v == read_int(d, valid.pos)
  IN IF ~valid.ok THEN Fail
     ELSE IF valid.val[1] = 0 THEN Got(valid.pos, <<>>)
     ELSE IF v.ok THEN Got(v.pos, <<v.val>>) ELSE Fail

read_set(d, p) ==
  LET Loop[l \in [n : Nat, q : Nat, s : SUBSET Nat]] ==
        IF l.n = 0 THEN Got(l.q, l.s)
        ELSE LET v == read_unsigned(d, l.q)
             IN IF v.ok THEN Loop[[n |-> l.n - 1, q |-> v.pos, s |-> l.s \cup {v.val}]] ELSE Fail
      sz == read_unsigned(d, p)
  IN IF sz.ok THEN Loop[[n |-> sz.val, q |-> sz.pos, s |-> {}]] ELSE Fail

\* deserialize<0>, whose check refuses any other index.
read_variant(d, p) ==
  LET index == read_unsigned(d, p)
      v == IF index.val = 0 THEN read_int(d, index.pos) ELSE read_string(d, index.pos)
  IN IF index.ok /\ index.val \in {0, 1} /\ v.ok
     THEN Got(v.pos, [index |-> index.val, val |-> v.val]) ELSE Fail

Read(t, d, p) ==
  CASE t = "int" -> read_int(d, p)
    [] t = "unsigned_int" -> read_unsigned(d, p)
    [] t = "signed_int" -> read_signed(d, p)
    [] t = "string" -> read_string(d, p)
    [] t = "optional" -> read_optional(d, p)
    [] t = "set" -> read_set(d, p)
    [] t = "variant" -> read_variant(d, p)
=============================================================================
