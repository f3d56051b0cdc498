-------------------------- MODULE MultiIndexProofs --------------------------
(***************************************************************************)
(* What a contract that opens one multi_index object per table gets, for   *)
(* every table, every set of keys and every sequence of calls: the cache   *)
(* agrees with the database, the index agrees with the rows, and the next  *)
(* primary key is free.  OneInstance is a hypothesis of the theorems that  *)
(* need it, and is exactly what the runs with two instances violate.  A    *)
(* second part is about any number of objects, and the last one shows that *)
(* one object implements OrderedTable.                                     *)
(***************************************************************************)
EXTENDS MultiIndex, TLAPS, WellFoundedInduction

OneInstance == \A m, n \in Instances : m = n

IInv ==
  /\ TypeOK
  /\ CacheCoherent
  /\ IndexCoversRows
  /\ IndexMatchesRows
  /\ NextKeyAboveRows

\* A cache that lookups may start from or end with.
Good(s) == s \in Seq(Item) /\ Coherent(s)

-----------------------------------------------------------------------------
(* Lookups keep a good cache good.                                         *)

\* Reading a row that is not cached yet adds a coherent object at the end.
LEMMA AppendRow ==
  ASSUME IInv, NEW s, Good(s), NEW k \in DOMAIN prim,
         \A j \in 1 .. Len(s) : s[j].pk # k
  PROVE  Good(Append(s, FromRow(k))) /\ Len(Append(s, FromRow(k))) = Len(s) + 1
<1> DEFINE t == Append(s, FromRow(k))
<1>1. k \in Keys /\ prim[k] \in Entry /\ gen[k] \in Nat
  BY DEF IInv, TypeOK
<1>2. FromRow(k) \in Item
  BY <1>1 DEF FromRow, Item, Entry
<1>3. t \in Seq(Item) /\ Len(t) = Len(s) + 1
  BY <1>2 DEF Good
<1>4. \A i \in 1 .. Len(t) : t[i] = IF i = Len(s) + 1 THEN FromRow(k) ELSE s[i]
  BY <1>2 DEF Good
<1>5. /\ FromRow(k).pk = k /\ FromRow(k).pitr = gen[k]
      /\ FromRow(k).val = prim[k].sec /\ FromRow(k).iter = Unset
  BY DEF FromRow
<1>6. Len(s) \in Nat
  BY DEF Good
<1>7. ASSUME NEW i \in 1 .. Len(t)
      PROVE  /\ RowLive(t[i].pk, t[i].pitr)
             /\ t[i].val = prim[t[i].pk].sec
             /\ t[i].iter = Unset \/ EntryLive(t[i].pk, t[i].iter)
  <2>1. CASE i = Len(s) + 1
    BY <1>4, <1>5, <2>1 DEF RowLive
  <2>2. CASE i \in 1 .. Len(s)
    BY <1>4, <1>6, <2>2 DEF Good, Coherent
  <2> QED BY <1>3, <1>6, <2>1, <2>2
<1>8. \A i, j \in 1 .. Len(t) : t[i].pk = t[j].pk => i = j
  BY <1>3, <1>4, <1>5, <1>6, SMTT(30) DEF Good, Coherent
<1> QED BY <1>3, <1>7, <1>8 DEF Good, Coherent

\* Giving an object the handle of its index entry changes no other field.
LEMMA RememberHandle ==
  ASSUME IInv, NEW s, Good(s), NEW i \in 1 .. Len(s), NEW h,
         EntryLive(s[i].pk, h)
  PROVE  Good([s EXCEPT ![i].iter = h]) /\ Len([s EXCEPT ![i].iter = h]) = Len(s)
<1> DEFINE t == [s EXCEPT ![i].iter = h]
<1>1. s[i] \in Item /\ Len(s) \in Nat /\ DOMAIN s = 1 .. Len(s)
  BY DEF Good
<1>2. h \in Nat
  BY <1>1 DEF EntryLive, IInv, TypeOK, Item
<1>3. [s[i] EXCEPT !.iter = h] \in Item
  BY <1>1, <1>2 DEF Item
<1>4. t \in Seq(Item) /\ Len(t) = Len(s)
  BY <1>1, <1>3 DEF Good
<1>5. \A j \in 1 .. Len(s) :
        /\ t[j].pk = s[j].pk /\ t[j].pitr = s[j].pitr /\ t[j].val = s[j].val
        /\ t[j].iter = IF j = i THEN h ELSE s[j].iter
  <2>1. \A j \in 1 .. Len(s) : s[j] \in Item
    BY DEF Good
  <2> QED BY <1>1, <2>1 DEF Item
<1>6. \A j \in 1 .. Len(s) :
        /\ RowLive(t[j].pk, t[j].pitr)
        /\ t[j].val = prim[t[j].pk].sec
        /\ t[j].iter = Unset \/ EntryLive(t[j].pk, t[j].iter)
  BY <1>5 DEF Good, Coherent
<1>7. \A j, l \in 1 .. Len(s) : t[j].pk = t[l].pk => j = l
  BY <1>5 DEF Good, Coherent
<1> QED BY <1>4, <1>6, <1>7 DEF Good, Coherent

\* The outcomes of a lookup in s: good caches that contain at least what s did.
GoodOutcomes(s, O) == \A o \in O : Good(o.cache) /\ Len(s) <= Len(o.cache)

\* load_object_by_primary_iterator: a row cached under its key is cached under
\* its live handle, so a miss by handle is a miss by key.
LEMMA LoadedGood ==
  ASSUME IInv, NEW s, Good(s), NEW k \in DOMAIN prim
  PROVE  Good(Loaded(s, k)) /\ Len(s) <= Len(Loaded(s, k))
<1>1. Len(s) \in Nat
  BY DEF Good
<1>2. CASE \E j \in 1 .. Len(s) : HoldsRow(s[j], k)
  BY <1>1, <1>2 DEF Loaded
<1>3. CASE ~ \E j \in 1 .. Len(s) : HoldsRow(s[j], k)
  <2>1. \A j \in 1 .. Len(s) : s[j].pk # k
    BY <1>3 DEF HoldsRow, Good, Coherent, RowLive
  <2>2. Good(Append(s, FromRow(k))) /\ Len(Append(s, FromRow(k))) = Len(s) + 1
    BY <2>1, AppendRow
  <2> QED BY <1>1, <1>3, <2>2 DEF Loaded
<1> QED BY <1>2, <1>3

\* find on a key that has a row.
LEMMA FoundInGood ==
  ASSUME IInv, NEW s, Good(s), NEW k \in DOMAIN prim
  PROVE  Good(FoundIn(s, k)) /\ Len(s) <= Len(FoundIn(s, k))
<1>1. Len(s) \in Nat
  BY DEF Good
<1> QED BY <1>1, LoadedGood DEF FoundIn

\* A lookup that ends at the end iterator leaves the cache as it was.
LEMMA EndGood ==
  ASSUME NEW s, Good(s) PROVE GoodOutcomes(s, {AtEnd(s)})
<1>1. Len(s) \in Nat
  BY DEF Good
<1> QED BY <1>1 DEF GoodOutcomes, AtEnd

\* find, with any key: a cached key has a live row.
LEMMA FindAtGood ==
  ASSUME IInv, NEW s, Good(s), NEW k PROVE GoodOutcomes(s, FindAt(s, k))
<1>1. CASE Cached(s, k) \/ k \in DOMAIN prim
  <2>1. k \in DOMAIN prim
    BY <1>1 DEF Cached, Good, Coherent, RowLive
  <2>2. Good(FoundIn(s, k)) /\ Len(s) <= Len(FoundIn(s, k))
    BY <2>1, FoundInGood
  <2> QED BY <1>1, <2>2 DEF GoodOutcomes, FindAt, Cursor
<1>2. CASE ~(Cached(s, k) \/ k \in DOMAIN prim)
  BY <1>2, EndGood DEF FindAt
<1> QED BY <1>1, <1>2

\* An iterator to a row that the host has just named.
LEMMA LoadAtGood ==
  ASSUME IInv, NEW s, Good(s), NEW k \in DOMAIN prim
  PROVE  GoodOutcomes(s, LoadAt(s, k))
  BY LoadedGood DEF GoodOutcomes, LoadAt, Cursor

\* The object of an index entry is found, or loaded, and remembers the entry.
LEMMA IndexAtGood ==
  ASSUME IInv, NEW s, Good(s), NEW k \in DOMAIN idx
  PROVE  GoodOutcomes(s, IndexAt(s, k))
<1> DEFINE t == FoundIn(s, k)
<1>1. k \in DOMAIN prim
  BY DEF IInv, IndexCoversRows
<1>2. Good(t) /\ Len(s) <= Len(t)
  BY <1>1, FoundInGood
<1>3. ASSUME NEW j \in LastWith(t, k)
      PROVE  Good([t EXCEPT ![j].iter = gen[k]]) /\ Len([t EXCEPT ![j].iter = gen[k]]) = Len(t)
  <2>1. j \in 1 .. Len(t) /\ t[j].pk = k
    BY DEF LastWith
  <2>2. EntryLive(t[j].pk, gen[k])
    BY <2>1 DEF EntryLive
  <2> QED BY <1>2, <2>1, <2>2, RememberHandle
<1> QED BY <1>2, <1>3 DEF GoodOutcomes, IndexAt, Cursor

\* Bounds and steps in the primary order.
LEMMA LandGood ==
  ASSUME IInv, NEW s, Good(s), NEW S \in SUBSET DOMAIN prim
  PROVE  GoodOutcomes(s, LandFirst(s, S)) /\ GoodOutcomes(s, LandLast(s, S))
<1>1. \A k \in S : GoodOutcomes(s, LoadAt(s, k))
  BY LoadAtGood
<1>2. GoodOutcomes(s, {AtEnd(s)})
  BY EndGood
<1>3. GoodOutcomes(s, LandFirst(s, S))
  BY <1>1, <1>2 DEF GoodOutcomes, LandFirst
<1>4. GoodOutcomes(s, LandLast(s, S))
  BY <1>1 DEF GoodOutcomes, LandLast
<1> QED BY <1>3, <1>4

\* Bounds and steps in the secondary order.
LEMMA IndexGood ==
  ASSUME IInv, NEW s, Good(s), NEW S \in SUBSET DOMAIN idx
  PROVE  GoodOutcomes(s, IndexFirst(s, S)) /\ GoodOutcomes(s, IndexLast(s, S))
<1>1. \A k \in S : GoodOutcomes(s, IndexAt(s, k))
  BY IndexAtGood
<1>2. GoodOutcomes(s, {AtEnd(s)})
  BY EndGood
<1>3. GoodOutcomes(s, IndexFirst(s, S))
  BY <1>1, <1>2 DEF GoodOutcomes, IndexFirst
<1>4. GoodOutcomes(s, IndexLast(s, S))
  BY <1>1 DEF GoodOutcomes, IndexLast
<1> QED BY <1>3, <1>4

\* operator++ and operator-- on the primary order.
LEMMA WalkGood ==
  ASSUME IInv, NEW s, Good(s), NEW i \in 1 .. Len(s)
  PROVE  GoodOutcomes(s, After(s, i)) /\ GoodOutcomes(s, Before(s, i))
<1>1. GoodOutcomes(s, {})
  BY DEF GoodOutcomes
<1> QED BY <1>1, LandGood DEF After, Before

\* The handle an object uses for its index entry is always live.
LEMMA HandleLive ==
  ASSUME IInv, NEW s, Good(s), NEW i \in 1 .. Len(s)
  PROVE  /\ EntryHandle(s[i]) \in Nat /\ EntryLive(s[i].pk, EntryHandle(s[i]))
         /\ WriteHandle(s[i]) \in Nat /\ EntryLive(s[i].pk, WriteHandle(s[i]))
         /\ s[i].pk \in Keys /\ s[i].pk \in DOMAIN prim /\ s[i].pk \in DOMAIN idx
<1>1. s[i] \in Item
  BY DEF Good
<1>2. s[i].pk \in Keys /\ s[i].pk \in DOMAIN prim /\ s[i].pk \in DOMAIN idx
  BY <1>1 DEF Good, Coherent, RowLive, IInv, IndexCoversRows, Item
<1>3. gen[s[i].pk] \in Nat
  BY <1>2 DEF IInv, TypeOK
<1>4. db_idx_find_primary(s[i].pk) = gen[s[i].pk]
  BY <1>2 DEF db_idx_find_primary
<1>5. s[i].iter = Unset \/ s[i].iter = gen[s[i].pk]
  BY DEF Good, Coherent, EntryLive
<1> QED BY <1>2, <1>3, <1>4, <1>5 DEF EntryHandle, WriteHandle, EntryLive, Unset

\* operator++ and operator-- on the secondary order.
LEMMA IndexWalkGood ==
  ASSUME IInv, NEW s, Good(s), NEW i \in 1 .. Len(s)
  PROVE  GoodOutcomes(s, IndexAfter(s, i)) /\ GoodOutcomes(s, IndexBefore(s, i))
<1> DEFINE h == EntryHandle(s[i])
           t == [s EXCEPT ![i].iter = h]
<1>1. h \in Nat /\ EntryLive(s[i].pk, h) /\ h # EndItr
  BY HandleLive DEF EndItr
<1>2. Good(t) /\ Len(t) = Len(s)
  BY <1>1, RememberHandle
<1>3. /\ GoodOutcomes(t, IndexFirst(t, {k \in DOMAIN idx : SecBefore(s[i].pk, k)}))
      /\ GoodOutcomes(t, IndexLast(t, {k \in DOMAIN idx : SecBefore(k, s[i].pk)}))
  BY <1>2, IndexGood
<1>4. /\ IndexAfter(s, i) = IndexFirst(t, {k \in DOMAIN idx : SecBefore(s[i].pk, k)})
      /\ IndexBefore(s, i) = IndexLast(t, {k \in DOMAIN idx : SecBefore(k, s[i].pk)})
  BY <1>1 DEF IndexAfter, IndexBefore
<1> QED BY <1>2, <1>3, <1>4 DEF GoodOutcomes

-----------------------------------------------------------------------------
(* Every call keeps the invariant.                                         *)

\* The cache of each instance, seen through the invariant.
LEMMA CacheGood ==
  ASSUME IInv, NEW m \in Instances PROVE Good(items[m])
  BY DEF IInv, TypeOK, CacheCoherent, Good

\* A failed check changes nothing but the verdict.
LEMMA AbortInv ==
  ASSUME IInv, NEW op, NEW arg, Abort(op, arg) PROVE IInv'
  BY DEF Abort, IInv, TypeOK, CacheCoherent, Coherent, RowLive, EntryLive,
         IndexCoversRows, IndexMatchesRows, NextKeyAboveRows

\* A call that only replaces the cache of one instance by a good one.
LEMMA CacheOnly ==
  ASSUME IInv, NEW m \in Instances, NEW c, Good(c),
         items' = [items EXCEPT ![m] = c],
         UNCHANGED <<prim, idx, gen, own, aborted>>,
         next_pk' \in [Instances -> 0 .. MaxU], NextKeyAboveRows'
  PROVE  IInv'
<1>1. items \in [Instances -> Seq(Item)] /\ c \in Seq(Item)
  BY DEF IInv, TypeOK, Good
<1>2. items' \in [Instances -> Seq(Item)]
  BY <1>1
<1>3. TypeOK'
  BY <1>2 DEF IInv, TypeOK
<1>4. \A n \in Instances : Coherent(items'[n])
  BY <1>1 DEF IInv, CacheCoherent, Good
<1>5. CacheCoherent'
  BY <1>4 DEF CacheCoherent, Coherent, RowLive, EntryLive
<1>6. IndexCoversRows' /\ IndexMatchesRows'
  BY DEF IInv, IndexCoversRows, IndexMatchesRows
<1> QED BY <1>3, <1>5, <1>6 DEF IInv

\* Lookups.
LEMMA LookupInv ==
  ASSUME IInv, NEW m \in Instances, NEW op, NEW arg, NEW O,
         GoodOutcomes(items[m], O), Lookup(m, op, arg, O)
  PROVE  IInv'
<1>1. CASE O = {} /\ Abort(op, arg)
  BY <1>1, AbortInv
<1>2. ASSUME NEW o \in O, items' = [items EXCEPT ![m] = o.cache],
             Reply(op, arg, o.res), UNCHANGED <<prim, idx, gen, next_pk>>
      PROVE  IInv'
  <2>1. Good(o.cache)
    BY DEF GoodOutcomes
  <2>2. next_pk' \in [Instances -> 0 .. MaxU] /\ NextKeyAboveRows'
    BY <1>2 DEF IInv, TypeOK, NextKeyAboveRows
  <2> QED BY <1>2, <2>1, <2>2, CacheOnly DEF Reply
<1> QED BY <1>1, <1>2 DEF Lookup

\* The key after a key is above it, unless it is the tag.
LEMMA SuccessorAbove ==
  ASSUME NEW pk \in 0 .. MaxU
  PROVE  /\ Successor(pk) \in 0 .. MaxU
         /\ Successor(pk) < no_available_primary_key => pk < Successor(pk)
  BY MultiIndexAssumption
     DEF Successor, no_available_primary_key, unset_next_primary_key

\* available_primary_key: the last row in key order is above all others.
LEMMA AvailableInv ==
  ASSUME IInv, OneInstance, NEW m \in Instances, available_primary_key(m)
  PROVE  IInv'
<1> DEFINE s == items[m]
<1>0. Good(s) /\ next_pk[m] \in 0 .. MaxU
  BY CacheGood DEF IInv, TypeOK
<1>1. ASSUME NEW o \in NextKeys(m)
      PROVE  /\ Good(o.cache) /\ o.key \in 0 .. MaxU
             /\ o.key < no_available_primary_key => \A k \in DOMAIN prim : k < o.key
  <2>1. CASE next_pk[m] # unset_next_primary_key
    BY <1>0, <2>1 DEF NextKeys, IInv, NextKeyAboveRows
  <2>2. CASE next_pk[m] = unset_next_primary_key /\ DOMAIN prim = {}
    BY <1>0, <2>2, MultiIndexAssumption DEF NextKeys
  <2>3. CASE next_pk[m] = unset_next_primary_key /\ DOMAIN prim # {}
    <3>1. PICK b \in LandFirst(s, DOMAIN prim) :
            \E e \in LandLast(b.cache, DOMAIN prim) :
              o = [cache |-> e.cache, key |-> Successor(e.res[1])]
      BY <2>3 DEF NextKeys
    <3>2. PICK e \in LandLast(b.cache, DOMAIN prim) :
            o = [cache |-> e.cache, key |-> Successor(e.res[1])]
      BY <3>1
    <3>3. Good(b.cache)
      BY <1>0, LandGood DEF GoodOutcomes
    <3>4. Good(e.cache)
      BY <3>3, LandGood DEF GoodOutcomes
    <3>5. PICK l \in DOMAIN prim : IsLast(l, DOMAIN prim, PkBefore) /\ e \in LoadAt(b.cache, l)
      BY DEF LandLast
    <3>6. e.res[1] = l
      BY <3>5 DEF LoadAt, Cursor, HoldsRow
    <3>7. l \in 0 .. MaxU /\ DOMAIN prim \subseteq 0 .. MaxU
      BY MultiIndexAssumption DEF IInv, TypeOK
    <3>8. \A k \in DOMAIN prim : k <= l
      BY <3>5, <3>7 DEF IsLast, PkBefore
    <3>9. o.cache = e.cache /\ o.key = Successor(l)
      BY <3>2, <3>6
    <3>10. /\ Successor(l) \in 0 .. MaxU
           /\ Successor(l) < no_available_primary_key => l < Successor(l)
      BY <3>7, SuccessorAbove
    <3> QED BY <3>4, <3>7, <3>8, <3>9, <3>10
  <2> QED BY <2>1, <2>2, <2>3
<1>2. ASSUME NEW o \in NextKeys(m), Abort("available_primary_key", <<>>) PROVE IInv'
  BY <1>2, AbortInv
<1>3. ASSUME NEW o \in NextKeys(m),
             items' = [items EXCEPT ![m] = o.cache],
             next_pk' = [next_pk EXCEPT ![m] = o.key],
             Reply("available_primary_key", <<>>, <<o.key>>),
             UNCHANGED <<prim, idx, gen>>
      PROVE  IInv'
  <2>1. next_pk' \in [Instances -> 0 .. MaxU]
    BY <1>1, <1>3 DEF IInv, TypeOK
  <2>2. NextKeyAboveRows'
    BY <1>1, <1>3 DEF IInv, TypeOK, NextKeyAboveRows, OneInstance,
                      no_available_primary_key
  <2> QED BY <1>1, <1>3, <2>1, <2>2, CacheOnly DEF Reply
<1> QED BY <1>2, <1>3 DEF available_primary_key

\* Storing a row moves the next key above it.
LEMMA BumpedAbove ==
  ASSUME IInv, NEW m \in Instances, NEW pk \in Keys
  PROVE  /\ Bumped(m, pk) \in 0 .. MaxU
         /\ Bumped(m, pk) < no_available_primary_key =>
              /\ pk < Bumped(m, pk)
              /\ \A k \in DOMAIN prim : k < Bumped(m, pk)
<1>1. pk \in 0 .. MaxU /\ next_pk[m] \in 0 .. MaxU /\ DOMAIN prim \subseteq 0 .. MaxU
  BY MultiIndexAssumption DEF IInv, TypeOK
<1>2. next_pk[m] < no_available_primary_key => \A k \in DOMAIN prim : k < next_pk[m]
  BY DEF IInv, NextKeyAboveRows
<1>3. no_available_primary_key \in Int /\ no_available_primary_key = MaxU - 1
  BY MultiIndexAssumption DEF no_available_primary_key
<1>4. CASE pk >= next_pk[m]
  <2>1. /\ Bumped(m, pk) = Successor(pk) /\ Successor(pk) \in 0 .. MaxU
        /\ Successor(pk) < no_available_primary_key => pk < Successor(pk)
    BY <1>1, <1>4, SuccessorAbove DEF Bumped
  <2>2. CASE next_pk[m] < no_available_primary_key
    BY <1>1, <1>2, <1>4, <2>1, <2>2
  <2>3. CASE ~(next_pk[m] < no_available_primary_key)
    BY <1>1, <1>3, <1>4, <2>1, <2>3 DEF Successor
  <2> QED BY <2>2, <2>3
<1>5. CASE ~(pk >= next_pk[m])
  BY <1>1, <1>2, <1>5 DEF Bumped
<1> QED BY <1>4, <1>5

\* emplace: the new row, its entry and the object that shows it agree.
LEMMA EmplaceInv ==
  ASSUME IInv, OneInstance, NEW m \in Instances, NEW pk \in Keys, NEW s \in Secs,
         NEW payer \in Payers, emplace(m, pk, s, payer)
  PROVE  IInv'
<1> DEFINE e == [sec |-> s, payer |-> payer]
           it == [pk |-> pk, val |-> s, pitr |-> gen[pk], iter |-> gen[pk]]
           c == Append(items[m], it)
<1>1. CASE Abort("emplace", <<pk, s>>)
  BY <1>1, AbortInv
<1>2. CASE /\ pk \notin DOMAIN prim
           /\ prim' = Put(prim, pk, e) /\ idx' = Put(idx, pk, e)
           /\ next_pk' = [next_pk EXCEPT ![m] = Bumped(m, pk)]
           /\ items' = [items EXCEPT ![m] = c]
           /\ UNCHANGED <<own, aborted, gen>>
  <2>1. e \in Entry /\ gen[pk] \in Nat /\ it \in Item
    BY DEF Entry, Item, IInv, TypeOK
  <2>2. /\ DOMAIN prim' = DOMAIN prim \cup {pk} /\ DOMAIN idx' = DOMAIN idx \cup {pk}
        /\ prim'[pk] = e /\ idx'[pk] = e
        /\ \A k \in DOMAIN prim : prim'[k] = prim[k]
        /\ \A k \in DOMAIN idx : idx'[k] = idx[k]
    <3>1. DOMAIN idx = DOMAIN prim
      BY DEF IInv, IndexCoversRows
    <3> QED BY <1>2, <3>1 DEF Put
  <2>3. /\ prim' \in UNION {[D -> Entry] : D \in SUBSET Keys}
        /\ idx' \in UNION {[D -> Entry] : D \in SUBSET Keys}
    <3>1. prim' \in [DOMAIN prim \cup {pk} -> Entry]
      BY <1>2, <2>1 DEF Put, IInv, TypeOK
    <3>2. idx' \in [DOMAIN idx \cup {pk} -> Entry]
      BY <1>2, <2>1 DEF Put, IInv, TypeOK
    <3>3. DOMAIN prim \cup {pk} \in SUBSET Keys /\ DOMAIN idx \cup {pk} \in SUBSET Keys
      BY DEF IInv, TypeOK
    <3> QED BY <3>1, <3>2, <3>3
  <2>4. Good(items[m])
    BY CacheGood
  <2>5. /\ c \in Seq(Item) /\ Len(c) = Len(items[m]) + 1 /\ Len(items[m]) \in Nat
        /\ \A i \in 1 .. Len(c) : c[i] = IF i = Len(items[m]) + 1 THEN it ELSE items[m][i]
    BY <2>1, <2>4 DEF Good
  <2>6. items' \in [Instances -> Seq(Item)] /\ \A n \in Instances : items'[n] = c
    BY <1>2, <2>5 DEF IInv, TypeOK, OneInstance
  <2>7. next_pk' \in [Instances -> 0 .. MaxU] /\ \A n \in Instances : next_pk'[n] = Bumped(m, pk)
    BY <1>2, BumpedAbove DEF IInv, TypeOK, OneInstance
  <2>8. TypeOK'
    BY <1>2, <2>3, <2>6, <2>7 DEF IInv, TypeOK
  <2>9. \A i \in 1 .. Len(items[m]) :
          /\ items[m][i].pk \in DOMAIN prim /\ items[m][i].pk # pk
          /\ gen[items[m][i].pk] = items[m][i].pitr
          /\ items[m][i].val = prim[items[m][i].pk].sec
          /\ \/ items[m][i].iter = Unset
             \/ items[m][i].pk \in DOMAIN idx /\ gen[items[m][i].pk] = items[m][i].iter
    BY <1>2, <2>4 DEF Good, Coherent, RowLive, EntryLive
  <2>10. \A i, j \in 1 .. Len(items[m]) : items[m][i].pk = items[m][j].pk => i = j
    BY <2>4 DEF Good, Coherent
  <2>11. ASSUME NEW i \in 1 .. Len(c)
         PROVE  /\ c[i].pk \in DOMAIN prim' /\ gen'[c[i].pk] = c[i].pitr
                /\ c[i].val = prim'[c[i].pk].sec
                /\ \/ c[i].iter = Unset
                   \/ c[i].pk \in DOMAIN idx' /\ gen'[c[i].pk] = c[i].iter
    <3>1. CASE i = Len(items[m]) + 1
      BY <1>2, <2>2, <2>5, <3>1
    <3>2. CASE i \in 1 .. Len(items[m])
      BY <1>2, <2>2, <2>5, <2>9, <3>2
    <3> QED BY <2>5, <3>1, <3>2
  <2>12. \A i, j \in 1 .. Len(c) : c[i].pk = c[j].pk => i = j
    <3>1. SUFFICES ASSUME NEW i \in 1 .. Len(c), NEW j \in 1 .. Len(c), c[i].pk = c[j].pk
                   PROVE  i = j
      OBVIOUS
    <3>2. it.pk = pk
      OBVIOUS
    <3>3. \A x \in 1 .. Len(c) :
            \/ x = Len(items[m]) + 1 /\ c[x].pk = pk
            \/ x \in 1 .. Len(items[m]) /\ c[x] = items[m][x] /\ c[x].pk # pk
      <4>1. ASSUME NEW x \in 1 .. Len(c)
            PROVE  \/ x = Len(items[m]) + 1 /\ c[x] = it
                   \/ x \in 1 .. Len(items[m]) /\ c[x] = items[m][x]
        BY <2>5
      <4> HIDE DEF c, it
      <4> QED BY <2>9, <3>2, <4>1
    <3> HIDE DEF c, it
    <3> QED BY <2>10, <3>1, <3>3
  <2>13. CacheCoherent'
    BY <2>6, <2>11, <2>12, ZenonT(60) DEF CacheCoherent, Coherent, RowLive, EntryLive
  <2>14. IndexCoversRows' /\ IndexMatchesRows'
    BY <2>2 DEF IInv, IndexCoversRows, IndexMatchesRows
  <2>15. NextKeyAboveRows'
    BY <2>2, <2>7, BumpedAbove DEF NextKeyAboveRows, no_available_primary_key
  <2> QED BY <2>8, <2>13, <2>14, <2>15 DEF IInv
<1> QED BY <1>1, <1>2 DEF emplace, Reply

\* modify: the row and the object take the new key, and so does the entry,
\* because the key the object showed was the row's.
LEMMA ModifyInv ==
  ASSUME IInv, OneInstance, NEW m \in Instances, NEW i \in 1 .. Len(items[m]),
         NEW s \in Secs, NEW payer \in Payers \cup {SamePayer}, modify(m, i, s, payer)
  PROVE  IInv'
<1> DEFINE it == items[m][i]
           k == it.pk
           changed == KeyChanged(it, s)
           h == WriteHandle(it)
           ni == [it EXCEPT !.val = s, !.iter = IF changed THEN h ELSE @]
           c == [items[m] EXCEPT ![i] = ni]
           pe == [sec |-> s, payer |-> Billed(payer, prim[k].payer)]
           ie == [sec |-> s, payer |-> Billed(payer, idx[k].payer)]
<1>1. CASE Abort("modify", <<k, s>>)
  BY <1>1, AbortInv
<1>2. CASE /\ prim' = [prim EXCEPT ![k] = pe]
           /\ idx' = IF changed THEN [idx EXCEPT ![k] = ie] ELSE idx
           /\ next_pk' = [next_pk EXCEPT ![m] = Bumped(m, k)]
           /\ items' = [items EXCEPT ![m] = c]
           /\ UNCHANGED <<own, aborted, gen>>
  <2>1. Good(items[m]) /\ it \in Item
    BY CacheGood DEF Good
  <2>2. /\ k \in Keys /\ k \in DOMAIN prim /\ k \in DOMAIN idx
        /\ h \in Nat /\ gen[k] = h
    BY <2>1, HandleLive DEF EntryLive
  <2>3. prim[k] \in Entry /\ idx[k] \in Entry
    BY <2>2 DEF IInv, TypeOK
  <2>4. pe \in Entry /\ ie \in Entry
    BY <2>3 DEF Entry, Billed
  <2>5. /\ DOMAIN prim' = DOMAIN prim /\ DOMAIN idx' = DOMAIN idx
        /\ prim'[k] = pe /\ idx'[k] = IF changed THEN ie ELSE idx[k]
        /\ \A x \in DOMAIN prim : x # k => prim'[x] = prim[x]
        /\ \A x \in DOMAIN idx : x # k => idx'[x] = idx[x]
    BY <1>2, <2>2
  <2>6. /\ prim' \in UNION {[D -> Entry] : D \in SUBSET Keys}
        /\ idx' \in UNION {[D -> Entry] : D \in SUBSET Keys}
    <3>1. /\ prim \in [DOMAIN prim -> Entry] /\ DOMAIN prim \in SUBSET Keys
          /\ idx \in [DOMAIN idx -> Entry] /\ DOMAIN idx \in SUBSET Keys
      BY DEF IInv, TypeOK
    <3>2. prim' \in [DOMAIN prim -> Entry] /\ idx' \in [DOMAIN idx -> Entry]
      BY <1>2, <2>4, <3>1
    <3> QED BY <3>1, <3>2
  <2>7. idx[k].sec = prim[k].sec /\ it.val = prim[k].sec
    BY <2>1, <2>2 DEF IInv, IndexMatchesRows, Good, Coherent
  <2>8. idx'[k].sec = s /\ prim'[k].sec = s
    BY <2>5, <2>7 DEF KeyChanged
  <2>9. /\ ni \in Item /\ ni.pk = k /\ ni.pitr = it.pitr /\ ni.val = s
        /\ ni.iter = IF changed THEN h ELSE it.iter
    BY <2>1, <2>2 DEF Item
  <2>10. /\ c \in Seq(Item) /\ Len(c) = Len(items[m])
         /\ \A j \in 1 .. Len(c) : c[j] = IF j = i THEN ni ELSE items[m][j]
    BY <2>1, <2>9 DEF Good
  <2>11. items' \in [Instances -> Seq(Item)] /\ \A n \in Instances : items'[n] = c
    BY <1>2, <2>10 DEF IInv, TypeOK, OneInstance
  <2>12. next_pk' \in [Instances -> 0 .. MaxU] /\ \A n \in Instances : next_pk'[n] = Bumped(m, k)
    BY <1>2, <2>2, BumpedAbove DEF IInv, TypeOK, OneInstance
  <2>13. TypeOK'
    BY <1>2, <2>6, <2>11, <2>12 DEF IInv, TypeOK
  <2>14. \A j \in 1 .. Len(items[m]) :
           /\ items[m][j].pk \in DOMAIN prim
           /\ gen[items[m][j].pk] = items[m][j].pitr
           /\ items[m][j].val = prim[items[m][j].pk].sec
           /\ \/ items[m][j].iter = Unset
              \/ items[m][j].pk \in DOMAIN idx /\ gen[items[m][j].pk] = items[m][j].iter
    BY <2>1 DEF Good, Coherent, RowLive, EntryLive
  <2>15. \A j, l \in 1 .. Len(items[m]) : items[m][j].pk = items[m][l].pk => j = l
    BY <2>1 DEF Good, Coherent
  <2>16. ASSUME NEW j \in 1 .. Len(c)
         PROVE  /\ c[j].pk \in DOMAIN prim' /\ gen'[c[j].pk] = c[j].pitr
                /\ c[j].val = prim'[c[j].pk].sec
                /\ \/ c[j].iter = Unset
                   \/ c[j].pk \in DOMAIN idx' /\ gen'[c[j].pk] = c[j].iter
    <3>1. CASE j = i
      <4>1. c[j] = ni
        BY <2>10, <3>1
      <4>2. /\ gen[k] = it.pitr /\ gen'[k] = gen[k]
            /\ it.iter = Unset \/ gen[k] = it.iter
        BY <1>2, <2>14
      <4> HIDE DEF c, ni, h, changed
      <4> QED BY <2>2, <2>5, <2>8, <2>9, <4>1, <4>2
    <3>2. CASE j # i
      <4>1. c[j] = items[m][j] /\ c[j].pk # k
        BY <2>10, <2>15, <3>2
      <4>2. j \in 1 .. Len(items[m])
        BY <2>10
      <4>3. gen' = gen
        BY <1>2
      <4> HIDE DEF c, ni, h, changed, pe, ie, k, it
      <4> QED BY <2>5, <2>14, <4>1, <4>2, <4>3
    <3> QED BY <3>1, <3>2
  <2>17. \A j, l \in 1 .. Len(c) : c[j].pk = c[l].pk => j = l
    BY <2>9, <2>10, <2>15
  <2>18. CacheCoherent'
    BY <2>11, <2>16, <2>17, ZenonT(60) DEF CacheCoherent, Coherent, RowLive, EntryLive
  <2>19. IndexCoversRows' /\ IndexMatchesRows'
    BY <2>5, <2>8 DEF IInv, IndexCoversRows, IndexMatchesRows
  <2>20. NextKeyAboveRows'
    BY <2>2, <2>5, <2>12, BumpedAbove DEF NextKeyAboveRows, no_available_primary_key
  <2> QED BY <2>13, <2>18, <2>19, <2>20 DEF IInv
<1> QED BY <1>1, <1>2 DEF modify, Reply

\* Taking one object out of a cache keeps the others, in order.
LEMMA RemoveAtSeq ==
  ASSUME NEW s \in Seq(Item), NEW j \in 1 .. Len(s)
  PROVE  /\ RemoveAt(s, j) \in Seq(Item) /\ Len(RemoveAt(s, j)) = Len(s) - 1
         /\ \A x \in 1 .. Len(s) - 1 :
              RemoveAt(s, j)[x] = s[IF x < j THEN x ELSE x + 1]
<1>1. Len(s) - 1 \in Nat
  OBVIOUS
<1>2. \A x \in 1 .. Len(s) - 1 : s[x] \in Item /\ s[x + 1] \in Item
  OBVIOUS
<1>3. RemoveAt(s, j) \in [1 .. Len(s) - 1 -> Item]
  BY <1>2 DEF RemoveAt
<1>4. RemoveAt(s, j) \in Seq(Item)
  BY <1>1, <1>3
<1>5. Len(RemoveAt(s, j)) = Len(s) - 1
  BY <1>1, <1>3, <1>4
<1> QED BY <1>4, <1>5 DEF RemoveAt

\* erase: the row, its entry and the only object that showed it go together.
LEMMA EraseItemInv ==
  ASSUME IInv, OneInstance, NEW m \in Instances, NEW s, Good(s),
         NEW i \in 1 .. Len(s), NEW op, NEW r, EraseItem(m, s, i, op, r)
  PROVE  IInv'
<1> DEFINE k == s[i].pk
           h == WriteHandle(s[i])
<1>1. CASE Abort(op, <<k>>)
  BY <1>1, AbortInv
<1>2. ASSUME NEW j \in LastWith(s, k),
             items' = [items EXCEPT ![m] = RemoveAt(s, j)],
             prim' = Remove(prim, k),
             idx' = IF h >= 0 THEN Remove(idx, k) ELSE idx,
             gen' = [gen EXCEPT ![k] = @ + 1],
             UNCHANGED <<own, aborted, next_pk>>
      PROVE  IInv'
  <2> DEFINE c == RemoveAt(s, j)
  <2>1. s \in Seq(Item) /\ Len(s) \in Nat /\ j \in 1 .. Len(s) /\ s[j].pk = k
    BY DEF Good, LastWith
  <2>2. h \in Nat /\ k \in Keys /\ k \in DOMAIN prim /\ k \in DOMAIN idx
    BY HandleLive
  <2>3. /\ DOMAIN prim' = DOMAIN prim \ {k} /\ DOMAIN idx' = DOMAIN idx \ {k}
        /\ \A x \in DOMAIN prim \ {k} : prim'[x] = prim[x]
        /\ \A x \in DOMAIN idx \ {k} : idx'[x] = idx[x]
    BY <1>2, <2>2 DEF Remove
  <2>4. /\ prim' \in UNION {[D -> Entry] : D \in SUBSET Keys}
        /\ idx' \in UNION {[D -> Entry] : D \in SUBSET Keys}
    <3>1. /\ prim' \in [DOMAIN prim \ {k} -> Entry]
          /\ idx' \in [DOMAIN idx \ {k} -> Entry]
      BY <1>2, <2>2 DEF Remove, IInv, TypeOK
    <3>2. DOMAIN prim \ {k} \in SUBSET Keys /\ DOMAIN idx \ {k} \in SUBSET Keys
      BY DEF IInv, TypeOK
    <3> QED BY <3>1, <3>2
  <2>5. /\ gen' \in [Keys -> Nat]
        /\ \A x \in Keys : x # k => gen'[x] = gen[x]
    BY <1>2, <2>2 DEF IInv, TypeOK
  <2>6. /\ c \in Seq(Item) /\ Len(c) = Len(s) - 1
        /\ \A x \in 1 .. Len(c) : c[x] = s[IF x < j THEN x ELSE x + 1]
    BY <2>1, RemoveAtSeq
  <2>7. items' \in [Instances -> Seq(Item)] /\ \A n \in Instances : items'[n] = c
    BY <1>2, <2>6 DEF IInv, TypeOK, OneInstance
  <2>8. TypeOK'
    BY <1>2, <2>4, <2>5, <2>7 DEF IInv, TypeOK
  <2>9. \A x \in 1 .. Len(s) :
          /\ s[x].pk \in DOMAIN prim /\ s[x].pk \in Keys
          /\ gen[s[x].pk] = s[x].pitr /\ s[x].val = prim[s[x].pk].sec
          /\ s[x].iter = Unset \/ (s[x].pk \in DOMAIN idx /\ gen[s[x].pk] = s[x].iter)
    <3>1. DOMAIN prim \subseteq Keys
      BY DEF IInv, TypeOK
    <3> QED BY <3>1 DEF Good, Coherent, RowLive, EntryLive
  <2>10. \A x, y \in 1 .. Len(s) : s[x].pk = s[y].pk => x = y
    BY DEF Good, Coherent
  <2>11. ASSUME NEW x \in 1 .. Len(c)
         PROVE  /\ c[x].pk \in DOMAIN prim' /\ gen'[c[x].pk] = c[x].pitr
                /\ c[x].val = prim'[c[x].pk].sec
                /\ \/ c[x].iter = Unset
                   \/ c[x].pk \in DOMAIN idx' /\ gen'[c[x].pk] = c[x].iter
    <3>1. PICK y \in 1 .. Len(s) : y # j /\ c[x] = s[y]
      BY <2>1, <2>6, SMTT(30)
    <3>2. c[x].pk # k
      BY <2>1, <2>10, <3>1
    <3> QED BY <2>3, <2>5, <2>9, <3>1, <3>2
  <2>12. \A x, y \in 1 .. Len(c) : c[x].pk = c[y].pk => x = y
    <3> SUFFICES ASSUME NEW x \in 1 .. Len(c), NEW y \in 1 .. Len(c), c[x].pk = c[y].pk
                 PROVE  x = y
      OBVIOUS
    <3> DEFINE xs == IF x < j THEN x ELSE x + 1
               ys == IF y < j THEN y ELSE y + 1
    <3>1. xs \in 1 .. Len(s) /\ ys \in 1 .. Len(s) /\ c[x] = s[xs] /\ c[y] = s[ys]
      BY <2>1, <2>6
    <3>2. xs = ys
      BY <2>10, <3>1
    <3> QED BY <2>1, <2>6, <3>2
  <2>13. CacheCoherent'
    BY <2>7, <2>11, <2>12 DEF CacheCoherent, Coherent, RowLive, EntryLive
  <2>14. IndexCoversRows' /\ IndexMatchesRows'
    BY <2>3 DEF IInv, IndexCoversRows, IndexMatchesRows
  <2>15. NextKeyAboveRows'
    BY <1>2, <2>3 DEF IInv, NextKeyAboveRows, no_available_primary_key
  <2> QED BY <2>8, <2>13, <2>14, <2>15 DEF IInv
<1> QED BY <1>1, <1>2 DEF EraseItem, Reply

\* erase through an iterator: the step forward first, then the removal.
LEMMA EraseAfterInv ==
  ASSUME IInv, OneInstance, NEW m \in Instances, NEW i \in 1 .. Len(items[m]), NEW op,
         NEW O, GoodOutcomes(items[m], O),
         NEW o \in O, EraseItem(m, o.cache, i, op, o.res)
  PROVE  IInv'
<1>1. Good(o.cache) /\ Len(items[m]) <= Len(o.cache)
  BY DEF GoodOutcomes
<1>2. i \in 1 .. Len(o.cache)
  <2>1. Len(items[m]) \in Nat /\ Len(o.cache) \in Nat
    BY <1>1, CacheGood DEF Good
  <2> QED BY <1>1, <2>1
<1> QED BY <1>1, <1>2, EraseItemInv

\* A new action starts with empty caches over the table as it was left.
LEMMA CommitInv ==
  ASSUME IInv, commit PROVE IInv'
<1>1. <<>> \in Seq(Item) /\ Len(<<>>) = 0
  OBVIOUS
<1>2. MaxU \in 0 .. MaxU
  BY MultiIndexAssumption
<1>3. TypeOK'
  BY <1>1, <1>2 DEF commit, IInv, TypeOK, unset_next_primary_key
<1>4. CacheCoherent'
  BY <1>1 DEF commit, CacheCoherent, Coherent
<1>5. IndexCoversRows' /\ IndexMatchesRows'
  BY DEF commit, IInv, IndexCoversRows, IndexMatchesRows
<1>6. NextKeyAboveRows'
  <2>1. \A n \in Instances : ~(next_pk'[n] < MaxU - 1)
    BY MultiIndexAssumption DEF commit, unset_next_primary_key
  <2> QED BY <2>1 DEF NextKeyAboveRows, no_available_primary_key
<1> QED BY <1>3, <1>4, <1>5, <1>6 DEF IInv

\* Opened on any consistent table, fresh instances satisfy the invariant.
LEMMA InitInv == Init => IInv
<1> SUFFICES ASSUME Init PROVE IInv
  OBVIOUS
<1>1. <<>> \in Seq(Item) /\ Len(<<>>) = 0
  OBVIOUS
<1>2. MaxU \in 0 .. MaxU
  BY MultiIndexAssumption
<1>3. DOMAIN idx = DOMAIN prim /\ DOMAIN prim \in SUBSET Keys /\ idx \in [DOMAIN prim -> Entry]
  BY DEF Init
<1>4. TypeOK
  <2>1. idx \in UNION {[D -> Entry] : D \in SUBSET Keys}
    BY <1>3
  <2> QED BY <1>1, <1>2, <2>1 DEF Init, TypeOK, unset_next_primary_key
<1>5. CacheCoherent
  <2>1. Coherent(<<>>)
    BY <1>1 DEF Coherent
  <2> QED BY <2>1 DEF Init, CacheCoherent
<1>6. IndexCoversRows /\ IndexMatchesRows
  BY <1>3 DEF Init, IndexCoversRows, IndexMatchesRows
<1>7. NextKeyAboveRows
  BY MultiIndexAssumption DEF Init, NextKeyAboveRows, unset_next_primary_key,
                              no_available_primary_key
<1> QED BY <1>4, <1>5, <1>6, <1>7 DEF IInv

\* Every step of an action keeps the invariant: one step per call.
LEMMA NextInv ==
  ASSUME OneInstance, IInv, [Next]_vars PROVE IInv'
<1>1. CASE UNCHANGED vars
  BY <1>1 DEF vars, IInv, TypeOK, CacheCoherent, Coherent, RowLive, EntryLive,
              IndexCoversRows, IndexMatchesRows, NextKeyAboveRows
<1>2. CASE commit
  BY <1>2, CommitInv
<1>3. ASSUME NEW m \in Instances, Call(m) PROVE IInv'
  <2> DEFINE s == items[m]
  <2>0. Good(s)
    BY CacheGood
  <2>1. ASSUME NEW pk \in Keys, find(m, pk) \/ require_find(m, pk) PROVE IInv'
    <3>1. GoodOutcomes(s, FindAt(s, pk))
      BY <2>0, FindAtGood
    <3>2. GoodOutcomes(s, {o \in FindAt(s, pk) : o.res # <<>>})
      BY <3>1 DEF GoodOutcomes
    <3> QED BY <2>1, <3>1, <3>2, LookupInv DEF find, require_find
  <2>2. ASSUME NEW pk \in Keys, lower_bound(m, pk) \/ upper_bound(m, pk) PROVE IInv'
    <3>1. /\ GoodOutcomes(s, LandFirst(s, {k \in DOMAIN prim : k >= pk}))
          /\ GoodOutcomes(s, LandFirst(s, {k \in DOMAIN prim : k > pk}))
      BY <2>0, LandGood
    <3> QED BY <2>2, <3>1, LookupInv DEF lower_bound, upper_bound
  <2>3. ASSUME NEW pk \in Keys, NEW v \in Secs, NEW p \in Payers, emplace(m, pk, v, p)
        PROVE  IInv'
    BY <2>3, EmplaceInv
  <2>4. ASSUME NEW i \in Held(m), increment(m, i) \/ decrement(m, i) PROVE IInv'
    <3>1. GoodOutcomes(s, After(s, i)) /\ GoodOutcomes(s, Before(s, i))
      BY <2>0, WalkGood DEF Held
    <3> QED BY <2>4, <3>1, LookupInv DEF increment, decrement
  <2>5. ASSUME NEW i \in Held(m), idx_increment(m, i) \/ idx_decrement(m, i) PROVE IInv'
    <3>1. GoodOutcomes(s, IndexAfter(s, i)) /\ GoodOutcomes(s, IndexBefore(s, i))
      BY <2>0, IndexWalkGood DEF Held
    <3> QED BY <2>5, <3>1, LookupInv DEF idx_increment, idx_decrement
  <2>6. ASSUME NEW i \in Held(m), idx_iterator_to(m, i) PROVE IInv'
    <3> DEFINE t == [s EXCEPT ![i].iter = EntryHandle(s[i])]
    <3>1. i \in 1 .. Len(s) /\ Len(s) \in Nat
      BY <2>0 DEF Held, Good
    <3>2. EntryLive(s[i].pk, EntryHandle(s[i]))
      BY <2>0, <3>1, HandleLive
    <3>3. Good(t) /\ Len(t) = Len(s)
      BY <2>0, <3>1, <3>2, RememberHandle
    <3>4. GoodOutcomes(s, {Cursor(t, i)})
      <4>1. Cursor(t, i).cache = t
        BY DEF Cursor
      <4> HIDE DEF t
      <4> QED BY <3>1, <3>3, <4>1 DEF GoodOutcomes
    <3> QED BY <2>6, <3>4, LookupInv DEF idx_iterator_to
  <2>7. ASSUME NEW i \in Held(m), erase_object(m, i) PROVE IInv'
    BY <2>0, <2>7, EraseItemInv DEF erase_object, Held
  <2>8. ASSUME NEW i \in Held(m), erase(m, i) PROVE IInv'
    <3>1. i \in 1 .. Len(s) /\ GoodOutcomes(s, After(s, i))
      BY <2>0, WalkGood DEF Held
    <3>2. CASE Abort("erase", <<s[i].pk>>)
      BY <3>2, AbortInv
    <3>3. ASSUME NEW o \in After(s, i), EraseItem(m, o.cache, i, "erase", o.res)
          PROVE  IInv'
      BY <3>1, <3>3, EraseAfterInv
    <3> QED BY <2>8, <3>2, <3>3 DEF erase
  <2>9. ASSUME NEW i \in Held(m), idx_erase(m, i) PROVE IInv'
    <3>1. i \in 1 .. Len(s) /\ GoodOutcomes(s, IndexAfter(s, i))
      BY <2>0, IndexWalkGood DEF Held
    <3>2. CASE Abort("idx_erase", <<s[i].pk>>)
      BY <3>2, AbortInv
    <3>3. ASSUME NEW o \in IndexAfter(s, i), EraseItem(m, o.cache, i, "idx_erase", o.res)
          PROVE  IInv'
      BY <3>1, <3>3, EraseAfterInv
    <3> QED BY <2>9, <3>2, <3>3 DEF idx_erase
  <2>10. ASSUME NEW i \in Held(m), modify_key(m, i) PROVE IInv'
    BY <2>10, AbortInv DEF modify_key
  <2>11. ASSUME NEW i \in Held(m), NEW v \in Secs, NEW p \in Payers \cup {SamePayer},
                modify(m, i, v, p)
         PROVE  IInv'
    BY <2>11, ModifyInv DEF Held
  <2>12. ASSUME NEW v \in Secs, idx_lower_bound(m, v) \/ idx_upper_bound(m, v) PROVE IInv'
    <3>1. /\ GoodOutcomes(s, IndexFirst(s, {k \in DOMAIN idx : idx[k].sec >= v}))
          /\ GoodOutcomes(s, IndexFirst(s, {k \in DOMAIN idx : idx[k].sec > v}))
      BY <2>0, IndexGood
    <3> QED BY <2>12, <3>1, LookupInv DEF idx_lower_bound, idx_upper_bound
  <2>13. ASSUME NEW v \in Secs, idx_find(m, v) \/ idx_require_find(m, v) PROVE IInv'
    <3>1. GoodOutcomes(s, IndexFirst(s, {k \in DOMAIN idx : idx[k].sec >= v}))
      BY <2>0, IndexGood
    <3>2. GoodOutcomes(s, IndexFind(s, v))
      <4> SUFFICES ASSUME NEW f \in IndexFind(s, v)
                   PROVE  Good(f.cache) /\ Len(s) <= Len(f.cache)
        BY DEF GoodOutcomes
      <4>1. PICK o \in IndexFirst(s, {k \in DOMAIN idx : idx[k].sec >= v}) :
              f = IF o.res = <<>> \/ o.res[2] = v THEN o ELSE AtEnd(o.cache)
        BY DEF IndexFind
      <4>2. AtEnd(o.cache).cache = o.cache
        BY DEF AtEnd
      <4>3. f.cache = o.cache
        BY <4>1, <4>2
      <4> QED BY <3>1, <4>3 DEF GoodOutcomes
    <3>3. GoodOutcomes(s, {o \in IndexFind(s, v) : o.res # <<>>})
      BY <3>2 DEF GoodOutcomes
    <3> QED BY <2>13, <3>2, <3>3, LookupInv DEF idx_find, idx_require_find
  <2>14. CASE decrement_end(m)
    <3>1. GoodOutcomes(s, LandLast(s, DOMAIN prim))
      BY <2>0, LandGood
    <3> QED BY <2>14, <3>1, LookupInv DEF decrement_end
  <2>15. CASE idx_decrement_end(m)
    <3>1. GoodOutcomes(s, IndexLast(s, DOMAIN idx))
      BY <2>0, IndexGood
    <3> QED BY <2>15, <3>1, LookupInv DEF idx_decrement_end
  <2>16. CASE available_primary_key(m)
    BY <2>16, AvailableInv
  <2>17. CASE foreign_object(m)
    BY <2>17, AbortInv DEF foreign_object
  <2> QED
    BY <1>3, <2>1, <2>2, <2>3, <2>4, <2>5, <2>6, <2>7, <2>8, <2>9, <2>10, <2>11,
       <2>12, <2>13, <2>14, <2>15, <2>16, <2>17 DEF Call
<1> QED BY <1>1, <1>2, <1>3 DEF Next

-----------------------------------------------------------------------------
\* With one instance the invariant holds in every reachable state.
THEOREM Inductive == ASSUME OneInstance PROVE Spec => []IInv
<1>1. IInv /\ [Next]_vars => IInv'
  BY NextInv
<1> QED BY <1>1, InitInv, PTL DEF Spec

\* What find and the iterators serve from _items_vector is what the database
\* holds, through handles that are still good.
THEOREM Coherence == ASSUME OneInstance PROVE Spec => []CacheCoherent
<1>1. IInv => CacheCoherent
  BY DEF IInv
<1> QED BY <1>1, Inductive, PTL

\* Whatever sequence of emplace, modify and erase ran, every row is indexed
\* under its own secondary key.
THEOREM IndexConsistency == ASSUME OneInstance PROVE Spec => []IndexMatchesRows
<1>1. IInv => IndexMatchesRows
  BY DEF IInv
<1> QED BY <1>1, Inductive, PTL

\* available_primary_key never hands out a key that a row uses.
THEOREM KeysAreFresh == ASSUME OneInstance PROVE Spec => []NextKeyAboveRows
<1>1. IInv => NextKeyAboveRows
  BY DEF IInv
<1> QED BY <1>1, Inductive, PTL

-----------------------------------------------------------------------------
(***************************************************************************)
(* What holds however many multi_index objects an action opens on a table: *)
(* the types, and that the index table has an entry for each row and for   *)
(* nothing else.  The caches may be stale here: an object may show an old  *)
(* value, or a row that another instance has removed, through a handle the *)
(* host no longer honours.                                                 *)
(***************************************************************************)
SharedInv == TypeOK /\ IndexCoversRows

\* The outcomes of a lookup in s: caches that contain at least what s did.
TypedOutcomes(s, O) ==
  \A o \in O : o.cache \in Seq(Item) /\ Len(s) <= Len(o.cache)

-----------------------------------------------------------------------------
(* Lookups keep the type of a cache and never shorten it.                  *)

\* The handle the host answers with, for the entry of any key.
LEMMA FindPrimaryTyped ==
  ASSUME SharedInv, NEW k \in Keys
  PROVE  /\ db_idx_find_primary(k) \in Nat \cup {Unset, EndItr}
         /\ k \in DOMAIN prim => db_idx_find_primary(k) = gen[k] /\ gen[k] \in Nat
  BY DEF SharedInv, TypeOK, IndexCoversRows, db_idx_find_primary

LEMMA LoadedTyped ==
  ASSUME SharedInv, NEW s \in Seq(Item), NEW k \in DOMAIN prim
  PROVE  Loaded(s, k) \in Seq(Item) /\ Len(s) <= Len(Loaded(s, k))
<1>1. k \in Keys /\ prim[k] \in Entry /\ gen[k] \in Nat /\ Len(s) \in Nat
  BY DEF SharedInv, TypeOK
<1>2. FromRow(k) \in Item
  BY <1>1 DEF FromRow, Item, Entry
<1> QED BY <1>1, <1>2 DEF Loaded

LEMMA FoundInTyped ==
  ASSUME SharedInv, NEW s \in Seq(Item), NEW k \in DOMAIN prim
  PROVE  FoundIn(s, k) \in Seq(Item) /\ Len(s) <= Len(FoundIn(s, k))
<1>1. Len(s) \in Nat
  OBVIOUS
<1> QED BY <1>1, LoadedTyped DEF FoundIn

LEMMA EndTyped ==
  ASSUME NEW s \in Seq(Item) PROVE TypedOutcomes(s, {AtEnd(s)})
<1>1. Len(s) \in Nat
  OBVIOUS
<1> QED BY <1>1 DEF TypedOutcomes, AtEnd

\* find, also of a key whose row another instance has removed: the cached
\* object is answered.
LEMMA FindAtTyped ==
  ASSUME SharedInv, NEW s \in Seq(Item), NEW k PROVE TypedOutcomes(s, FindAt(s, k))
<1>1. CASE Cached(s, k)
  <2>1. FoundIn(s, k) = s /\ Len(s) \in Nat
    BY <1>1 DEF FoundIn
  <2> QED BY <1>1, <2>1 DEF TypedOutcomes, FindAt, Cursor
<1>2. CASE ~Cached(s, k) /\ k \in DOMAIN prim
  <2>1. FoundIn(s, k) \in Seq(Item) /\ Len(s) <= Len(FoundIn(s, k))
    BY <1>2, FoundInTyped
  <2> QED BY <1>2, <2>1 DEF TypedOutcomes, FindAt, Cursor
<1>3. CASE ~(Cached(s, k) \/ k \in DOMAIN prim)
  BY <1>3, EndTyped DEF FindAt
<1> QED BY <1>1, <1>2, <1>3

LEMMA LoadAtTyped ==
  ASSUME SharedInv, NEW s \in Seq(Item), NEW k \in DOMAIN prim
  PROVE  TypedOutcomes(s, LoadAt(s, k))
  BY LoadedTyped DEF TypedOutcomes, LoadAt, Cursor

\* An object that remembers another handle is an object still.
LEMMA RememberTyped ==
  ASSUME NEW s \in Seq(Item), NEW i \in 1 .. Len(s), NEW h \in Nat \cup {Unset, EndItr}
  PROVE  /\ [s EXCEPT ![i].iter = h] \in Seq(Item)
         /\ Len([s EXCEPT ![i].iter = h]) = Len(s)
<1>1. s[i] \in Item /\ DOMAIN s = 1 .. Len(s)
  OBVIOUS
<1>2. [s[i] EXCEPT !.iter = h] \in Item
  BY <1>1 DEF Item
<1> QED BY <1>1, <1>2

\* The index entry of a row another instance has inserted: the row is there.
LEMMA IndexAtTyped ==
  ASSUME SharedInv, NEW s \in Seq(Item), NEW k \in DOMAIN idx
  PROVE  TypedOutcomes(s, IndexAt(s, k))
<1> DEFINE t == FoundIn(s, k)
<1>1. k \in DOMAIN prim /\ gen[k] \in Nat
  BY DEF SharedInv, TypeOK, IndexCoversRows
<1>2. t \in Seq(Item) /\ Len(s) <= Len(t)
  BY <1>1, FoundInTyped
<1>3. ASSUME NEW j \in LastWith(t, k)
      PROVE  /\ [t EXCEPT ![j].iter = gen[k]] \in Seq(Item)
             /\ Len([t EXCEPT ![j].iter = gen[k]]) = Len(t)
  <2>1. j \in 1 .. Len(t)
    BY DEF LastWith
  <2> HIDE DEF t
  <2> QED BY <1>1, <1>2, <2>1, RememberTyped
<1>4. ASSUME NEW o \in IndexAt(s, k)
      PROVE  o.cache \in Seq(Item) /\ Len(s) <= Len(o.cache)
  <2>1. PICK j \in LastWith(t, k) : o = Cursor([t EXCEPT ![j].iter = gen[k]], j)
    BY DEF IndexAt
  <2>2. o.cache = [t EXCEPT ![j].iter = gen[k]]
    BY <2>1 DEF Cursor
  <2> HIDE DEF t
  <2> QED BY <1>2, <1>3, <2>2
<1> QED BY <1>4 DEF TypedOutcomes

LEMMA LandTyped ==
  ASSUME SharedInv, NEW s \in Seq(Item), NEW S \in SUBSET DOMAIN prim
  PROVE  TypedOutcomes(s, LandFirst(s, S)) /\ TypedOutcomes(s, LandLast(s, S))
<1>1. \A k \in S : TypedOutcomes(s, LoadAt(s, k))
  BY LoadAtTyped
<1>2. CASE S = {}
  BY <1>1, <1>2, EndTyped DEF LandFirst, LandLast, TypedOutcomes
<1>3. CASE S # {}
  BY <1>1, <1>3 DEF LandFirst, LandLast, TypedOutcomes
<1> QED BY <1>2, <1>3

LEMMA IndexTyped ==
  ASSUME SharedInv, NEW s \in Seq(Item), NEW S \in SUBSET DOMAIN idx
  PROVE  TypedOutcomes(s, IndexFirst(s, S)) /\ TypedOutcomes(s, IndexLast(s, S))
<1>1. \A k \in S : TypedOutcomes(s, IndexAt(s, k))
  BY IndexAtTyped
<1>2. CASE S = {}
  BY <1>1, <1>2, EndTyped DEF IndexFirst, IndexLast, TypedOutcomes
<1>3. CASE S # {}
  BY <1>1, <1>3 DEF IndexFirst, IndexLast, TypedOutcomes
<1> QED BY <1>2, <1>3

LEMMA WalkTyped ==
  ASSUME SharedInv, NEW s \in Seq(Item), NEW i
  PROVE  TypedOutcomes(s, After(s, i)) /\ TypedOutcomes(s, Before(s, i))
<1>1. \A S \in SUBSET DOMAIN prim :
        TypedOutcomes(s, LandFirst(s, S)) /\ TypedOutcomes(s, LandLast(s, S))
  BY LandTyped
<1>2. TypedOutcomes(s, {})
  BY DEF TypedOutcomes
<1> QED BY <1>1, <1>2 DEF After, Before

\* A walk from an object whose remembered handle may be stale.
LEMMA IndexWalkTyped ==
  ASSUME SharedInv, NEW s \in Seq(Item), NEW i \in 1 .. Len(s)
  PROVE  /\ TypedOutcomes(s, IndexAfter(s, i)) /\ TypedOutcomes(s, IndexBefore(s, i))
         /\ EntryHandle(s[i]) \in Nat \cup {Unset, EndItr}
<1> DEFINE h == EntryHandle(s[i])
           t == [s EXCEPT ![i].iter = h]
<1>1. s[i] \in Item
  OBVIOUS
<1>2. h \in Nat \cup {Unset, EndItr}
  BY <1>1, FindPrimaryTyped DEF Item, EntryHandle
<1>3. t \in Seq(Item) /\ Len(t) = Len(s) /\ Len(s) \in Nat
  <2> HIDE DEF h
  <2> QED BY <1>2, RememberTyped
<1>4. \A S \in SUBSET DOMAIN idx :
        TypedOutcomes(t, IndexFirst(t, S)) /\ TypedOutcomes(t, IndexLast(t, S))
  BY <1>3, IndexTyped
<1>5. TypedOutcomes(t, {}) /\ TypedOutcomes(t, {AtEnd(t)})
  BY <1>3, EndTyped DEF TypedOutcomes
<1>6. TypedOutcomes(t, IndexAfter(s, i)) /\ TypedOutcomes(t, IndexBefore(s, i))
  <2>1. /\ IndexAfter(s, i) =
             IF h = EndItr THEN {AtEnd(t)}
             ELSE IF EntryLive(s[i].pk, h)
             THEN IndexFirst(t, {k \in DOMAIN idx : SecBefore(s[i].pk, k)}) ELSE {}
        /\ IndexBefore(s, i) =
             IF h = EndItr THEN IndexLast(t, DOMAIN idx)
             ELSE IF EntryLive(s[i].pk, h)
             THEN IndexLast(t, {k \in DOMAIN idx : SecBefore(k, s[i].pk)}) ELSE {}
    BY DEF IndexAfter, IndexBefore
  <2> HIDE DEF h, t
  <2> QED BY <1>4, <1>5, <2>1
<1> QED BY <1>2, <1>3, <1>6 DEF TypedOutcomes
-----------------------------------------------------------------------------
(* The calls.                                                              *)

LEMMA AbortShared ==
  ASSUME SharedInv, NEW op, NEW arg, Abort(op, arg) PROVE SharedInv'
  BY DEF SharedInv, Abort, TypeOK, IndexCoversRows

\* A call that changes one cache and nothing else but its answer.
LEMMA LookupShared ==
  ASSUME SharedInv, NEW m \in Instances, NEW op, NEW arg, NEW O,
         TypedOutcomes(items[m], O), Lookup(m, op, arg, O)
  PROVE  SharedInv'
<1>1. ASSUME NEW o \in O, items' = [items EXCEPT ![m] = o.cache],
             UNCHANGED <<prim, idx, gen, next_pk, own, aborted>>
      PROVE  SharedInv'
  <2>1. o.cache \in Seq(Item)
    BY DEF TypedOutcomes
  <2>2. items' \in [Instances -> Seq(Item)]
    BY <1>1, <2>1 DEF SharedInv, TypeOK
  <2> QED BY <1>1, <2>2 DEF SharedInv, TypeOK, IndexCoversRows
<1> QED BY <1>1, AbortShared DEF Lookup, Reply

LEMMA SuccessorTyped ==
  ASSUME NEW pk \in 0 .. MaxU PROVE Successor(pk) \in 0 .. MaxU
  BY MultiIndexAssumption DEF Successor, no_available_primary_key

LEMMA AvailableShared ==
  ASSUME SharedInv, NEW m \in Instances, available_primary_key(m) PROVE SharedInv'
<1>1. PICK o \in NextKeys(m) :
        \/ /\ o.key < no_available_primary_key
           /\ items' = [items EXCEPT ![m] = o.cache]
           /\ next_pk' = [next_pk EXCEPT ![m] = o.key]
           /\ Reply("available_primary_key", <<>>, <<o.key>>)
           /\ UNCHANGED <<prim, idx, gen>>
        \/ o.key >= no_available_primary_key /\ Abort("available_primary_key", <<>>)
  BY DEF available_primary_key
<1>2. items[m] \in Seq(Item) /\ next_pk[m] \in 0 .. MaxU
  BY DEF SharedInv, TypeOK
<1>3. ASSUME NEW s \in Seq(Item), NEW e \in LandLast(s, DOMAIN prim)
      PROVE  e.cache \in Seq(Item) /\ e.res[1] \in Keys
  <2>1. PICK k \in DOMAIN prim : e \in LoadAt(s, k)
    BY <1>3 DEF LandLast
  <2>2. Loaded(s, k) \in Seq(Item)
    BY LoadedTyped
  <2>3. PICK j \in 1 .. Len(Loaded(s, k)) : e = Cursor(Loaded(s, k), j)
    BY <2>1 DEF LoadAt
  <2>4. Loaded(s, k)[j] \in Item
    BY <2>2
  <2> QED BY <2>2, <2>3, <2>4 DEF Cursor, Item
<1>4. o.cache \in Seq(Item) /\ o.key \in 0 .. MaxU
  <2>1. CASE next_pk[m] # unset_next_primary_key
    BY <1>2, <2>1 DEF NextKeys
  <2>2. CASE next_pk[m] = unset_next_primary_key /\ DOMAIN prim = {}
    BY <1>2, <2>2, MultiIndexAssumption DEF NextKeys
  <2>3. CASE next_pk[m] = unset_next_primary_key /\ DOMAIN prim # {}
    <3>1. PICK b \in LandFirst(items[m], DOMAIN prim) :
            \E e \in LandLast(b.cache, DOMAIN prim) :
              o = [cache |-> e.cache, key |-> Successor(e.res[1])]
      BY <2>3 DEF NextKeys
    <3>2. b.cache \in Seq(Item)
      BY <1>2, LandTyped DEF TypedOutcomes
    <3>3. PICK e \in LandLast(b.cache, DOMAIN prim) :
            o = [cache |-> e.cache, key |-> Successor(e.res[1])]
      BY <3>1
    <3>4. e.cache \in Seq(Item) /\ e.res[1] \in 0 .. MaxU
      BY <1>3, <3>2, MultiIndexAssumption
    <3> QED BY <3>3, <3>4, SuccessorTyped
  <2> QED BY <2>1, <2>2, <2>3
<1>5. ASSUME items' = [items EXCEPT ![m] = o.cache],
             next_pk' = [next_pk EXCEPT ![m] = o.key],
             UNCHANGED <<prim, idx, gen, own, aborted>>
      PROVE  SharedInv'
  <2>1. items' \in [Instances -> Seq(Item)] /\ next_pk' \in [Instances -> 0 .. MaxU]
    BY <1>4, <1>5 DEF SharedInv, TypeOK
  <2> QED BY <1>5, <2>1 DEF SharedInv, TypeOK, IndexCoversRows
<1> QED BY <1>1, <1>5, AbortShared DEF Reply

LEMMA BumpedTyped ==
  ASSUME SharedInv, NEW m \in Instances, NEW pk \in Keys
  PROVE  [next_pk EXCEPT ![m] = Bumped(m, pk)] \in [Instances -> 0 .. MaxU]
<1>1. Bumped(m, pk) \in 0 .. MaxU
  BY SuccessorTyped, MultiIndexAssumption DEF SharedInv, TypeOK, Bumped
<1> QED BY <1>1 DEF SharedInv, TypeOK

\* emplace adds the row and the entry together.
LEMMA EmplaceShared ==
  ASSUME SharedInv, NEW m \in Instances, NEW pk \in Keys, NEW v \in Secs,
         NEW payer \in Payers, emplace(m, pk, v, payer)
  PROVE  SharedInv'
<1>1. CASE Abort("emplace", <<pk, v>>)
  BY <1>1, AbortShared
<1>2. CASE /\ prim' = Put(prim, pk, [sec |-> v, payer |-> payer])
           /\ idx' = Put(idx, pk, [sec |-> v, payer |-> payer])
           /\ next_pk' = [next_pk EXCEPT ![m] = Bumped(m, pk)]
           /\ items' = [items EXCEPT ![m] =
                Append(@, [pk |-> pk, val |-> v, pitr |-> gen[pk], iter |-> gen[pk]])]
           /\ UNCHANGED <<gen, own, aborted>>
  <2> DEFINE e == [sec |-> v, payer |-> payer]
             it == [pk |-> pk, val |-> v, pitr |-> gen[pk], iter |-> gen[pk]]
  <2>1. e \in Entry /\ it \in Item
    BY DEF Entry, Item, SharedInv, TypeOK
  <2>2. ASSUME NEW f \in UNION {[D -> Entry] : D \in SUBSET Keys}
        PROVE  /\ Put(f, pk, e) \in UNION {[D -> Entry] : D \in SUBSET Keys}
               /\ DOMAIN Put(f, pk, e) = DOMAIN f \cup {pk}
    <3>1. DOMAIN f \cup {pk} \in SUBSET Keys
      OBVIOUS
    <3>2. Put(f, pk, e) \in [DOMAIN f \cup {pk} -> Entry]
      BY <2>1 DEF Put
    <3> QED BY <3>1, <3>2
  <2>3. items' \in [Instances -> Seq(Item)]
    <3>1. Append(items[m], it) \in Seq(Item)
      BY <2>1 DEF SharedInv, TypeOK
    <3> QED BY <1>2, <3>1 DEF SharedInv, TypeOK
  <2>4. next_pk' \in [Instances -> 0 .. MaxU]
    BY <1>2, BumpedTyped
  <2>5. TypeOK'
    BY <1>2, <2>2, <2>3, <2>4 DEF SharedInv, TypeOK
  <2>6. IndexCoversRows'
    BY <1>2, <2>2 DEF SharedInv, TypeOK, IndexCoversRows
  <2> QED BY <2>5, <2>6 DEF SharedInv
<1> QED BY <1>1, <1>2 DEF emplace, Reply

\* modify replaces a row that is there, and an entry that is there: the host
\* refuses a handle of a row that is gone.
LEMMA ModifyShared ==
  ASSUME SharedInv, NEW m \in Instances, NEW i \in 1 .. Len(items[m]), NEW v \in Secs,
         NEW payer \in Payers \cup {SamePayer}, modify(m, i, v, payer)
  PROVE  SharedInv'
<1> DEFINE it == items[m][i]
           changed == KeyChanged(it, v)
           h == WriteHandle(it)
<1>1. CASE Abort("modify", <<it.pk, v>>)
  BY <1>1, AbortShared
<1>2. CASE /\ RowLive(it.pk, it.pitr)
           /\ prim' = [prim EXCEPT ![it.pk] =
                [sec |-> v, payer |-> Billed(payer, @.payer)]]
           /\ idx' = IF changed
                     THEN [idx EXCEPT ![it.pk] =
                            [sec |-> v, payer |-> Billed(payer, @.payer)]]
                     ELSE idx
           /\ next_pk' = [next_pk EXCEPT ![m] = Bumped(m, it.pk)]
           /\ items' = [items EXCEPT ![m][i] =
                [it EXCEPT !.val = v, !.iter = IF changed THEN h ELSE @]]
           /\ UNCHANGED <<gen, own, aborted>>
  <2>1. items[m] \in Seq(Item) /\ it \in Item /\ it.pk \in Keys /\ it.pk \in DOMAIN prim
    <3>1. items[m] \in Seq(Item)
      BY DEF SharedInv, TypeOK
    <3>2. it \in Item
      BY <3>1
    <3>3. it.pk \in Keys
      BY <3>2 DEF Item
    <3> QED BY <1>2, <3>1, <3>2, <3>3 DEF RowLive
  <2>2. h \in Nat \cup {Unset, EndItr}
    BY <2>1, FindPrimaryTyped DEF WriteHandle, Item
  <2>3. [it EXCEPT !.val = v, !.iter = IF changed THEN h ELSE @] \in Item
    <3> HIDE DEF it, h, changed
    <3> QED BY <2>1, <2>2 DEF Item
  <2>4. items' \in [Instances -> Seq(Item)]
    <3> HIDE DEF h, changed
    <3>1. [items[m] EXCEPT ![i] =
             [it EXCEPT !.val = v, !.iter = IF changed THEN h ELSE @]] \in Seq(Item)
      BY <2>1, <2>3
    <3> QED BY <1>2, <3>1 DEF SharedInv, TypeOK
  <2>5. ASSUME NEW f \in UNION {[D -> Entry] : D \in SUBSET Keys}, NEW k \in DOMAIN f
        PROVE  LET g == [f EXCEPT ![k] = [sec |-> v, payer |-> Billed(payer, @.payer)]]
               IN  /\ g \in UNION {[D -> Entry] : D \in SUBSET Keys}
                   /\ DOMAIN g = DOMAIN f
    <3>1. f[k] \in Entry /\ Billed(payer, f[k].payer) \in Payers
      BY DEF Entry, Billed
    <3>2. [sec |-> v, payer |-> Billed(payer, f[k].payer)] \in Entry
      BY <3>1 DEF Entry
    <3> QED BY <3>2
  <2>6. it.pk \in DOMAIN idx
    BY <2>1 DEF SharedInv, IndexCoversRows
  <2>7. /\ prim' \in UNION {[D -> Entry] : D \in SUBSET Keys}
        /\ DOMAIN prim' = DOMAIN prim
    <3> HIDE DEF it
    <3> QED BY <1>2, <2>1, <2>5 DEF SharedInv, TypeOK
  <2>8. /\ idx' \in UNION {[D -> Entry] : D \in SUBSET Keys}
        /\ DOMAIN idx' = DOMAIN idx
    <3> HIDE DEF it, changed
    <3> QED BY <1>2, <2>5, <2>6 DEF SharedInv, TypeOK
  <2>9. next_pk' \in [Instances -> 0 .. MaxU]
    BY <1>2, <2>1, BumpedTyped
  <2> QED BY <1>2, <2>4, <2>7, <2>8, <2>9 DEF SharedInv, TypeOK, IndexCoversRows
<1> QED BY <1>1, <1>2 DEF modify, Reply

LEMMA RemoveAtTyped ==
  ASSUME NEW s \in Seq(Item), NEW j \in 1 .. Len(s) PROVE RemoveAt(s, j) \in Seq(Item)
<1>1. Len(s) \in Nat /\ Len(s) - 1 \in Nat
  OBVIOUS
<1>2. \A x \in 1 .. Len(s) - 1 : (IF x < j THEN s[x] ELSE s[x + 1]) \in Item
  BY <1>1
<1>3. RemoveAt(s, j) \in [1 .. Len(s) - 1 -> Item]
  BY <1>2 DEF RemoveAt
<1> QED BY <1>1, <1>3

\* erase removes a row that is there.  Its entry is there too, so the handle
\* that erase works with is a real one: either the host refuses it and the
\* action aborts, or the entry goes with the row.
LEMMA EraseItemShared ==
  ASSUME SharedInv, NEW m \in Instances, NEW s \in Seq(Item), NEW i \in 1 .. Len(s),
         NEW op, NEW r, EraseItem(m, s, i, op, r)
  PROVE  SharedInv'
<1> DEFINE it == s[i]
           h == WriteHandle(it)
           k == it.pk
<1>1. CASE Abort(op, <<k>>)
  BY <1>1, AbortShared
<1>2. CASE /\ RowLive(k, it.pitr)
           /\ \E j \in LastWith(s, k) : items' = [items EXCEPT ![m] = RemoveAt(s, j)]
           /\ prim' = Remove(prim, k)
           /\ idx' = IF h >= 0 THEN Remove(idx, k) ELSE idx
           /\ gen' = [gen EXCEPT ![k] = @ + 1]
           /\ UNCHANGED <<next_pk, own, aborted>>
  <2>1. it \in Item /\ k \in Keys /\ k \in DOMAIN prim
    <3>1. it \in Item
      OBVIOUS
    <3>2. k \in Keys
      BY <3>1 DEF Item
    <3> QED BY <1>2, <3>1, <3>2 DEF RowLive
  <2>2. h >= 0
    BY <2>1, FindPrimaryTyped DEF WriteHandle, Item, Unset, EndItr
  <2>3. ASSUME NEW f \in UNION {[D -> Entry] : D \in SUBSET Keys}
        PROVE  /\ Remove(f, k) \in UNION {[D -> Entry] : D \in SUBSET Keys}
               /\ DOMAIN Remove(f, k) = DOMAIN f \ {k}
    <3>1. Remove(f, k) \in [DOMAIN f \ {k} -> Entry] /\ DOMAIN f \ {k} \in SUBSET Keys
      BY DEF Remove
    <3> QED BY <3>1
  <2>4. items' \in [Instances -> Seq(Item)]
    <3>1. PICK j \in LastWith(s, k) : items' = [items EXCEPT ![m] = RemoveAt(s, j)]
      BY <1>2
    <3>2. RemoveAt(s, j) \in Seq(Item)
      BY RemoveAtTyped DEF LastWith
    <3> QED BY <3>1, <3>2 DEF SharedInv, TypeOK
  <2>5. gen' \in [Keys -> Nat]
    BY <1>2, <2>1 DEF SharedInv, TypeOK
  <2>6. idx' = Remove(idx, k)
    BY <1>2, <2>2
  <2>7. TypeOK'
    BY <1>2, <2>3, <2>4, <2>5, <2>6 DEF SharedInv, TypeOK
  <2>8. IndexCoversRows'
    BY <1>2, <2>3, <2>6 DEF SharedInv, TypeOK, IndexCoversRows
  <2> QED BY <2>7, <2>8 DEF SharedInv
<1> QED BY <1>1, <1>2 DEF EraseItem, Reply

\* erase through an iterator: the step forward first, then the removal.
LEMMA EraseAfterShared ==
  ASSUME SharedInv, NEW m \in Instances, NEW i \in 1 .. Len(items[m]), NEW op, NEW O,
         TypedOutcomes(items[m], O), NEW o \in O, EraseItem(m, o.cache, i, op, o.res)
  PROVE  SharedInv'
<1>1. o.cache \in Seq(Item) /\ Len(items[m]) <= Len(o.cache) /\ items[m] \in Seq(Item)
  BY DEF TypedOutcomes, SharedInv, TypeOK
<1>2. Len(items[m]) \in Nat /\ Len(o.cache) \in Nat
  BY <1>1
<1>3. i \in 1 .. Len(o.cache)
  BY <1>1, <1>2
<1> QED BY <1>1, <1>3, EraseItemShared

LEMMA CommitShared == ASSUME SharedInv, commit PROVE SharedInv'
<1>1. <<>> \in Seq(Item) /\ MaxU \in 0 .. MaxU
  BY MultiIndexAssumption
<1> QED BY <1>1 DEF commit, SharedInv, TypeOK, IndexCoversRows, unset_next_primary_key

LEMMA InitShared == Init => SharedInv
<1> SUFFICES ASSUME Init PROVE SharedInv
  OBVIOUS
<1>1. <<>> \in Seq(Item) /\ MaxU \in 0 .. MaxU
  BY MultiIndexAssumption
<1>2. DOMAIN idx = DOMAIN prim /\ DOMAIN prim \in SUBSET Keys /\ idx \in [DOMAIN prim -> Entry]
  BY DEF Init
<1>3. idx \in UNION {[D -> Entry] : D \in SUBSET Keys}
  BY <1>2
<1> QED BY <1>1, <1>2, <1>3 DEF Init, SharedInv, TypeOK, IndexCoversRows,
                                unset_next_primary_key

\* Every call of every instance.
LEMMA CallShared ==
  ASSUME SharedInv, NEW m \in Instances, Call(m) PROVE SharedInv'
<1> DEFINE s == items[m]
<1>0. s \in Seq(Item) /\ Len(s) \in Nat
  BY DEF SharedInv, TypeOK
<1>1. ASSUME NEW pk \in Keys, find(m, pk) \/ require_find(m, pk) PROVE SharedInv'
  <2>1. TypedOutcomes(s, FindAt(s, pk))
    BY <1>0, FindAtTyped
  <2>2. TypedOutcomes(s, {o \in FindAt(s, pk) : o.res # <<>>})
    BY <2>1 DEF TypedOutcomes
  <2> QED BY <1>1, <2>1, <2>2, LookupShared DEF find, require_find
<1>2. ASSUME NEW pk \in Keys, lower_bound(m, pk) \/ upper_bound(m, pk) PROVE SharedInv'
  <2>1. /\ TypedOutcomes(s, LandFirst(s, {k \in DOMAIN prim : k >= pk}))
        /\ TypedOutcomes(s, LandFirst(s, {k \in DOMAIN prim : k > pk}))
    BY <1>0, LandTyped
  <2> QED BY <1>2, <2>1, LookupShared DEF lower_bound, upper_bound
<1>3. ASSUME NEW pk \in Keys, NEW v \in Secs, NEW p \in Payers, emplace(m, pk, v, p)
      PROVE  SharedInv'
  BY <1>3, EmplaceShared
<1>4. ASSUME NEW i \in Held(m), increment(m, i) \/ decrement(m, i) PROVE SharedInv'
  <2>1. TypedOutcomes(s, After(s, i)) /\ TypedOutcomes(s, Before(s, i))
    BY <1>0, WalkTyped
  <2> QED BY <1>4, <2>1, LookupShared DEF increment, decrement
<1>5. ASSUME NEW i \in Held(m), idx_increment(m, i) \/ idx_decrement(m, i) PROVE SharedInv'
  <2>1. TypedOutcomes(s, IndexAfter(s, i)) /\ TypedOutcomes(s, IndexBefore(s, i))
    BY <1>0, IndexWalkTyped DEF Held
  <2> QED BY <1>5, <2>1, LookupShared DEF idx_increment, idx_decrement
<1>6. ASSUME NEW i \in Held(m), idx_iterator_to(m, i) PROVE SharedInv'
  <2> DEFINE t == [s EXCEPT ![i].iter = EntryHandle(s[i])]
  <2>1. t \in Seq(Item) /\ Len(t) = Len(s)
    BY <1>0, IndexWalkTyped, RememberTyped DEF Held
  <2>2. Cursor(t, i).cache = t
    BY DEF Cursor
  <2>3. TypedOutcomes(s, {Cursor(t, i)})
    <3> HIDE DEF t
    <3> QED BY <1>0, <2>1, <2>2 DEF TypedOutcomes
  <2> QED BY <1>6, <2>3, LookupShared DEF idx_iterator_to
<1>7. ASSUME NEW i \in Held(m), erase_object(m, i) PROVE SharedInv'
  BY <1>0, <1>7, EraseItemShared DEF erase_object, Held
<1>8. ASSUME NEW i \in Held(m), erase(m, i) PROVE SharedInv'
  <2>1. i \in 1 .. Len(s) /\ TypedOutcomes(s, After(s, i))
    BY <1>0, WalkTyped DEF Held
  <2>2. CASE Abort("erase", <<s[i].pk>>)
    BY <2>2, AbortShared
  <2>3. ASSUME NEW o \in After(s, i), EraseItem(m, o.cache, i, "erase", o.res)
        PROVE  SharedInv'
    BY <2>1, <2>3, EraseAfterShared
  <2> QED BY <1>8, <2>2, <2>3 DEF erase
<1>9. ASSUME NEW i \in Held(m), idx_erase(m, i) PROVE SharedInv'
  <2>1. i \in 1 .. Len(s) /\ TypedOutcomes(s, IndexAfter(s, i))
    BY <1>0, IndexWalkTyped DEF Held
  <2>2. CASE Abort("idx_erase", <<s[i].pk>>)
    BY <2>2, AbortShared
  <2>3. ASSUME NEW o \in IndexAfter(s, i), EraseItem(m, o.cache, i, "idx_erase", o.res)
        PROVE  SharedInv'
    BY <2>1, <2>3, EraseAfterShared
  <2> QED BY <1>9, <2>2, <2>3 DEF idx_erase
<1>10. ASSUME NEW i \in Held(m), modify_key(m, i) PROVE SharedInv'
  BY <1>10, AbortShared DEF modify_key
<1>11. ASSUME NEW i \in Held(m), NEW v \in Secs, NEW p \in Payers \cup {SamePayer},
              modify(m, i, v, p)
       PROVE  SharedInv'
  BY <1>11, ModifyShared DEF Held
<1>12. ASSUME NEW v \in Secs, idx_lower_bound(m, v) \/ idx_upper_bound(m, v)
       PROVE  SharedInv'
  <2>1. /\ TypedOutcomes(s, IndexFirst(s, {k \in DOMAIN idx : idx[k].sec >= v}))
        /\ TypedOutcomes(s, IndexFirst(s, {k \in DOMAIN idx : idx[k].sec > v}))
    BY <1>0, IndexTyped
  <2> QED BY <1>12, <2>1, LookupShared DEF idx_lower_bound, idx_upper_bound
<1>13. ASSUME NEW v \in Secs, idx_find(m, v) \/ idx_require_find(m, v) PROVE SharedInv'
  <2>1. TypedOutcomes(s, IndexFirst(s, {k \in DOMAIN idx : idx[k].sec >= v}))
    BY <1>0, IndexTyped
  <2>2. TypedOutcomes(s, IndexFind(s, v))
    <3> SUFFICES ASSUME NEW f \in IndexFind(s, v)
                 PROVE  f.cache \in Seq(Item) /\ Len(s) <= Len(f.cache)
      BY DEF TypedOutcomes
    <3>1. PICK o \in IndexFirst(s, {k \in DOMAIN idx : idx[k].sec >= v}) :
            f = IF o.res = <<>> \/ o.res[2] = v THEN o ELSE AtEnd(o.cache)
      BY DEF IndexFind
    <3>2. AtEnd(o.cache).cache = o.cache
      BY DEF AtEnd
    <3>3. f.cache = o.cache
      BY <3>1, <3>2
    <3> QED BY <2>1, <3>3 DEF TypedOutcomes
  <2>3. TypedOutcomes(s, {o \in IndexFind(s, v) : o.res # <<>>})
    BY <2>2 DEF TypedOutcomes
  <2> QED BY <1>13, <2>2, <2>3, LookupShared DEF idx_find, idx_require_find
<1>14. CASE decrement_end(m)
  <2>1. TypedOutcomes(s, LandLast(s, DOMAIN prim))
    BY <1>0, LandTyped
  <2> QED BY <1>14, <2>1, LookupShared DEF decrement_end
<1>15. CASE idx_decrement_end(m)
  <2>1. TypedOutcomes(s, IndexLast(s, DOMAIN idx))
    BY <1>0, IndexTyped
  <2> QED BY <1>15, <2>1, LookupShared DEF idx_decrement_end
<1>16. CASE available_primary_key(m)
  BY <1>16, AvailableShared
<1>17. CASE foreign_object(m)
  BY <1>17, AbortShared DEF foreign_object
<1> QED
  BY <1>1, <1>2, <1>3, <1>4, <1>5, <1>6, <1>7, <1>8, <1>9, <1>10, <1>11,
     <1>12, <1>13, <1>14, <1>15, <1>16, <1>17 DEF Call

LEMMA NextShared == ASSUME SharedInv, [Next]_vars PROVE SharedInv'
<1>1. CASE UNCHANGED vars
  BY <1>1 DEF vars, SharedInv, TypeOK, IndexCoversRows
<1> QED BY <1>1, CommitShared, CallShared DEF Next

-----------------------------------------------------------------------------
(* The types and the domain of the index, for any number of instances.     *)
THEOREM SharedInductive == Spec => []SharedInv
<1>1. SharedInv /\ [Next]_vars => SharedInv'
  BY NextShared
<1> QED BY <1>1, InitShared, PTL DEF Spec

(* The types of the host's tables, the caches and the next keys.           *)
THEOREM TypeCorrect == Spec => []TypeOK
<1>1. SharedInv => TypeOK
  BY DEF SharedInv
<1> QED BY <1>1, SharedInductive, PTL

(* However many instances insert, modify and erase through caches that the *)
(* others have made stale, every row keeps its index entry and no entry    *)
(* outlives its row.                                                       *)
THEOREM IndexCoverage == Spec => []IndexCoversRows
<1>1. SharedInv => IndexCoversRows
  BY DEF SharedInv
<1> QED BY <1>1, SharedInductive, PTL

-----------------------------------------------------------------------------
(***************************************************************************)
(* One multi_index object implements OrderedTable, for every table, every  *)
(* set of keys and every sequence of calls: with its caches, its handles   *)
(* and its second table it answers each call as the rows alone determine,  *)
(* and fails only where the abstract table says a call may fail.           *)
(***************************************************************************)
(* The host can always name a first and a last row.                        *)

\* A set of naturals has a least element.
LEMMA LeastNat ==
  ASSUME NEW T \in SUBSET Nat, T # {} PROVE \E n \in T : \A m \in T : n <= m
<1> DEFINE R == OpToRel(<, Nat)
<1>1. R = {ss \in Nat \X Nat : ss[1] < ss[2]}
  BY DEF OpToRel
<1>2. IsWellFoundedOn(R, Nat)
  BY NatLessThanWellFounded
<1> HIDE DEF R
<1>3. PICK x \in T : \A y \in T : ~(<<y, x>> \in R)
  BY <1>2, WFMin
<1>4. ASSUME NEW m \in T PROVE x <= m
  <2>1. ~(<<m, x>> \in {ss \in Nat \X Nat : ss[1] < ss[2]})
    BY <1>1, <1>3
  <2>2. ~(m < x)
    BY <2>1
  <2> QED BY <2>2
<1> QED BY <1>4

TotalOrderOn(R, S) ==
  /\ \A a, b \in S : a = b \/ <<a, b>> \in R \/ <<b, a>> \in R
  /\ \A a, b, c \in S : <<a, b>> \in R /\ <<b, c>> \in R => <<a, c>> \in R

\* A finite set has a first element in any total order R on it: were there a
\* bound n below which it has none, take the least.
LEMMA FirstInOrder ==
  ASSUME NEW N \in Nat, NEW S \in SUBSET (0 .. N), S # {}, NEW R, TotalOrderOn(R, S)
  PROVE  \E k \in S : \A j \in S : j = k \/ <<k, j>> \in R
<1> DEFINE Upto(n) == {k \in S : k <= n}
           HasFirst(n) == \/ Upto(n) = {}
                          \/ \E k \in Upto(n) : \A j \in Upto(n) : j = k \/ <<k, j>> \in R
           B == {n \in Nat : ~HasFirst(n)}
<1>0. \A k \in S : k \in Nat /\ k <= N
  OBVIOUS
<1> SUFFICES B = {}
  <2>1. Upto(N) = S
    BY <1>0
  <2> QED BY <2>1
<1> SUFFICES ASSUME B # {} PROVE FALSE
  OBVIOUS
<1>1. PICK n \in B : \A m \in B : n <= m
  <2> HIDE DEF B
  <2>1. B \in SUBSET Nat
    BY DEF B
  <2> QED BY <2>1, LeastNat
<1>2. n \in Nat /\ ~HasFirst(n)
  BY <1>1
<1>3. n # 0
  <2>1. ASSUME n = 0 PROVE \A k \in Upto(n) : k = 0
    BY <2>1
  <2> QED BY <1>2, <2>1
<1>4. n - 1 \in Nat /\ HasFirst(n - 1)
  <2>1. n - 1 \in Nat /\ ~(n <= n - 1)
    BY <1>2, <1>3
  <2>2. n - 1 \notin B
    BY <1>1, <2>1
  <2> QED BY <2>1, <2>2
<1>5. \A k : k \in Upto(n) <=> k \in Upto(n - 1) \/ (k = n /\ n \in S)
  <2>1. ASSUME NEW k \in S PROVE k <= n <=> k <= n - 1 \/ k = n
    BY <1>0, <1>2
  <2>2. n <= n
    BY <1>2
  <2> QED BY <2>1, <2>2
<1> HIDE DEF Upto
<1>6. CASE Upto(n - 1) = {}
  <2>1. \A k : k \in Upto(n) <=> (k = n /\ n \in S)
    BY <1>5, <1>6
  <2> QED BY <1>2, <2>1
<1>7. CASE Upto(n - 1) # {}
  <2>1. PICK k \in Upto(n - 1) : \A j \in Upto(n - 1) : j = k \/ <<k, j>> \in R
    BY <1>4, <1>7
  <2>2. \A i : i \in Upto(n) => i \in S
    BY DEF Upto
  <2>3. CASE n \notin S \/ <<k, n>> \in R \/ k = n
    BY <1>2, <1>5, <2>1, <2>3
  <2>4. CASE n \in S /\ <<n, k>> \in R
    <3>1. \A j \in Upto(n) : j = n \/ <<n, j>> \in R
      BY <1>5, <2>1, <2>2, <2>4 DEF TotalOrderOn
    <3> QED BY <1>2, <1>5, <2>4, <3>1
  <2> QED BY <1>5, <2>1, <2>2, <2>3, <2>4 DEF TotalOrderOn
<1> QED BY <1>6, <1>7

FirstPk(S) == {k \in S : \A j \in S : j = k \/ k < j}
LastPk(S) == {k \in S : \A j \in S : j = k \/ j < k}
FirstSec(S) == {k \in S : \A j \in S : j = k \/ SecBefore(k, j)}
LastSec(S) == {k \in S : \A j \in S : j = k \/ SecBefore(j, k)}

\* In the order of the primary keys ...
LEMMA PkEnds ==
  ASSUME IInv, NEW S \in SUBSET DOMAIN prim, S # {}
  PROVE  FirstPk(S) # {} /\ LastPk(S) # {}
<1>1. MaxU \in Nat /\ S \in SUBSET (0 .. MaxU)
  BY MultiIndexAssumption DEF IInv, TypeOK
<1>2. \A k \in S : k \in Nat
  BY <1>1
<1> DEFINE R == {p \in S \X S : p[1] < p[2]}
           Q == {p \in S \X S : p[2] < p[1]}
<1>3. \A a, b \in S : (<<a, b>> \in R <=> a < b) /\ (<<a, b>> \in Q <=> b < a)
  OBVIOUS
<1> HIDE DEF R, Q
<1>4. \A a, b \in S : a = b \/ a < b \/ b < a
  BY <1>2
<1>5. \A a, b, c \in S : a < b /\ b < c => a < c
  BY <1>2
<1>6. TotalOrderOn(R, S) /\ TotalOrderOn(Q, S)
  BY <1>3, <1>4, <1>5, Zenon DEF TotalOrderOn
<1>7. \E k \in S : \A j \in S : j = k \/ <<k, j>> \in R
  BY <1>1, <1>6, FirstInOrder
<1>8. \E k \in S : \A j \in S : j = k \/ <<k, j>> \in Q
  BY <1>1, <1>6, FirstInOrder
<1> QED BY <1>3, <1>7, <1>8 DEF FirstPk, LastPk

\* ... and of the index.
LEMMA SecEnds ==
  ASSUME IInv, NEW S \in SUBSET DOMAIN idx, S # {}
  PROVE  FirstSec(S) # {} /\ LastSec(S) # {}
<1>1. MaxU \in Nat /\ S \in SUBSET (0 .. MaxU)
  BY MultiIndexAssumption DEF IInv, TypeOK
<1>2. \A k \in S : k \in Nat /\ idx[k].sec \in Nat
  <2>1. ASSUME NEW k \in S PROVE idx[k].sec \in Secs
    <3>1. idx[k] \in Entry
      BY DEF IInv, TypeOK
    <3> QED BY <3>1 DEF Entry
  <2>2. ASSUME NEW k \in S PROVE k \in Nat
    BY <1>1
  <2>3. \A v \in Secs : v \in Nat
    BY MultiIndexAssumption
  <2> QED BY <2>1, <2>2, <2>3
<1> DEFINE R == {p \in S \X S : SecBefore(p[1], p[2])}
           Q == {p \in S \X S : SecBefore(p[2], p[1])}
<1>3. \A a, b \in S : /\ <<a, b>> \in R <=> SecBefore(a, b)
                      /\ <<a, b>> \in Q <=> SecBefore(b, a)
  OBVIOUS
<1> HIDE DEF R, Q
<1>4. \A a, b \in S : a = b \/ SecBefore(a, b) \/ SecBefore(b, a)
  BY <1>2 DEF SecBefore
<1>5. \A a, b, c \in S : SecBefore(a, b) /\ SecBefore(b, c) => SecBefore(a, c)
  BY <1>2 DEF SecBefore
<1>6. TotalOrderOn(R, S) /\ TotalOrderOn(Q, S)
  BY <1>3, <1>4, <1>5, Zenon DEF TotalOrderOn
<1>7. \E k \in S : \A j \in S : j = k \/ <<k, j>> \in R
  BY <1>1, <1>6, FirstInOrder
<1>8. \E k \in S : \A j \in S : j = k \/ <<k, j>> \in Q
  BY <1>1, <1>6, FirstInOrder
<1> QED BY <1>3, <1>7, <1>8 DEF FirstSec, LastSec

-----------------------------------------------------------------------------
(* What the lookups answer.                                                *)

\* The lookup does not fail, and answers with the row of some key of K.
Answers(O, K) == O # {} /\ \A o \in O : \E k \in K : o.res = <<k, prim[k].sec>>

\* The lookup does not fail, and answers with the end iterator.
Ends(O) == O # {} /\ \A o \in O : o.res = <<>>

LEMMA LoadAnswers ==
  ASSUME IInv, NEW s, Good(s), NEW k \in DOMAIN prim
  PROVE  Answers(LoadAt(s, k), {k})
<1> DEFINE t == Loaded(s, k)
<1>1. Good(t) /\ Len(s) \in Nat /\ Len(t) \in Nat
  BY LoadedGood DEF Good
<1>2. PICK j \in 1 .. Len(t) : HoldsRow(t[j], k)
  <2>1. CASE \E j \in 1 .. Len(s) : HoldsRow(s[j], k)
    BY <2>1 DEF Loaded
  <2>2. CASE ~\E j \in 1 .. Len(s) : HoldsRow(s[j], k)
    <3>1. t = Append(s, FromRow(k)) /\ s \in Seq(Item)
      BY <2>2 DEF Loaded, Good
    <3>2. Len(t) = Len(s) + 1 /\ t[Len(s) + 1] = FromRow(k)
      BY <3>1
    <3>3. HoldsRow(FromRow(k), k)
      BY DEF HoldsRow, FromRow
    <3>4. Len(s) + 1 \in 1 .. Len(t)
      BY <1>1, <3>2
    <3> QED BY <3>2, <3>3, <3>4
  <2> QED BY <2>1, <2>2
<1> HIDE DEF t
<1>3. \A y \in j + 1 .. Len(t) : ~HoldsRow(t[y], k)
  <2>1. ASSUME NEW y \in j + 1 .. Len(t), HoldsRow(t[y], k) PROVE FALSE
    <3>1. y \in 1 .. Len(t) /\ y # j
      BY <1>1
    <3> QED BY <1>1, <1>2, <2>1, <3>1 DEF HoldsRow, Good, Coherent
  <2> QED BY <2>1
<1>4. Cursor(t, j) \in LoadAt(s, k)
  BY <1>2, <1>3 DEF LoadAt, t
<1>5. ASSUME NEW o \in LoadAt(s, k) PROVE o.res = <<k, prim[k].sec>>
  <2>1. PICK x \in 1 .. Len(t) : HoldsRow(t[x], k) /\ o = Cursor(t, x)
    BY DEF LoadAt, t
  <2> QED BY <1>1, <2>1 DEF HoldsRow, Cursor, Good, Coherent
<1> QED BY <1>4, <1>5 DEF Answers

\* The last cached object with a key, in a cache that holds one, shows the row.
LEMMA LastAnswers ==
  ASSUME IInv, NEW t, Good(t), NEW k, Cached(t, k)
  PROVE  /\ LastWith(t, k) # {}
         /\ \A j \in LastWith(t, k) : /\ j \in 1 .. Len(t) /\ t[j].pk = k
                                      /\ t[j].val = prim[k].sec
<1>1. PICK j \in 1 .. Len(t) : t[j].pk = k
  BY DEF Cached
<1>2. Len(t) \in Nat
  BY DEF Good
<1>3. ASSUME NEW y \in j + 1 .. Len(t), t[y].pk = k PROVE FALSE
  <2>1. y \in 1 .. Len(t) /\ y # j
    BY <1>2
  <2> QED BY <1>1, <1>3, <2>1 DEF Good, Coherent
<1>4. j \in LastWith(t, k)
  BY <1>1, <1>3 DEF LastWith
<1> QED BY <1>4 DEF LastWith, Good, Coherent

\* A row that is there is in the cache once it has been looked for.
LEMMA FoundIsCached ==
  ASSUME IInv, NEW s, Good(s), NEW k \in DOMAIN prim
  PROVE  Cached(FoundIn(s, k), k)
<1>1. CASE Cached(s, k)
  BY <1>1 DEF FoundIn
<1>2. CASE ~Cached(s, k)
  <2>1. FoundIn(s, k) = Append(s, FromRow(k)) /\ s \in Seq(Item) /\ Len(s) \in Nat
    BY <1>2 DEF FoundIn, Loaded, Cached, HoldsRow, Good
  <2>2. Append(s, FromRow(k))[Len(s) + 1] = FromRow(k)
    BY <2>1
  <2>3. Len(s) + 1 \in 1 .. Len(Append(s, FromRow(k))) /\ FromRow(k).pk = k
    BY <2>1 DEF FromRow
  <2> QED BY <2>1, <2>2, <2>3 DEF Cached
<1> QED BY <1>1, <1>2

LEMMA FindAnswers ==
  ASSUME IInv, NEW s, Good(s), NEW k
  PROVE  /\ k \in DOMAIN prim => Answers(FindAt(s, k), {k})
         /\ k \notin DOMAIN prim => Ends(FindAt(s, k))
<1>1. CASE k \in DOMAIN prim
  <2> DEFINE t == FoundIn(s, k)
  <2>1. Good(t) /\ Cached(t, k)
    BY <1>1, FoundInGood, FoundIsCached
  <2>2. FindAt(s, k) = {Cursor(t, j) : j \in LastWith(t, k)}
    BY <1>1 DEF FindAt
  <2> HIDE DEF t
  <2>3. LastWith(t, k) # {} /\ \A j \in LastWith(t, k) : t[j].pk = k /\ t[j].val = prim[k].sec
    BY <2>1, LastAnswers
  <2>4. \A o \in FindAt(s, k) : o.res = <<k, prim[k].sec>>
    BY <2>2, <2>3 DEF Cursor
  <2>5. FindAt(s, k) # {}
    BY <2>2, <2>3
  <2> QED BY <1>1, <2>4, <2>5 DEF Answers
<1>2. CASE k \notin DOMAIN prim
  <2>1. ~Cached(s, k)
    BY <1>2 DEF Cached, Good, Coherent, RowLive
  <2>2. FindAt(s, k) = {AtEnd(s)} /\ AtEnd(s).res = <<>>
    BY <1>2, <2>1 DEF FindAt, AtEnd
  <2> QED BY <1>2, <2>2 DEF Ends
<1> QED BY <1>1, <1>2

LEMMA IndexAnswers ==
  ASSUME IInv, NEW s, Good(s), NEW k \in DOMAIN idx
  PROVE  Answers(IndexAt(s, k), {k})
<1> DEFINE t == FoundIn(s, k)
           c(j) == [t EXCEPT ![j].iter = gen[k]]
<1>1. k \in DOMAIN prim
  BY DEF IInv, IndexCoversRows
<1>2. Good(t) /\ Cached(t, k)
  BY <1>1, FoundInGood, FoundIsCached
<1>3. IndexAt(s, k) = {Cursor(c(j), j) : j \in LastWith(t, k)}
  BY DEF IndexAt
<1> HIDE DEF t
<1>4. /\ LastWith(t, k) # {}
      /\ \A j \in LastWith(t, k) : /\ j \in 1 .. Len(t) /\ t[j].pk = k
                                   /\ t[j].val = prim[k].sec
  BY <1>2, LastAnswers
<1>5. ASSUME NEW j \in LastWith(t, k) PROVE Cursor(c(j), j).res = <<k, prim[k].sec>>
  <2>1. j \in DOMAIN t /\ t[j] \in Item
    BY <1>2, <1>4 DEF Good
  <2>2. c(j)[j].pk = t[j].pk /\ c(j)[j].val = t[j].val
    BY <2>1 DEF Item
  <2>3. Cursor(c(j), j).res = <<c(j)[j].pk, c(j)[j].val>>
    BY DEF Cursor
  <2> QED BY <1>4, <2>2, <2>3
<1> HIDE DEF c
<1> QED BY <1>3, <1>4, <1>5 DEF Answers

\* Bounds and steps in the order of the primary keys.
LEMMA LandAnswers ==
  ASSUME IInv, NEW s, Good(s), NEW S \in SUBSET DOMAIN prim
  PROVE  /\ S # {} => Answers(LandFirst(s, S), FirstPk(S))
         /\ S # {} => Answers(LandLast(s, S), LastPk(S))
         /\ S = {} => Ends(LandFirst(s, S)) /\ LandLast(s, S) = {}
<1>1. CASE S = {}
  BY <1>1 DEF LandFirst, LandLast, Ends, AtEnd
<1>2. CASE S # {}
  <2>1. /\ LandFirst(s, S) = UNION {LoadAt(s, k) : k \in FirstPk(S)}
        /\ LandLast(s, S) = UNION {LoadAt(s, k) : k \in LastPk(S)}
    <3>1. /\ {x \in S : IsFirst(x, S, PkBefore)} = FirstPk(S)
          /\ {x \in S : IsLast(x, S, PkBefore)} = LastPk(S)
      BY DEF IsFirst, IsLast, PkBefore, FirstPk, LastPk
    <3> QED BY <1>2, <3>1 DEF LandFirst, LandLast
  <2>2. \A k \in S : Answers(LoadAt(s, k), {k})
    BY LoadAnswers
  <2>3. FirstPk(S) # {} /\ LastPk(S) # {} /\ FirstPk(S) \subseteq S /\ LastPk(S) \subseteq S
    BY <1>2, PkEnds DEF FirstPk, LastPk
  <2> QED BY <1>2, <2>1, <2>2, <2>3 DEF Answers
<1> QED BY <1>1, <1>2

\* The same in the order of the index.
LEMMA IndexLandAnswers ==
  ASSUME IInv, NEW s, Good(s), NEW S \in SUBSET DOMAIN idx
  PROVE  /\ S # {} => Answers(IndexFirst(s, S), FirstSec(S))
         /\ S # {} => Answers(IndexLast(s, S), LastSec(S))
         /\ S = {} => Ends(IndexFirst(s, S)) /\ IndexLast(s, S) = {}
<1>1. CASE S = {}
  BY <1>1 DEF IndexFirst, IndexLast, Ends, AtEnd
<1>2. CASE S # {}
  <2>1. /\ IndexFirst(s, S) = UNION {IndexAt(s, k) : k \in FirstSec(S)}
        /\ IndexLast(s, S) = UNION {IndexAt(s, k) : k \in LastSec(S)}
    <3>1. /\ {x \in S : IsFirst(x, S, SecBefore)} = FirstSec(S)
          /\ {x \in S : IsLast(x, S, SecBefore)} = LastSec(S)
      BY DEF IsFirst, IsLast, FirstSec, LastSec
    <3> QED BY <1>2, <3>1 DEF IndexFirst, IndexLast
  <2>2. \A k \in S : Answers(IndexAt(s, k), {k})
    BY IndexAnswers
  <2>3. /\ FirstSec(S) # {} /\ LastSec(S) # {}
        /\ FirstSec(S) \subseteq S /\ LastSec(S) \subseteq S
    BY <1>2, SecEnds DEF FirstSec, LastSec
  <2> QED BY <1>2, <2>1, <2>2, <2>3 DEF Answers
<1> QED BY <1>1, <1>2
-----------------------------------------------------------------------------
(* Each call is a step of the abstract table.                              *)

\* The rows of the abstract table, and the order of the index among them.
LEMMA Rows ==
  ASSUME IInv
  PROVE  /\ Table!All = DOMAIN prim /\ DOMAIN idx = DOMAIN prim
         /\ \A k \in DOMAIN prim : /\ Table!Row(k) = <<k, prim[k].sec>>
                                   /\ idx[k].sec = prim[k].sec
         /\ \A a, b \in DOMAIN prim : Table!SecBefore(a, b) <=> SecBefore(a, b)
<1>1. DOMAIN idx = DOMAIN prim /\ \A k \in DOMAIN prim : idx[k].sec = prim[k].sec
  BY DEF IInv, IndexCoversRows, IndexMatchesRows
<1>2. Table!All = DOMAIN prim
  BY DEF Table!All
<1>3. \A k \in DOMAIN prim : Table!Row(k) = <<k, prim[k].sec>>
  BY DEF Table!Row
<1>4. \A a, b \in DOMAIN prim : Table!SecBefore(a, b) <=> SecBefore(a, b)
  BY <1>1 DEF Table!SecBefore, SecBefore
<1> QED BY <1>1, <1>2, <1>3, <1>4

LEMMA AbortFails ==
  ASSUME NEW op, NEW arg, Abort(op, arg) PROVE Table!Called(op, arg) /\ Table!Fail
  BY DEF Abort, Table!Called, Table!Fail

\* A lookup that fails, one at the end, and one that answers with a row.
LEMMA LookupTells ==
  ASSUME NEW m, NEW op, NEW arg, NEW O, Lookup(m, op, arg, O)
  PROVE  /\ Table!Called(op, arg)
         /\ O = {} => Table!Fail
         /\ Ends(O) => Table!Tell(<<>>)
         /\ \A K : Answers(O, K) => \E k \in K : Table!Tell(<<k, prim[k].sec>>)
<1>1. CASE O = {} /\ Abort(op, arg)
  BY <1>1, AbortFails DEF Ends, Answers
<1>2. CASE \E o \in O : /\ items' = [items EXCEPT ![m] = o.cache]
                        /\ Reply(op, arg, o.res)
                        /\ UNCHANGED <<prim, idx, gen, next_pk>>
  <2>1. PICK o \in O : Reply(op, arg, o.res) /\ UNCHANGED prim
    BY <1>2
  <2>2. Table!Called(op, arg) /\ Table!Tell(o.res)
    BY <2>1 DEF Reply, Table!Called, Table!Tell, Table!Answer
  <2>3. Ends(O) => Table!Tell(<<>>)
    BY <2>2 DEF Ends
  <2>4. ASSUME NEW K, Answers(O, K) PROVE \E k \in K : Table!Tell(<<k, prim[k].sec>>)
    BY <2>2, <2>4 DEF Answers
  <2> QED BY <2>1, <2>2, <2>3, <2>4
<1> QED BY <1>1, <1>2 DEF Lookup

LEMMA LookupTellsRow ==
  ASSUME NEW m, NEW op, NEW arg, NEW O, Lookup(m, op, arg, O), NEW k, Answers(O, {k})
  PROVE  Table!Called(op, arg) /\ Table!Tell(<<k, prim[k].sec>>)
<1> DEFINE K == {k}
<1>1. Answers(O, K) /\ \A x \in K : x = k
  OBVIOUS
<1> HIDE DEF K
<1> QED BY <1>1, LookupTells

\* The first and the last row of a set, in the order of the primary keys.
LEMMA LandTells ==
  ASSUME IInv, NEW m, NEW s, Good(s), NEW op, NEW arg, NEW S \in SUBSET DOMAIN prim
  PROVE  /\ Lookup(m, op, arg, LandFirst(s, S)) =>
              Table!Called(op, arg) /\ Table!TellFirst(S, Table!PkBefore)
         /\ Lookup(m, op, arg, LandLast(s, S)) =>
              Table!Called(op, arg) /\ Table!TellLast(S, Table!PkBefore)
<1>1. \A k \in S : Table!Row(k) = <<k, prim[k].sec>>
  BY Rows
<1>2. ASSUME Lookup(m, op, arg, LandFirst(s, S))
      PROVE  Table!Called(op, arg) /\ Table!TellFirst(S, Table!PkBefore)
  <2>1. Table!Called(op, arg)
    BY <1>2, LookupTells
  <2>2. CASE S = {}
    <3>1. Table!Tell(<<>>)
      BY <1>2, <2>2, LookupTells, LandAnswers
    <3> QED BY <2>1, <2>2, <3>1 DEF Table!TellFirst
  <2>3. CASE S # {}
    <3>1. PICK k \in FirstPk(S) : Table!Tell(<<k, prim[k].sec>>)
      BY <1>2, <2>3, LookupTells, LandAnswers
    <3>2. k \in S /\ \A j \in S : j = k \/ k < j
      BY DEF FirstPk
    <3> QED BY <1>1, <2>1, <3>1, <3>2 DEF Table!TellFirst, Table!IsFirst, Table!PkBefore
  <2> QED BY <2>2, <2>3
<1>3. ASSUME Lookup(m, op, arg, LandLast(s, S))
      PROVE  Table!Called(op, arg) /\ Table!TellLast(S, Table!PkBefore)
  <2>1. Table!Called(op, arg)
    BY <1>3, LookupTells
  <2>2. CASE S = {}
    <3>1. Table!Fail
      BY <1>3, <2>2, LookupTells, LandAnswers
    <3> QED BY <2>1, <2>2, <3>1 DEF Table!TellLast
  <2>3. CASE S # {}
    <3>1. PICK k \in LastPk(S) : Table!Tell(<<k, prim[k].sec>>)
      BY <1>3, <2>3, LookupTells, LandAnswers
    <3>2. k \in S /\ \A j \in S : j = k \/ j < k
      BY DEF LastPk
    <3> QED BY <1>1, <2>1, <3>1, <3>2 DEF Table!TellLast, Table!IsLast, Table!PkBefore
  <2> QED BY <2>2, <2>3
<1> QED BY <1>2, <1>3

\* The first and the last row of a set, in the order of the index.
LEMMA IndexLandTells ==
  ASSUME IInv, NEW m, NEW s, Good(s), NEW op, NEW arg, NEW S \in SUBSET DOMAIN idx
  PROVE  /\ Lookup(m, op, arg, IndexFirst(s, S)) =>
              Table!Called(op, arg) /\ Table!TellFirst(S, Table!SecBefore)
         /\ Lookup(m, op, arg, IndexLast(s, S)) =>
              Table!Called(op, arg) /\ Table!TellLast(S, Table!SecBefore)
<1>1. /\ \A k \in S : Table!Row(k) = <<k, prim[k].sec>>
      /\ \A a, b \in S : Table!SecBefore(a, b) <=> SecBefore(a, b)
  BY Rows
<1>2. ASSUME Lookup(m, op, arg, IndexFirst(s, S))
      PROVE  Table!Called(op, arg) /\ Table!TellFirst(S, Table!SecBefore)
  <2>1. Table!Called(op, arg)
    BY <1>2, LookupTells
  <2>2. CASE S = {}
    <3>1. Table!Tell(<<>>)
      BY <1>2, <2>2, LookupTells, IndexLandAnswers
    <3> QED BY <2>1, <2>2, <3>1 DEF Table!TellFirst
  <2>3. CASE S # {}
    <3>1. PICK k \in FirstSec(S) : Table!Tell(<<k, prim[k].sec>>)
      BY <1>2, <2>3, LookupTells, IndexLandAnswers
    <3>2. k \in S /\ \A j \in S : j = k \/ Table!SecBefore(k, j)
      BY <1>1 DEF FirstSec
    <3> QED BY <1>1, <2>1, <3>1, <3>2 DEF Table!TellFirst, Table!IsFirst
  <2> QED BY <2>2, <2>3
<1>3. ASSUME Lookup(m, op, arg, IndexLast(s, S))
      PROVE  Table!Called(op, arg) /\ Table!TellLast(S, Table!SecBefore)
  <2>1. Table!Called(op, arg)
    BY <1>3, LookupTells
  <2>2. CASE S = {}
    <3>1. Table!Fail
      BY <1>3, <2>2, LookupTells, IndexLandAnswers
    <3> QED BY <2>1, <2>2, <3>1 DEF Table!TellLast
  <2>3. CASE S # {}
    <3>1. PICK k \in LastSec(S) : Table!Tell(<<k, prim[k].sec>>)
      BY <1>3, <2>3, LookupTells, IndexLandAnswers
    <3>2. k \in S /\ \A j \in S : j = k \/ Table!SecBefore(j, k)
      BY <1>1 DEF LastSec
    <3> QED BY <1>1, <2>1, <3>1, <3>2 DEF Table!TellLast, Table!IsLast
  <2> QED BY <2>2, <2>3
<1> QED BY <1>2, <1>3

\* find and require_find.
LEMMA FindTells ==
  ASSUME IInv, NEW m \in Instances, NEW pk \in Keys
  PROVE  /\ find(m, pk) => Table!Find(pk)
         /\ require_find(m, pk) => Table!RequireFind(pk)
<1> DEFINE O == FindAt(items[m], pk)
           P == {o \in O : o.res # <<>>}
<1>1. Table!All = DOMAIN prim /\ \A k \in DOMAIN prim : Table!Row(k) = <<k, prim[k].sec>>
  BY Rows
<1>2. /\ pk \in DOMAIN prim => Answers(O, {pk})
      /\ pk \notin DOMAIN prim => Ends(O)
  BY CacheGood, FindAnswers
<1>3. /\ pk \in DOMAIN prim => Answers(P, {pk})
      /\ pk \notin DOMAIN prim => P = {}
  <2> HIDE DEF O
  <2>1. \A v : <<pk, v>> # <<>>
    OBVIOUS
  <2>2. pk \in DOMAIN prim => P = O
    BY <1>2, <2>1 DEF Answers
  <2>3. pk \notin DOMAIN prim => P = {}
    BY <1>2 DEF Ends
  <2> HIDE DEF P
  <2> QED BY <1>2, <2>2, <2>3
<1> HIDE DEF O, P
<1>4. ASSUME find(m, pk) PROVE Table!Find(pk)
  <2>1. Lookup(m, "find", <<pk>>, O)
    BY <1>4 DEF find, O
  <2>2. Table!Called("find", <<pk>>)
    BY <2>1, LookupTells
  <2>3. CASE pk \in DOMAIN prim
    <3>1. Table!Tell(<<pk, prim[pk].sec>>)
      BY <1>2, <2>1, <2>3, LookupTellsRow
    <3>2. pk \in Table!All \cap {pk} /\ \A j \in Table!All \cap {pk} : j = pk
      BY <1>1, <2>3
    <3> QED BY <1>1, <2>2, <2>3, <3>1, <3>2 DEF Table!Find, Table!TellFirst, Table!IsFirst
  <2>4. CASE pk \notin DOMAIN prim
    <3>1. Table!Tell(<<>>)
      BY <1>2, <2>1, <2>4, LookupTells
    <3>2. Table!All \cap {pk} = {}
      BY <1>1, <2>4
    <3> QED BY <2>2, <3>1, <3>2 DEF Table!Find, Table!TellFirst
  <2> QED BY <2>3, <2>4
<1>5. ASSUME require_find(m, pk) PROVE Table!RequireFind(pk)
  <2>1. Lookup(m, "require_find", <<pk>>, P)
    BY <1>5 DEF require_find, O, P
  <2>2. Table!Called("require_find", <<pk>>)
    BY <2>1, LookupTells
  <2>3. CASE pk \in DOMAIN prim
    <3>1. Table!Tell(<<pk, prim[pk].sec>>)
      BY <1>3, <2>1, <2>3, LookupTellsRow
    <3>2. pk \in Table!All \cap {pk} /\ \A j \in Table!All \cap {pk} : j = pk
      BY <1>1, <2>3
    <3> QED BY <1>1, <2>2, <2>3, <3>1, <3>2
            DEF Table!RequireFind, Table!TellLast, Table!IsLast
  <2>4. CASE pk \notin DOMAIN prim
    <3>1. Table!Fail
      BY <1>3, <2>1, <2>4, LookupTells
    <3>2. Table!All \cap {pk} = {}
      BY <1>1, <2>4
    <3> QED BY <2>2, <3>1, <3>2 DEF Table!RequireFind, Table!TellLast
  <2> QED BY <2>3, <2>4
<1> QED BY <1>4, <1>5

LEMMA BoundTells ==
  ASSUME IInv, NEW m \in Instances, NEW pk \in Keys
  PROVE  /\ lower_bound(m, pk) => Table!LowerBound(pk)
         /\ upper_bound(m, pk) => Table!UpperBound(pk)
<1> DEFINE L == {k \in DOMAIN prim : k >= pk}
           U == {k \in DOMAIN prim : k > pk}
<1>1. L \in SUBSET DOMAIN prim /\ U \in SUBSET DOMAIN prim /\ Good(items[m])
  BY CacheGood
<1>2. L = {k \in Table!All : k >= pk} /\ U = {k \in Table!All : k > pk}
  BY Rows
<1>3. /\ lower_bound(m, pk) => Lookup(m, "lower_bound", <<pk>>, LandFirst(items[m], L))
      /\ upper_bound(m, pk) => Lookup(m, "upper_bound", <<pk>>, LandFirst(items[m], U))
  BY DEF lower_bound, upper_bound
<1> HIDE DEF L, U
<1>4. ASSUME lower_bound(m, pk) PROVE Table!LowerBound(pk)
  <2>1. Table!Called("lower_bound", <<pk>>) /\ Table!TellFirst(L, Table!PkBefore)
    BY <1>1, <1>3, <1>4, LandTells
  <2> QED BY <1>2, <2>1 DEF Table!LowerBound
<1>5. ASSUME upper_bound(m, pk) PROVE Table!UpperBound(pk)
  <2>1. Table!Called("upper_bound", <<pk>>) /\ Table!TellFirst(U, Table!PkBefore)
    BY <1>1, <1>3, <1>5, LandTells
  <2> QED BY <1>2, <2>1 DEF Table!UpperBound
<1> QED BY <1>4, <1>5

\* A cached object stands for a row of the table.
LEMMA HeldRow ==
  ASSUME IInv, NEW m \in Instances, NEW i \in Held(m)
  PROVE  LET pk == items[m][i].pk
         IN  /\ i \in 1 .. Len(items[m])
             /\ pk \in Keys /\ pk \in DOMAIN prim /\ pk \in Table!All
             /\ RowLive(pk, items[m][i].pitr) /\ items[m][i].val = prim[pk].sec
<1>1. Good(items[m]) /\ i \in 1 .. Len(items[m])
  BY CacheGood DEF Held
<1>2. items[m][i].pk \in Keys /\ items[m][i].pk \in DOMAIN prim
  BY <1>1, HandleLive
<1> QED BY <1>1, <1>2, Rows DEF Good, Coherent

\* operator++ and operator-- in the primary order.
LEMMA WalkTells ==
  ASSUME IInv, NEW m \in Instances, NEW i \in Held(m)
  PROVE  LET pk == items[m][i].pk
         IN  /\ increment(m, i) => Table!Increment(pk)
             /\ decrement(m, i) => Table!Decrement(pk)
<1> DEFINE pk == items[m][i].pk
           A == {k \in DOMAIN prim : PkBefore(pk, k)}
           B == {k \in DOMAIN prim : PkBefore(k, pk)}
<1>1. A \in SUBSET DOMAIN prim /\ B \in SUBSET DOMAIN prim /\ Good(items[m])
  BY CacheGood
<1>2. /\ A = Table!Following(pk, Table!PkBefore)
      /\ B = Table!Preceding(pk, Table!PkBefore)
  BY Rows DEF PkBefore, Table!PkBefore, Table!Following, Table!Preceding
<1>3. After(items[m], i) = LandFirst(items[m], A) /\ Before(items[m], i) = LandLast(items[m], B)
  BY HeldRow DEF After, Before
<1> HIDE DEF A, B, pk
<1>4. ASSUME increment(m, i) PROVE Table!Increment(pk)
  <2>1. Lookup(m, "next", <<pk>>, LandFirst(items[m], A))
    BY <1>3, <1>4 DEF increment, pk
  <2>2. Table!Called("next", <<pk>>) /\ Table!TellFirst(A, Table!PkBefore)
    BY <1>1, <2>1, LandTells
  <2> QED BY <1>2, <2>2 DEF Table!Increment
<1>5. ASSUME decrement(m, i) PROVE Table!Decrement(pk)
  <2>1. Lookup(m, "prev", <<pk>>, LandLast(items[m], B))
    BY <1>3, <1>5 DEF decrement, pk
  <2>2. Table!Called("prev", <<pk>>) /\ Table!TellLast(B, Table!PkBefore)
    BY <1>1, <2>1, LandTells
  <2> QED BY <1>2, <2>2 DEF Table!Decrement
<1> QED BY <1>4, <1>5 DEF pk

\* The last rows, from the end iterators.
LEMMA FromEndTells ==
  ASSUME IInv, NEW m \in Instances
  PROVE  /\ decrement_end(m) => Table!DecrementEnd
         /\ idx_decrement_end(m) => Table!SecDecrementEnd
<1>1. Good(items[m]) /\ Table!All = DOMAIN prim /\ DOMAIN idx = DOMAIN prim
  BY CacheGood, Rows
<1>2. ASSUME decrement_end(m) PROVE Table!DecrementEnd
  <2>1. Table!Called("prev", <<>>) /\ Table!TellLast(DOMAIN prim, Table!PkBefore)
    BY <1>1, <1>2, LandTells DEF decrement_end
  <2> QED BY <1>1, <2>1 DEF Table!DecrementEnd
<1>3. ASSUME idx_decrement_end(m) PROVE Table!SecDecrementEnd
  <2>1. Table!Called("idx_prev", <<>>) /\ Table!TellLast(DOMAIN idx, Table!SecBefore)
    BY <1>1, <1>3, IndexLandTells DEF idx_decrement_end
  <2> QED BY <1>1, <2>1 DEF Table!SecDecrementEnd
<1> QED BY <1>2, <1>3

\* The rows of the abstract table with a secondary key, above it or from it on.
LEMMA SecRows ==
  ASSUME IInv, NEW v
  PROVE  /\ {k \in Table!All : [j \in DOMAIN prim |-> prim[j].sec][k] >= v} =
              {k \in DOMAIN idx : idx[k].sec >= v}
         /\ {k \in Table!All : [j \in DOMAIN prim |-> prim[j].sec][k] > v} =
              {k \in DOMAIN idx : idx[k].sec > v}
         /\ {k \in Table!All : [j \in DOMAIN prim |-> prim[j].sec][k] = v} =
              {k \in DOMAIN idx : idx[k].sec = v}
<1>1. /\ Table!All = DOMAIN prim /\ DOMAIN idx = DOMAIN prim
      /\ \A k \in DOMAIN prim : idx[k].sec = prim[k].sec
  BY Rows
<1> QED BY <1>1

LEMMA SecBoundTells ==
  ASSUME IInv, NEW m \in Instances, NEW v \in Secs
  PROVE  /\ idx_lower_bound(m, v) => Table!SecLowerBound(v)
         /\ idx_upper_bound(m, v) => Table!SecUpperBound(v)
<1> DEFINE L == {k \in DOMAIN idx : idx[k].sec >= v}
           U == {k \in DOMAIN idx : idx[k].sec > v}
<1>1. L \in SUBSET DOMAIN idx /\ U \in SUBSET DOMAIN idx /\ Good(items[m])
  BY CacheGood
<1>2. /\ L = {k \in Table!All : [j \in DOMAIN prim |-> prim[j].sec][k] >= v}
      /\ U = {k \in Table!All : [j \in DOMAIN prim |-> prim[j].sec][k] > v}
  BY SecRows
<1>3. /\ idx_lower_bound(m, v) => Lookup(m, "idx_lower_bound", <<v>>, IndexFirst(items[m], L))
      /\ idx_upper_bound(m, v) => Lookup(m, "idx_upper_bound", <<v>>, IndexFirst(items[m], U))
  BY DEF idx_lower_bound, idx_upper_bound
<1> HIDE DEF L, U
<1>4. ASSUME idx_lower_bound(m, v) PROVE Table!SecLowerBound(v)
  <2>1. Table!Called("idx_lower_bound", <<v>>) /\ Table!TellFirst(L, Table!SecBefore)
    BY <1>1, <1>3, <1>4, IndexLandTells
  <2> QED BY <1>2, <2>1 DEF Table!SecLowerBound
<1>5. ASSUME idx_upper_bound(m, v) PROVE Table!SecUpperBound(v)
  <2>1. Table!Called("idx_upper_bound", <<v>>) /\ Table!TellFirst(U, Table!SecBefore)
    BY <1>1, <1>3, <1>5, IndexLandTells
  <2> QED BY <1>2, <2>1 DEF Table!SecUpperBound
<1> QED BY <1>4, <1>5

\* index::find: the lower bound, if its key is the one looked for.
LEMMA SecFindAnswers ==
  ASSUME IInv, NEW s, Good(s), NEW v \in Secs
  PROVE  LET E == {k \in DOMAIN idx : idx[k].sec = v}
         IN  /\ E # {} => Answers(IndexFind(s, v), FirstSec(E))
             /\ E = {} => Ends(IndexFind(s, v))
<1> DEFINE E == {k \in DOMAIN idx : idx[k].sec = v}
           L == {k \in DOMAIN idx : idx[k].sec >= v}
           F == IndexFirst(s, L)
           G(o) == IF o.res = <<>> \/ o.res[2] = v THEN o ELSE AtEnd(o.cache)
<1>1. \A k \in DOMAIN idx : idx[k].sec \in Nat /\ k \in Nat
  <2>1. ASSUME NEW k \in DOMAIN idx PROVE idx[k].sec \in Secs /\ k \in Keys
    <3>1. idx[k] \in Entry /\ k \in Keys
      BY DEF IInv, TypeOK
    <3> QED BY <3>1 DEF Entry
  <2>2. (\A x \in Secs : x \in Nat) /\ (\A x \in Keys : x \in Nat)
    BY MultiIndexAssumption
  <2> QED BY <2>1, <2>2
<1>2. v \in Nat /\ E \subseteq L
  <2>1. v \in Nat
    BY MultiIndexAssumption
  <2> QED BY <1>1, <2>1
<1>3. IndexFind(s, v) = {G(o) : o \in F}
  BY DEF IndexFind
<1>4. L \in SUBSET DOMAIN idx
  OBVIOUS
<1>5. \A k \in DOMAIN idx : idx[k].sec = prim[k].sec
  BY Rows
<1>6. CASE L = {}
  <2>1. Ends(F)
    BY <1>4, <1>6, IndexLandAnswers
  <2>2. \A o \in F : G(o) = o
    BY <2>1 DEF Ends
  <2>3. IndexFind(s, v) = F
    <3> HIDE DEF G, F
    <3> QED BY <1>3, <2>2
  <2>4. E = {}
    BY <1>2, <1>6
  <2> QED BY <2>1, <2>3, <2>4
<1>7. CASE L # {}
  <2>1. Answers(F, FirstSec(L))
    BY <1>4, <1>7, IndexLandAnswers
  <2>2. CASE E # {}
    <3>1. ASSUME NEW k \in FirstSec(L) PROVE k \in FirstSec(E) /\ prim[k].sec = v
      <4>1. k \in DOMAIN idx /\ idx[k].sec >= v /\ \A j \in L : j = k \/ SecBefore(k, j)
        BY DEF FirstSec
      <4>2. idx[k].sec = v
        <5>1. PICK j \in DOMAIN idx : idx[j].sec = v
          BY <2>2
        <5>2. j = k \/ SecBefore(k, j)
          BY <1>2, <4>1, <5>1
        <5> QED BY <1>1, <1>2, <4>1, <5>1, <5>2 DEF SecBefore
      <4> QED BY <1>2, <1>5, <4>1, <4>2 DEF FirstSec
    <3>2. \A o \in F : G(o) = o
      <4>1. ASSUME NEW o \in F PROVE o.res[2] = v
        <5>1. PICK k \in FirstSec(L) : o.res = <<k, prim[k].sec>>
          BY <2>1 DEF Answers
        <5>2. o.res[2] = prim[k].sec
          BY <5>1
        <5> QED BY <3>1, <5>2
      <4> QED BY <4>1
    <3>3. IndexFind(s, v) = F
      <4> HIDE DEF G, F
      <4> QED BY <1>3, <3>2
    <3>4. Answers(F, FirstSec(E))
      <4> HIDE DEF F, E, L
      <4> QED BY <2>1, <3>1 DEF Answers
    <3> QED BY <2>2, <3>3, <3>4
  <2>3. CASE E = {}
    <3>1. ASSUME NEW o \in F PROVE G(o).res = <<>>
      <4>1. PICK k \in FirstSec(L) : o.res = <<k, prim[k].sec>>
        BY <2>1 DEF Answers
      <4>2. k \in DOMAIN idx /\ prim[k].sec # v
        BY <1>5, <2>3 DEF FirstSec
      <4>3. o.res[2] # v /\ o.res # <<>>
        BY <4>1, <4>2
      <4>4. G(o) = AtEnd(o.cache)
        BY <4>3
      <4> QED BY <4>4 DEF AtEnd
    <3>2. F # {}
      BY <2>1 DEF Answers
    <3>3. Ends(IndexFind(s, v))
      <4> HIDE DEF G, F
      <4> QED BY <1>3, <3>1, <3>2 DEF Ends
    <3> QED BY <2>3, <3>3
  <2> QED BY <2>2, <2>3
<1> QED BY <1>6, <1>7

LEMMA SecFindTells ==
  ASSUME IInv, NEW m \in Instances, NEW v \in Secs
  PROVE  /\ idx_find(m, v) => Table!SecFind(v)
         /\ idx_require_find(m, v) => Table!SecRequireFind(v)
<1> DEFINE E == {k \in DOMAIN idx : idx[k].sec = v}
           T == {k \in Table!All : [j \in DOMAIN prim |-> prim[j].sec][k] = v}
           O == IndexFind(items[m], v)
           P == {o \in O : o.res # <<>>}
<1>1. E = T /\ E \subseteq DOMAIN prim
  <2>1. DOMAIN idx = DOMAIN prim
    BY Rows
  <2> QED BY <2>1, SecRows
<1>2. /\ E # {} => Answers(O, FirstSec(E))
      /\ E = {} => Ends(O)
  BY CacheGood, SecFindAnswers
<1>3. /\ idx_find(m, v) => Lookup(m, "idx_find", <<v>>, O)
      /\ idx_require_find(m, v) => Lookup(m, "idx_require_find", <<v>>, P)
  BY DEF idx_find, idx_require_find
<1>4. /\ Table!SecFind(v) <=>
           Table!Called("idx_find", <<v>>) /\ Table!TellFirst(T, Table!SecBefore)
      /\ Table!SecRequireFind(v) <=>
           /\ Table!Called("idx_require_find", <<v>>)
           /\ \/ T = {} /\ Table!Fail
              \/ \E k \in T : Table!IsFirst(k, T, Table!SecBefore) /\ Table!Tell(Table!Row(k))
  BY DEF Table!SecFind, Table!SecRequireFind
<1> HIDE DEF O
<1>5. (E # {} => P = O) /\ (E = {} => P = {})
  <2> HIDE DEF E
  <2>1. \A k, x : <<k, x>> # <<>>
    OBVIOUS
  <2>2. E # {} => \A o \in O : o.res # <<>>
    BY <1>2, <2>1 DEF Answers
  <2> QED BY <1>2, <2>2 DEF Ends
<1> HIDE DEF E, P, T
<1>6. ASSUME E # {}, NEW op, Lookup(m, op, <<v>>, O)
      PROVE  /\ Table!Called(op, <<v>>)
             /\ \E k \in T : Table!IsFirst(k, T, Table!SecBefore) /\ Table!Tell(Table!Row(k))
  <2>1. Answers(O, FirstSec(E))
    BY <1>2, <1>6
  <2>2. PICK k \in FirstSec(E) : Table!Tell(<<k, prim[k].sec>>)
    BY <1>6, <2>1, LookupTells
  <2>3. k \in E /\ \A j \in E : j = k \/ SecBefore(k, j)
    BY DEF FirstSec
  <2>4. k \in T /\ \A j \in T : j = k \/ Table!SecBefore(k, j)
    BY <1>1, <2>3, Rows
  <2>5. Table!Row(k) = <<k, prim[k].sec>>
    BY <1>1, <2>3, Rows
  <2>6. Table!Called(op, <<v>>)
    BY <1>6, LookupTells
  <2> QED BY <2>2, <2>4, <2>5, <2>6 DEF Table!IsFirst
<1>7. ASSUME idx_find(m, v) PROVE Table!SecFind(v)
  <2>1. CASE E # {}
    BY <1>3, <1>4, <1>6, <1>7, <2>1 DEF Table!TellFirst
  <2>2. CASE E = {}
    <3>1. Table!Called("idx_find", <<v>>) /\ Table!Tell(<<>>)
      BY <1>2, <1>3, <1>7, <2>2, LookupTells
    <3> QED BY <1>1, <1>4, <2>2, <3>1 DEF Table!TellFirst
  <2> QED BY <2>1, <2>2
<1>8. ASSUME idx_require_find(m, v) PROVE Table!SecRequireFind(v)
  <2>1. CASE E # {}
    BY <1>3, <1>4, <1>5, <1>6, <1>8, <2>1
  <2>2. CASE E = {}
    <3>1. Table!Called("idx_require_find", <<v>>) /\ Table!Fail
      BY <1>3, <1>5, <1>8, <2>2, LookupTells
    <3> QED BY <1>1, <1>4, <2>2, <3>1
  <2> QED BY <2>1, <2>2
<1> QED BY <1>7, <1>8

\* iterator_to of the index.
LEMMA SecIteratorTells ==
  ASSUME IInv, NEW m \in Instances, NEW i \in Held(m), idx_iterator_to(m, i)
  PROVE  Table!SecIteratorTo(items[m][i].pk)
<1> DEFINE s == items[m]
           pk == s[i].pk
           t == [s EXCEPT ![i].iter = EntryHandle(s[i])]
<1>1. /\ i \in 1 .. Len(s) /\ pk \in DOMAIN prim /\ s[i].val = prim[pk].sec
      /\ Good(s) /\ s \in Seq(Item)
  BY HeldRow, CacheGood DEF Good
<1>2. t[i].pk = pk /\ t[i].val = prim[pk].sec
  <2>1. i \in DOMAIN s /\ s[i] \in Item
    BY <1>1
  <2>2. t[i] = [s[i] EXCEPT !.iter = EntryHandle(s[i])]
    BY <2>1
  <2>3. t[i].pk = s[i].pk /\ t[i].val = s[i].val
    BY <2>1, <2>2 DEF Item
  <2> QED BY <1>1, <2>3
<1>3. Lookup(m, "idx_iterator_to", <<pk>>, {Cursor(t, i)})
  BY DEF idx_iterator_to
<1> HIDE DEF t
<1>4. Answers({Cursor(t, i)}, {pk})
  BY <1>2 DEF Answers, Cursor
<1> HIDE DEF pk
<1>5. Table!Called("idx_iterator_to", <<pk>>) /\ Table!Tell(<<pk, prim[pk].sec>>)
  BY <1>3, <1>4, LookupTellsRow
<1>6. Table!Row(pk) = <<pk, prim[pk].sec>>
  BY <1>1, Rows
<1> QED BY <1>5, <1>6 DEF Table!SecIteratorTo, pk

\* The steps of the index iterators, as steps in the order of the rows.
LEMMA SecWalk ==
  ASSUME IInv, NEW m \in Instances, NEW i \in Held(m)
  PROVE  LET pk == items[m][i].pk
             A == Table!Following(pk, Table!SecBefore)
             B == Table!Preceding(pk, Table!SecBefore)
         IN  /\ A \in SUBSET DOMAIN idx /\ B \in SUBSET DOMAIN idx
             /\ \E t : /\ Good(t)
                       /\ IndexAfter(items[m], i) = IndexFirst(t, A)
                       /\ IndexBefore(items[m], i) = IndexLast(t, B)
<1> DEFINE s == items[m]
           pk == s[i].pk
           A == {k \in DOMAIN idx : SecBefore(pk, k)}
           B == {k \in DOMAIN idx : SecBefore(k, pk)}
           h == EntryHandle(s[i])
           t == [s EXCEPT ![i].iter = h]
<1>1. Good(s) /\ i \in 1 .. Len(s) /\ pk \in DOMAIN prim
  BY HeldRow, CacheGood
<1>2. h \in Nat /\ EntryLive(pk, h) /\ h # EndItr
  BY <1>1, HandleLive DEF EndItr
<1>3. Good(t)
  BY <1>1, <1>2, RememberHandle
<1>4. IndexAfter(s, i) = IndexFirst(t, A) /\ IndexBefore(s, i) = IndexLast(t, B)
  BY <1>2 DEF IndexAfter, IndexBefore
<1>5. /\ A = Table!Following(pk, Table!SecBefore)
      /\ B = Table!Preceding(pk, Table!SecBefore)
  <2>1. /\ Table!All = DOMAIN prim /\ DOMAIN idx = DOMAIN prim
        /\ \A a, b \in DOMAIN prim : Table!SecBefore(a, b) <=> SecBefore(a, b)
    BY Rows
  <2> QED BY <1>1, <2>1 DEF Table!Following, Table!Preceding
<1>6. A \in SUBSET DOMAIN idx /\ B \in SUBSET DOMAIN idx
  OBVIOUS
<1> HIDE DEF t, A, B
<1> QED BY <1>3, <1>4, <1>5, <1>6

LEMMA SecWalkTells ==
  ASSUME IInv, NEW m \in Instances, NEW i \in Held(m)
  PROVE  LET pk == items[m][i].pk
         IN  /\ idx_increment(m, i) => Table!SecIncrement(pk)
             /\ idx_decrement(m, i) => Table!SecDecrement(pk)
<1> DEFINE pk == items[m][i].pk
           A == Table!Following(pk, Table!SecBefore)
           B == Table!Preceding(pk, Table!SecBefore)
<1>1. PICK t : /\ Good(t)
               /\ IndexAfter(items[m], i) = IndexFirst(t, A)
               /\ IndexBefore(items[m], i) = IndexLast(t, B)
  BY SecWalk
<1>2. A \in SUBSET DOMAIN idx /\ B \in SUBSET DOMAIN idx
  BY SecWalk
<1>3. /\ Table!SecIncrement(pk) <=>
           Table!Called("idx_next", <<pk>>) /\ Table!TellFirst(A, Table!SecBefore)
      /\ Table!SecDecrement(pk) <=>
           Table!Called("idx_prev", <<pk>>) /\ Table!TellLast(B, Table!SecBefore)
  BY DEF Table!SecIncrement, Table!SecDecrement
<1>4. /\ idx_increment(m, i) => Lookup(m, "idx_next", <<pk>>, IndexFirst(t, A))
      /\ idx_decrement(m, i) => Lookup(m, "idx_prev", <<pk>>, IndexLast(t, B))
  BY <1>1 DEF idx_increment, idx_decrement
<1> HIDE DEF A, B, pk
<1>5. /\ idx_increment(m, i) => Table!SecIncrement(pk)
      /\ idx_decrement(m, i) => Table!SecDecrement(pk)
  BY <1>1, <1>2, <1>3, <1>4, IndexLandTells
<1> QED BY <1>5 DEF pk

\* available_primary_key: the invariant after the call says that the key it
\* hands out is above every row.
LEMMA AvailableTells ==
  ASSUME IInv, IInv', NEW m \in Instances, available_primary_key(m)
  PROVE  Table!AvailablePrimaryKey
<1>1. PICK o \in NextKeys(m) :
        \/ /\ o.key < no_available_primary_key
           /\ next_pk' = [next_pk EXCEPT ![m] = o.key]
           /\ Reply("available_primary_key", <<>>, <<o.key>>)
           /\ UNCHANGED <<prim, idx, gen>>
        \/ Abort("available_primary_key", <<>>)
  BY DEF available_primary_key
<1>2. CASE Abort("available_primary_key", <<>>)
  BY <1>2, AbortFails DEF Table!AvailablePrimaryKey
<1>3. CASE /\ o.key < no_available_primary_key
           /\ next_pk' = [next_pk EXCEPT ![m] = o.key]
           /\ Reply("available_primary_key", <<>>, <<o.key>>)
           /\ UNCHANGED <<prim, idx, gen>>
  <2>1. next_pk'[m] = o.key /\ next_pk'[m] \in 0 .. MaxU
    BY <1>3 DEF IInv, TypeOK
  <2>2. o.key \in 0 .. MaxU - 2
    BY <1>3, <2>1, MultiIndexAssumption DEF no_available_primary_key
  <2>3. \A j \in DOMAIN prim : j < o.key
    BY <1>3, <2>1 DEF IInv, NextKeyAboveRows, no_available_primary_key
  <2>4. Table!Called("available_primary_key", <<>>) /\ Table!Tell(<<o.key>>)
    BY <1>3 DEF Reply, Table!Called, Table!Tell, Table!Answer
  <2>5. Table!All = DOMAIN prim
    BY Rows
  <2> QED BY <2>2, <2>3, <2>4, <2>5 DEF Table!AvailablePrimaryKey
<1> QED BY <1>1, <1>2, <1>3

LEMMA EmplaceTells ==
  ASSUME IInv, NEW m \in Instances, NEW pk \in Keys, NEW v \in Secs,
         NEW payer \in Payers, emplace(m, pk, v, payer)
  PROVE  Table!Emplace(pk, v)
<1>1. Table!All = DOMAIN prim
  BY Rows
<1>2. CASE (~own \/ pk \in DOMAIN prim) /\ Abort("emplace", <<pk, v>>)
  BY <1>1, <1>2, AbortFails DEF Table!Emplace
<1>3. CASE /\ own /\ pk \notin DOMAIN prim
           /\ prim' = Put(prim, pk, [sec |-> v, payer |-> payer])
           /\ Reply("emplace", <<pk, v>>, <<pk, v>>)
  <2> DEFINE R == [k \in DOMAIN prim |-> prim[k].sec]
  <2>1. /\ DOMAIN prim' = DOMAIN prim \cup {pk}
        /\ \A k \in DOMAIN prim' : prim'[k].sec = IF k = pk THEN v ELSE prim[k].sec
    BY <1>3 DEF Put
  <2>2. R' = [k \in DOMAIN prim \cup {pk} |-> IF k = pk THEN v ELSE R[k]]
    BY <2>1
  <2>3. Table!Called("emplace", <<pk, v>>) /\ Table!Answer(<<pk, v>>)
    BY <1>3 DEF Reply, Table!Called, Table!Answer
  <2> QED BY <1>1, <1>3, <2>2, <2>3 DEF Table!Emplace
<1> QED BY <1>2, <1>3 DEF emplace

\* modify: the row and its entry are there, so only a foreign table refuses.
LEMMA ModifyTells ==
  ASSUME IInv, NEW m \in Instances, NEW i \in Held(m), NEW v \in Secs,
         NEW payer \in Payers \cup {SamePayer}, modify(m, i, v, payer)
  PROVE  Table!Modify(items[m][i].pk, v)
<1> DEFINE it == items[m][i]
           pk == it.pk
           ok == /\ own /\ RowLive(pk, it.pitr)
                 /\ KeyChanged(it, v) => EntryLive(pk, WriteHandle(it))
<1>1. /\ RowLive(pk, it.pitr) /\ EntryLive(pk, WriteHandle(it))
      /\ pk \in DOMAIN prim
  BY HeldRow, CacheGood, HandleLive
<1>2. ok <=> own
  BY <1>1
<1>3. CASE ~ok /\ Abort("modify", <<pk, v>>)
  <2>1. ~own
    BY <1>2, <1>3
  <2> QED BY <1>3, <2>1, AbortFails DEF Table!Modify
<1>4. CASE /\ ok
           /\ prim' = [prim EXCEPT ![pk] = [sec |-> v, payer |-> Billed(payer, @.payer)]]
           /\ Reply("modify", <<pk, v>>, <<pk, v>>)
  <2> HIDE DEF it, pk
  <2> DEFINE R == [k \in DOMAIN prim |-> prim[k].sec]
  <2>1. /\ DOMAIN prim' = DOMAIN prim
        /\ \A k \in DOMAIN prim : prim'[k].sec = IF k = pk THEN v ELSE prim[k].sec
    BY <1>1, <1>4
  <2>2. R' = [R EXCEPT ![pk] = v]
    BY <1>1, <2>1
  <2>3. Table!Called("modify", <<pk, v>>) /\ Table!Answer(<<pk, v>>)
    BY <1>4 DEF Reply, Table!Called, Table!Answer
  <2>4. own
    BY <1>2, <1>4
  <2>5. Table!Modify(pk, v)
    BY <2>2, <2>3, <2>4 DEF Table!Modify
  <2> QED BY <2>5 DEF pk, it
<1> QED BY <1>3, <1>4 DEF modify

\* The removal of a row, in whichever cache the lookup before it left behind:
\* only a foreign table refuses.
LEMMA EraseItemTells ==
  ASSUME IInv, NEW m \in Instances, NEW s, Good(s), NEW i \in 1 .. Len(s),
         NEW op, NEW r, EraseItem(m, s, i, op, r)
  PROVE  LET pk == s[i].pk
         IN  /\ Table!Called(op, <<pk>>)
             /\ \/ /\ own /\ Table!Answer(r)
                   /\ [k \in DOMAIN prim |-> prim[k].sec]' = Table!Without(pk)
                \/ ~own /\ Table!Fail
<1> DEFINE pk == s[i].pk
           h == WriteHandle(s[i])
           ok == own /\ RowLive(pk, s[i].pitr) /\ (h >= 0 => EntryLive(pk, h))
<1>1. ok <=> own
  <2>1. RowLive(pk, s[i].pitr) /\ EntryLive(pk, h)
    BY HandleLive DEF Good, Coherent
  <2> QED BY <2>1
<1>2. CASE ~ok /\ Abort(op, <<pk>>)
  <2>1. ~own
    BY <1>1, <1>2
  <2> QED BY <1>2, <2>1, AbortFails
<1>3. CASE ok /\ prim' = Remove(prim, pk) /\ Reply(op, <<pk>>, r)
  <2> HIDE DEF pk
  <2>1. [k \in DOMAIN prim |-> prim[k].sec]' = Table!Without(pk)
    <3>1. DOMAIN prim' = DOMAIN prim \ {pk} /\ \A k \in DOMAIN prim' : prim'[k] = prim[k]
      BY <1>3 DEF Remove
    <3>2. Table!Without(pk) = [k \in DOMAIN prim \ {pk} |-> prim[k].sec]
      BY DEF Table!Without, Table!All
    <3> QED BY <3>1, <3>2
  <2>2. Table!Called(op, <<pk>>) /\ Table!Answer(r)
    BY <1>3 DEF Reply, Table!Called, Table!Answer
  <2>3. own
    BY <1>1, <1>3
  <2> QED BY <2>1, <2>2, <2>3 DEF pk
<1> QED BY <1>2, <1>3 DEF EraseItem

\* The objects that a lookup finds in the cache stay where they are.
KeepsKeys(s, O) == \A o \in O : \A j \in 1 .. Len(s) : o.cache[j].pk = s[j].pk

LEMMA LoadKeeps ==
  ASSUME NEW s \in Seq(Item), NEW k
  PROVE  /\ \A j \in 1 .. Len(s) : Loaded(s, k)[j] = s[j] /\ FoundIn(s, k)[j] = s[j]
         /\ KeepsKeys(s, LoadAt(s, k))
<1>1. \A j \in 1 .. Len(s) : Loaded(s, k)[j] = s[j]
  <2>1. \A x : \A j \in 1 .. Len(s) : Append(s, x)[j] = s[j]
    OBVIOUS
  <2> QED BY <2>1 DEF Loaded
<1>2. \A o \in LoadAt(s, k) : o.cache = Loaded(s, k)
  BY DEF LoadAt, Cursor
<1> QED BY <1>1, <1>2 DEF FoundIn, KeepsKeys

LEMMA IndexAtKeeps ==
  ASSUME IInv, NEW s, Good(s), NEW k \in DOMAIN idx
  PROVE  KeepsKeys(s, IndexAt(s, k))
<1> DEFINE t == FoundIn(s, k)
<1>1. s \in Seq(Item) /\ \A j \in 1 .. Len(s) : t[j] = s[j]
  BY LoadKeeps DEF Good
<1>2. t \in Seq(Item) /\ Len(s) <= Len(t) /\ Len(s) \in Nat /\ Len(t) \in Nat
  <2>1. k \in DOMAIN prim
    BY DEF IInv, IndexCoversRows
  <2> QED BY <1>1, <2>1, FoundInGood DEF Good
<1>3. ASSUME NEW o \in IndexAt(s, k), NEW j \in 1 .. Len(s)
      PROVE  o.cache[j].pk = s[j].pk
  <2>1. PICK x \in LastWith(t, k) : o = Cursor([t EXCEPT ![x].iter = gen[k]], x)
    BY DEF IndexAt
  <2>2. o.cache = [t EXCEPT ![x].iter = gen[k]]
    BY <2>1 DEF Cursor
  <2> HIDE DEF t
  <2>3. j \in DOMAIN t /\ t[j] \in Item
    BY <1>2
  <2>4. o.cache[j].pk = t[j].pk
    BY <2>2, <2>3 DEF Item
  <2> QED BY <1>1, <2>4
<1> QED BY <1>3 DEF KeepsKeys

LEMMA StepKeeps ==
  ASSUME IInv, NEW s, Good(s), NEW i \in 1 .. Len(s)
  PROVE  KeepsKeys(s, After(s, i)) /\ KeepsKeys(s, IndexAfter(s, i))
<1>1. s \in Seq(Item)
  BY DEF Good
<1>2. KeepsKeys(s, After(s, i))
  <2>1. \A k : KeepsKeys(s, LoadAt(s, k))
    BY <1>1, LoadKeeps
  <2>2. KeepsKeys(s, {}) /\ KeepsKeys(s, {AtEnd(s)})
    BY DEF KeepsKeys, AtEnd
  <2>3. \A S : KeepsKeys(s, LandFirst(s, S))
    <3>1. ASSUME NEW S PROVE KeepsKeys(s, LandFirst(s, S))
      <4>1. CASE S = {}
        BY <2>2, <4>1 DEF LandFirst
      <4>2. CASE S # {}
        BY <2>1, <4>2 DEF LandFirst, KeepsKeys
      <4> QED BY <4>1, <4>2
    <3> QED BY <3>1
  <2> QED BY <2>2, <2>3 DEF After
<1>3. KeepsKeys(s, IndexAfter(s, i))
  <2> DEFINE h == EntryHandle(s[i])
             t == [s EXCEPT ![i].iter = h]
             A == {k \in DOMAIN idx : SecBefore(s[i].pk, k)}
  <2>1. h \in Nat /\ EntryLive(s[i].pk, h) /\ h # EndItr
    BY HandleLive DEF EndItr
  <2>2. Good(t) /\ Len(t) = Len(s)
    BY <2>1, RememberHandle
  <2>3. \A j \in 1 .. Len(s) : t[j].pk = s[j].pk
    <3> HIDE DEF h
    <3>1. \A j \in 1 .. Len(s) : j \in DOMAIN s /\ s[j] \in Item
      BY <1>1
    <3> QED BY <3>1 DEF Item
  <2>4. IndexAfter(s, i) = IndexFirst(t, A)
    BY <2>1 DEF IndexAfter
  <2> HIDE DEF t, A
  <2>5. A \subseteq DOMAIN idx
    BY DEF A
  <2>6. \A k \in DOMAIN idx : KeepsKeys(t, IndexAt(t, k))
    BY <2>2, IndexAtKeeps
  <2>7. KeepsKeys(t, IndexFirst(t, A))
    <3>1. CASE A = {}
      BY <3>1 DEF IndexFirst, KeepsKeys, AtEnd
    <3>2. CASE A # {}
      BY <2>5, <2>6, <3>2 DEF IndexFirst, KeepsKeys
    <3> QED BY <3>1, <3>2
  <2> QED BY <2>2, <2>3, <2>4, <2>7 DEF KeepsKeys
<1> QED BY <1>2, <1>3

LEMMA EraseObjectTells ==
  ASSUME IInv, NEW m \in Instances, NEW i \in Held(m), erase_object(m, i)
  PROVE  Table!EraseObject(items[m][i].pk)
<1>1. Good(items[m]) /\ i \in 1 .. Len(items[m])
  BY CacheGood DEF Held
<1>2. EraseItem(m, items[m], i, "erase_object", <<>>)
  BY DEF erase_object
<1> QED BY <1>1, <1>2, EraseItemTells DEF Table!EraseObject

\* What remains to be shown of an erase through an iterator: the removal comes
\* after a step that leaves the object where it was.
LEMMA EraseAfterTells ==
  ASSUME IInv, NEW m \in Instances, NEW i \in Held(m), NEW op, NEW O,
         GoodOutcomes(items[m], O), KeepsKeys(items[m], O),
         NEW o \in O, EraseItem(m, o.cache, i, op, o.res)
  PROVE  LET pk == items[m][i].pk
         IN  /\ Table!Called(op, <<pk>>)
             /\ \/ /\ own /\ Table!Answer(o.res)
                   /\ [k \in DOMAIN prim |-> prim[k].sec]' = Table!Without(pk)
                \/ ~own /\ Table!Fail
<1>1. Good(items[m]) /\ Good(o.cache) /\ Len(items[m]) <= Len(o.cache) /\ i \in 1 .. Len(items[m])
  BY CacheGood DEF GoodOutcomes, Held
<1>2. i \in 1 .. Len(o.cache)
  <2>1. Len(items[m]) \in Nat /\ Len(o.cache) \in Nat
    BY <1>1 DEF Good
  <2> QED BY <1>1, <2>1
<1>3. o.cache[i].pk = items[m][i].pk
  BY <1>1 DEF KeepsKeys
<1> QED BY <1>1, <1>2, <1>3, EraseItemTells

LEMMA EraseTells ==
  ASSUME IInv, NEW m \in Instances, NEW i \in Held(m), erase(m, i)
  PROVE  Table!Erase(items[m][i].pk)
<1> DEFINE s == items[m]
           pk == s[i].pk
           A == {k \in DOMAIN prim : PkBefore(pk, k)}
           O == After(s, i)
<1>1. Good(s) /\ i \in 1 .. Len(s) /\ A \in SUBSET DOMAIN prim
  BY CacheGood DEF Held
<1>2. O = LandFirst(s, A)
  BY HeldRow DEF After
<1>3. A = Table!Following(pk, Table!PkBefore)
  BY Rows DEF PkBefore, Table!PkBefore, Table!Following
<1>4. GoodOutcomes(s, O) /\ KeepsKeys(s, O)
  BY <1>1, WalkGood, StepKeeps
<1>5. (A # {} => Answers(O, FirstPk(A))) /\ (A = {} => Ends(O))
  <2> HIDE DEF A, O
  <2> QED BY <1>1, <1>2, LandAnswers
<1>6. PICK o \in O : EraseItem(m, o.cache, i, "erase", o.res)
  BY <1>5 DEF erase, Answers, Ends
<1>7. /\ Table!Called("erase", <<pk>>)
      /\ \/ /\ own /\ Table!Answer(o.res)
            /\ [k \in DOMAIN prim |-> prim[k].sec]' = Table!Without(pk)
         \/ ~own /\ Table!Fail
  BY <1>4, <1>6, EraseAfterTells
<1> HIDE DEF A, O, pk
<1>8. CASE ~own /\ Table!Fail
  BY <1>7, <1>8 DEF Table!Erase, Table!EraseIn, pk
<1>9. CASE /\ own /\ Table!Answer(o.res)
           /\ [k \in DOMAIN prim |-> prim[k].sec]' = Table!Without(pk)
  <2>1. CASE A = {}
    <3>1. o.res = <<>>
      BY <1>5, <2>1 DEF Ends
    <3>2. Table!EraseIn(pk, Table!PkBefore)
      BY <1>3, <1>9, <2>1, <3>1 DEF Table!EraseIn
    <3> QED BY <1>7, <3>2 DEF Table!Erase, pk
  <2>2. CASE A # {}
    <3>1. PICK k \in FirstPk(A) : o.res = <<k, prim[k].sec>>
      BY <1>5, <2>2 DEF Answers
    <3>2. k \in A /\ \A j \in A : j = k \/ k < j
      BY DEF FirstPk
    <3>3. Table!Row(k) = o.res
      BY <1>1, <3>1, <3>2, Rows
    <3>4. Table!EraseIn(pk, Table!PkBefore)
      BY <1>3, <1>9, <3>2, <3>3 DEF Table!EraseIn, Table!IsFirst, Table!PkBefore
    <3> QED BY <1>7, <3>4 DEF Table!Erase, pk
  <2> QED BY <2>1, <2>2
<1> QED BY <1>7, <1>8, <1>9

LEMMA EraseSecTells ==
  ASSUME IInv, NEW m \in Instances, NEW i \in Held(m), idx_erase(m, i)
  PROVE  Table!EraseSec(items[m][i].pk)
<1> DEFINE s == items[m]
           pk == s[i].pk
           A == Table!Following(pk, Table!SecBefore)
           O == IndexAfter(s, i)
<1>1. Good(s) /\ i \in 1 .. Len(s)
  BY CacheGood DEF Held
<1>2. PICK t : Good(t) /\ O = IndexFirst(t, A)
  BY SecWalk
<1>3. A \in SUBSET DOMAIN idx
  BY SecWalk
<1>4. GoodOutcomes(s, O) /\ KeepsKeys(s, O)
  BY <1>1, IndexWalkGood, StepKeeps
<1>5. (A # {} => Answers(O, FirstSec(A))) /\ (A = {} => Ends(O))
  <2> HIDE DEF A, O
  <2> QED BY <1>2, <1>3, IndexLandAnswers
<1>6. PICK o \in O : EraseItem(m, o.cache, i, "idx_erase", o.res)
  <2>1. O # {}
    <3> HIDE DEF A, O
    <3> QED BY <1>5 DEF Answers, Ends
  <2> QED BY <2>1 DEF idx_erase
<1>7. /\ Table!Called("idx_erase", <<pk>>)
      /\ \/ /\ own /\ Table!Answer(o.res)
            /\ [k \in DOMAIN prim |-> prim[k].sec]' = Table!Without(pk)
         \/ ~own /\ Table!Fail
  BY <1>4, <1>6, EraseAfterTells
<1>8. Table!EraseSec(pk) <=>
        Table!Called("idx_erase", <<pk>>) /\ Table!EraseIn(pk, Table!SecBefore)
  BY DEF Table!EraseSec
<1>9. Table!EraseIn(pk, Table!SecBefore) <=>
        \/ /\ own /\ [k \in DOMAIN prim |-> prim[k].sec]' = Table!Without(pk)
           /\ \/ A = {} /\ Table!Answer(<<>>)
              \/ \E k \in A : Table!IsFirst(k, A, Table!SecBefore) /\ Table!Answer(Table!Row(k))
        \/ ~own /\ Table!Fail
  BY DEF Table!EraseIn
<1> HIDE DEF A, O
<1>10. CASE A = {}
  <2>1. o.res = <<>>
    BY <1>5, <1>10 DEF Ends
  <2> QED BY <1>7, <1>8, <1>9, <1>10, <2>1
<1>11. CASE A # {}
  <2>1. PICK k \in FirstSec(A) : o.res = <<k, prim[k].sec>>
    BY <1>5, <1>11 DEF Answers
  <2>2. k \in A /\ \A j \in A : j = k \/ SecBefore(k, j)
    BY DEF FirstSec
  <2>3. Table!Row(k) = o.res /\ \A j \in A : j = k \/ Table!SecBefore(k, j)
    BY <1>3, <2>1, <2>2, Rows
  <2>4. Table!IsFirst(k, A, Table!SecBefore)
    BY <2>2, <2>3 DEF Table!IsFirst
  <2> QED BY <1>7, <1>8, <1>9, <2>2, <2>3, <2>4
<1> QED BY <1>10, <1>11

-----------------------------------------------------------------------------
(* The refinement.                                                         *)

LEMMA InitTells == Init => Table!Init
<1> SUFFICES ASSUME Init PROVE Table!Init
  OBVIOUS
<1> DEFINE R == [k \in DOMAIN prim |-> prim[k].sec]
<1>1. PICK D \in SUBSET Keys : prim \in [D -> Entry]
  BY DEF Init
<1>2. R \in [D -> Secs]
  <2>1. \A k \in D : prim[k].sec \in Secs
    BY <1>1 DEF Entry
  <2> QED BY <1>1, <2>1
<1>3. R \in UNION {[E -> Secs] : E \in SUBSET Keys}
  BY <1>2
<1> QED BY <1>3 DEF Init, Table!Init

\* Every call on the one instance is one of the calls of the abstract table.
LEMMA CallTells ==
  ASSUME OneInstance, IInv, IInv', NEW m \in Instances, Call(m) PROVE Table!Step
<1>1. ASSUME NEW pk \in Keys,
             \/ find(m, pk) \/ require_find(m, pk)
             \/ lower_bound(m, pk) \/ upper_bound(m, pk)
             \/ \E v \in Secs, p \in Payers : emplace(m, pk, v, p)
      PROVE  Table!Step
  BY <1>1, FindTells, BoundTells, EmplaceTells DEF Table!Step
<1>2. ASSUME NEW i \in Held(m),
             \/ increment(m, i) \/ decrement(m, i)
             \/ idx_increment(m, i) \/ idx_decrement(m, i) \/ idx_iterator_to(m, i)
             \/ erase(m, i) \/ erase_object(m, i) \/ idx_erase(m, i) \/ modify_key(m, i)
             \/ \E v \in Secs, p \in Payers \cup {SamePayer} : modify(m, i, v, p)
      PROVE  Table!Step
  <2>1. PICK pk \in Keys : pk = items[m][i].pk /\ pk \in Table!All
    BY HeldRow
  <2>2. increment(m, i) => Table!Increment(pk)
    BY <2>1, WalkTells DEF Table!Increment, Table!Following, Table!PkBefore
  <2>3. decrement(m, i) => Table!Decrement(pk)
    BY <2>1, WalkTells DEF Table!Decrement, Table!Preceding, Table!PkBefore
  <2>4. idx_increment(m, i) => Table!SecIncrement(pk)
    BY <2>1, SecWalkTells DEF Table!SecIncrement, Table!Following
  <2>5. idx_decrement(m, i) => Table!SecDecrement(pk)
    BY <2>1, SecWalkTells DEF Table!SecDecrement, Table!Preceding
  <2>6. idx_iterator_to(m, i) => Table!SecIteratorTo(pk)
    BY <2>1, SecIteratorTells
  <2>7. erase(m, i) => Table!Erase(pk)
    BY <2>1, EraseTells DEF Table!Erase, Table!EraseIn, Table!Following, Table!PkBefore
  <2>8. erase_object(m, i) => Table!EraseObject(pk)
    BY <2>1, EraseObjectTells
  <2>9. idx_erase(m, i) => Table!EraseSec(pk)
    BY <2>1, EraseSecTells DEF Table!EraseSec, Table!EraseIn, Table!Following
  <2>10. modify_key(m, i) => Table!ModifyKey(pk)
    BY <2>1, AbortFails DEF modify_key, Table!ModifyKey
  <2>11. \A v \in Secs, p \in Payers \cup {SamePayer} :
           modify(m, i, v, p) => Table!Modify(pk, v)
    BY <2>1, ModifyTells
  <2>12. Table!OnRow(pk)
    BY <1>2, <2>2, <2>3, <2>4, <2>5, <2>6, <2>7, <2>8, <2>9, <2>10, <2>11
       DEF Table!OnRow
  <2> QED BY <2>1, <2>12 DEF Table!Step
<1>3. ASSUME NEW v \in Secs,
             \/ idx_lower_bound(m, v) \/ idx_upper_bound(m, v)
             \/ idx_find(m, v) \/ idx_require_find(m, v)
      PROVE  Table!Step
  BY <1>3, SecBoundTells, SecFindTells DEF Table!Step
<1>4. CASE decrement_end(m) \/ idx_decrement_end(m)
  BY <1>4, FromEndTells DEF Table!Step
<1>5. CASE available_primary_key(m)
  BY <1>5, AvailableTells DEF Table!Step
<1>6. CASE foreign_object(m)
  BY <1>6 DEF foreign_object, OneInstance
<1> QED BY <1>1, <1>2, <1>3, <1>4, <1>5, <1>6 DEF Call

LEMMA NextTells ==
  ASSUME OneInstance, IInv, IInv', [Next]_vars PROVE [Table!Next]_(Table!vars)
<1>1. CASE UNCHANGED vars
  BY <1>1 DEF vars, Table!vars
<1>2. CASE Next
  <2>1. ~aborted
    BY <1>2 DEF Next
  <2>2. CASE commit
    <3>1. Table!Commit
      BY <2>2 DEF commit, Table!Commit, Table!Called
    <3> QED BY <2>1, <3>1 DEF Table!Next, Table!Step
  <2>3. CASE \E m \in Instances : Call(m)
    BY <2>1, <2>3, CallTells DEF Table!Next
  <2> QED BY <1>2, <2>2, <2>3 DEF Next
<1> QED BY <1>1, <1>2

\* With one instance, every behaviour of multi_index is one of OrderedTable: no
\* answer depends on what the caches hold, and no call fails on a row and in a
\* table of one's own.
THEOREM Refinement == ASSUME OneInstance PROVE Spec => ImplementsTable
<1>1. IInv /\ IInv' /\ [Next]_vars => [Table!Next]_(Table!vars)
  BY NextTells
<1>2. Spec => []IInv
  BY Inductive
<1>3. Spec => Table!Spec
  BY <1>1, <1>2, InitTells, PTL DEF Spec, Table!Spec
<1> QED BY <1>3 DEF ImplementsTable
=============================================================================
