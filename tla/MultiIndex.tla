----------------------------- MODULE MultiIndex -----------------------------
(***************************************************************************)
(* multi_index objects (contracts/uosio/multi_index.hpp) on one table with *)
(* one secondary index, while a contract executes an action.               *)
(*                                                                         *)
(* Each object keeps a cache of the rows it has seen (_items_vector), with *)
(* the iterator handles the host gave out for them, and _next_primary_key. *)
(* Several objects may be open on the same table in one action: they share *)
(* the host's database and nothing else.  A row is abstracted to its       *)
(* secondary key; call and res are the last call and its answer.           *)
(*                                                                         *)
(* A handle names one incarnation of a row.  The host never reuses one, so *)
(* the handle of key k is the number of rows with key k removed so far.    *)
(***************************************************************************)
EXTENDS Integers, Sequences

CONSTANTS Instances,  \* the multi_index objects open on the table
          Keys,       \* the primary keys clients use
          Secs,       \* the secondary keys clients use
          Payers,     \* the accounts that can be billed
          SamePayer,  \* name{}: keep the payer of the row
          MaxU,       \* the largest uint64_t
          MaxGen      \* bound: removals of one key in one action

ASSUME MultiIndexAssumption ==
  /\ MaxU \in Nat /\ MaxU >= 2 /\ MaxGen \in Nat
  /\ Keys \subseteq 0 .. MaxU
  /\ Secs \subseteq Nat
  /\ SamePayer \notin Payers

VARIABLES
  prim,     \* host: primary key -> [sec, payer], the rows
  idx,      \* host: primary key -> [sec, payer], the secondary index table
  gen,      \* host: primary key -> the handle of its present or next row
  own,      \* _code == current_receiver()
  items,    \* instance -> _items_vector
  next_pk,  \* instance -> _next_primary_key
  call,     \* the last call
  res,      \* and its answer, as in OrderedTable
  aborted   \* a check failed: the host drops the action

db == <<prim, idx, gen>>
vars == <<prim, idx, gen, own, items, next_pk, call, res, aborted>>

no_available_primary_key == MaxU - 1
unset_next_primary_key == MaxU

Unset == -1     \* __iters value of an index not looked up yet
EndItr == -2    \* the end iterator of an index table that exists

Entry == [sec : Secs, payer : Payers]
Item == [pk : Keys, val : Secs, pitr : Nat, iter : Nat \cup {Unset, EndItr}]

-----------------------------------------------------------------------------
(* The host's database, as the library uses it.                            *)

IsFirst(k, S, Before(_, _)) == k \in S /\ \A j \in S : j = k \/ Before(k, j)
IsLast(k, S, Before(_, _)) == k \in S /\ \A j \in S : j = k \/ Before(j, k)

PkBefore(a, b) == a < b
SecBefore(a, b) == idx[a].sec < idx[b].sec \/ (idx[a].sec = idx[b].sec /\ a < b)

RowLive(k, h) == k \in DOMAIN prim /\ gen[k] = h
EntryLive(k, h) == k \in DOMAIN idx /\ gen[k] = h

db_idx_find_primary(k) ==
  IF k \in DOMAIN idx THEN gen[k] ELSE IF DOMAIN idx = {} THEN Unset ELSE EndItr

Billed(payer, old) == IF payer = SamePayer THEN old ELSE payer

Put(f, k, v) == [x \in DOMAIN f \cup {k} |-> IF x = k THEN v ELSE f[x]]
Remove(f, k) == [x \in DOMAIN f \ {k} |-> f[x]]

-----------------------------------------------------------------------------
(* The cache.  An outcome is the cache after a lookup with the answer; the *)
(* set of outcomes of a lookup is empty when one of its checks fails.      *)

AtEnd(s) == [cache |-> s, res |-> <<>>]
Cursor(s, j) == [cache |-> s, res |-> <<s[j].pk, s[j].val>>]

FromRow(k) == [pk |-> k, val |-> prim[k].sec, pitr |-> gen[k], iter |-> Unset]

\* load_object_by_primary_iterator on the handle of row k: search the cache
\* from the back by handle, else read the row and append it.
HoldsRow(it, k) == it.pk = k /\ it.pitr = gen[k]

Loaded(s, k) ==
  IF \E j \in 1 .. Len(s) : HoldsRow(s[j], k) THEN s ELSE Append(s, FromRow(k))

LoadAt(s, k) ==
  LET t == Loaded(s, k)
  IN  {Cursor(t, j) : j \in {x \in 1 .. Len(t) :
         HoldsRow(t[x], k) /\ \A y \in x + 1 .. Len(t) : ~HoldsRow(t[y], k)}}

\* find: search the cache from the back by primary key, else ask the host.
Cached(s, k) == \E j \in 1 .. Len(s) : s[j].pk = k

FoundIn(s, k) == IF Cached(s, k) THEN s ELSE Loaded(s, k)

LastWith(s, k) ==
  {x \in 1 .. Len(s) : s[x].pk = k /\ \A y \in x + 1 .. Len(s) : s[y].pk # k}

FindAt(s, k) ==
  IF Cached(s, k) \/ k \in DOMAIN prim
  THEN LET t == FoundIn(s, k) IN {Cursor(t, j) : j \in LastWith(t, k)}
  ELSE {AtEnd(s)}

\* The cached object of an index entry, which then remembers its handle.
IndexAt(s, k) ==
  LET t == FoundIn(s, k)
  IN  {Cursor([t EXCEPT ![j].iter = gen[k]], j) : j \in LastWith(t, k)}

LandFirst(s, S) ==
  IF S = {} THEN {AtEnd(s)}
            ELSE UNION {LoadAt(s, k) : k \in {x \in S : IsFirst(x, S, PkBefore)}}
LandLast(s, S) == UNION {LoadAt(s, k) : k \in {x \in S : IsLast(x, S, PkBefore)}}

IndexFirst(s, S) ==
  IF S = {} THEN {AtEnd(s)}
            ELSE UNION {IndexAt(s, k) : k \in {x \in S : IsFirst(x, S, SecBefore)}}
IndexLast(s, S) == UNION {IndexAt(s, k) : k \in {x \in S : IsLast(x, S, SecBefore)}}

\* The handle of an item's index entry: from the item, else from the host.
EntryHandle(it) == IF it.iter = Unset THEN db_idx_find_primary(it.pk) ELSE it.iter

\* modify and erase ask the host again for any negative value.  Mutant: they
\* trust what the object remembers.
WriteHandleCached(it) == it.iter
WriteHandle(it) == IF it.iter < 0 THEN db_idx_find_primary(it.pk) ELSE it.iter

\* operator++ and operator-- of the two kinds of iterator, on item i.
After(s, i) ==
  IF RowLive(s[i].pk, s[i].pitr)
  THEN LandFirst(s, {k \in DOMAIN prim : PkBefore(s[i].pk, k)}) ELSE {}

Before(s, i) ==
  IF RowLive(s[i].pk, s[i].pitr)
  THEN LandLast(s, {k \in DOMAIN prim : PkBefore(k, s[i].pk)}) ELSE {}

IndexAfter(s, i) ==
  LET h == EntryHandle(s[i])
      t == [s EXCEPT ![i].iter = h]
  IN  IF h = EndItr THEN {AtEnd(t)}
      ELSE IF EntryLive(s[i].pk, h)
      THEN IndexFirst(t, {k \in DOMAIN idx : SecBefore(s[i].pk, k)}) ELSE {}

IndexBefore(s, i) ==
  LET h == EntryHandle(s[i])
      t == [s EXCEPT ![i].iter = h]
  IN  IF h = EndItr THEN IndexLast(t, DOMAIN idx)
      ELSE IF EntryLive(s[i].pk, h)
      THEN IndexLast(t, {k \in DOMAIN idx : SecBefore(k, s[i].pk)}) ELSE {}

-----------------------------------------------------------------------------
(* Calls.  Objects and iterators a client may pass are those in the cache. *)

Reply(op, arg, r) ==
  /\ call' = [op |-> op, arg |-> arg]
  /\ res' = r
  /\ UNCHANGED <<own, aborted>>

Abort(op, arg) ==
  /\ call' = [op |-> op, arg |-> arg]
  /\ res' = <<>>
  /\ aborted' = TRUE
  /\ UNCHANGED <<prim, idx, gen, own, items, next_pk>>

\* A lookup changes the cache of the instance and nothing else.
Lookup(m, op, arg, outcomes) ==
  \/ \E o \in outcomes :
       /\ items' = [items EXCEPT ![m] = o.cache]
       /\ Reply(op, arg, o.res)
       /\ UNCHANGED <<prim, idx, gen, next_pk>>
  \/ outcomes = {} /\ Abort(op, arg)

Held(m) == 1 .. Len(items[m])

find(m, pk) == Lookup(m, "find", <<pk>>, FindAt(items[m], pk))

\* The check comes before the load, and an end iterator is never returned.
require_find(m, pk) ==
  Lookup(m, "require_find", <<pk>>,
         {o \in FindAt(items[m], pk) : o.res # <<>>})

lower_bound(m, pk) ==
  Lookup(m, "lower_bound", <<pk>>,
         LandFirst(items[m], {k \in DOMAIN prim : k >= pk}))

upper_bound(m, pk) ==
  Lookup(m, "upper_bound", <<pk>>,
         LandFirst(items[m], {k \in DOMAIN prim : k > pk}))

increment(m, i) == Lookup(m, "next", <<items[m][i].pk>>, After(items[m], i))

decrement(m, i) == Lookup(m, "prev", <<items[m][i].pk>>, Before(items[m], i))

decrement_end(m) == Lookup(m, "prev", <<>>, LandLast(items[m], DOMAIN prim))

idx_lower_bound(m, s) ==
  Lookup(m, "idx_lower_bound", <<s>>,
         IndexFirst(items[m], {k \in DOMAIN idx : idx[k].sec >= s}))

idx_upper_bound(m, s) ==
  Lookup(m, "idx_upper_bound", <<s>>,
         IndexFirst(items[m], {k \in DOMAIN idx : idx[k].sec > s}))

\* index::find compares with the key of the cached object.  Mutant: it answers
\* with the lower bound.
IndexNearest(s, v) == IndexFirst(s, {k \in DOMAIN idx : idx[k].sec >= v})
IndexFind(s, v) ==
  {IF o.res = <<>> \/ o.res[2] = v THEN o ELSE AtEnd(o.cache) :
     o \in IndexFirst(s, {k \in DOMAIN idx : idx[k].sec >= v})}

idx_find(m, s) == Lookup(m, "idx_find", <<s>>, IndexFind(items[m], s))

idx_require_find(m, s) ==
  Lookup(m, "idx_require_find", <<s>>,
         {o \in IndexFind(items[m], s) : o.res # <<>>})

idx_iterator_to(m, i) ==
  Lookup(m, "idx_iterator_to", <<items[m][i].pk>>,
         {Cursor([items[m] EXCEPT ![i].iter = EntryHandle(items[m][i])], i)})

idx_increment(m, i) ==
  Lookup(m, "idx_next", <<items[m][i].pk>>, IndexAfter(items[m], i))

idx_decrement(m, i) ==
  Lookup(m, "idx_prev", <<items[m][i].pk>>, IndexBefore(items[m], i))

idx_decrement_end(m) == Lookup(m, "idx_prev", <<>>, IndexLast(items[m], DOMAIN idx))

\* An object of another instance is refused (__idx == this).
foreign_object(m) ==
  \E n \in Instances \ {m} : items[n] # <<>> /\ Abort("foreign_object", <<>>)

-----------------------------------------------------------------------------
\* The key after pk, with the two largest values reserved as tags.  Mutants:
\* nothing is reserved, and a key equal to the next one is overlooked.
SuccessorUnreserved(pk) == pk + 1
Successor(pk) ==
  IF pk >= no_available_primary_key THEN no_available_primary_key ELSE pk + 1

BumpedStrictly(m, pk) == IF pk > next_pk[m] THEN Successor(pk) ELSE next_pk[m]
Bumped(m, pk) == IF pk >= next_pk[m] THEN Successor(pk) ELSE next_pk[m]

\* The key to hand out, with the cache after begin() and --end() when this is
\* the first call on the instance.
NextKeys(m) ==
  IF next_pk[m] # unset_next_primary_key
  THEN {[cache |-> items[m], key |-> next_pk[m]]}
  ELSE IF DOMAIN prim = {}
  THEN {[cache |-> items[m], key |-> 0]}
  ELSE UNION {{[cache |-> e.cache, key |-> Successor(e.res[1])] :
                 e \in LandLast(b.cache, DOMAIN prim)} :
              b \in LandFirst(items[m], DOMAIN prim)}

available_primary_key(m) ==
  \E o \in NextKeys(m) :
    \/ /\ o.key < no_available_primary_key
       /\ items' = [items EXCEPT ![m] = o.cache]
       /\ next_pk' = [next_pk EXCEPT ![m] = o.key]
       /\ Reply("available_primary_key", <<>>, <<o.key>>)
       /\ UNCHANGED <<prim, idx, gen>>
    \/ o.key >= no_available_primary_key /\ Abort("available_primary_key", <<>>)

emplace(m, pk, s, payer) ==
  \/ /\ own
     /\ pk \notin DOMAIN prim      \* db_store_i64 refuses a key in use
     /\ prim' = Put(prim, pk, [sec |-> s, payer |-> payer])
     /\ idx' = Put(idx, pk, [sec |-> s, payer |-> payer])
     /\ next_pk' = [next_pk EXCEPT ![m] = Bumped(m, pk)]
     /\ items' = [items EXCEPT ![m] =
          Append(@, [pk |-> pk, val |-> s, pitr |-> gen[pk], iter |-> gen[pk]])]
     /\ Reply("emplace", <<pk, s>>, <<pk, s>>)
     /\ UNCHANGED gen
  \/ (~own \/ pk \in DOMAIN prim) /\ Abort("emplace", <<pk, s>>)

\* Mutant: the old key is read after the updater has run.
KeyChangedLate(it, s) == FALSE
KeyChanged(it, s) == it.val # s

\* modify(obj, payer, updater) where the updater leaves the object with key s.
\* The index entry is only touched when the cached object's key changes.
modify(m, i, s, payer) ==
  LET it == items[m][i]
      changed == KeyChanged(it, s)
      h == WriteHandle(it)
      ok == /\ own /\ RowLive(it.pk, it.pitr)
            /\ changed => EntryLive(it.pk, h)
  IN  \/ /\ ok
         /\ prim' = [prim EXCEPT ![it.pk] =
              [sec |-> s, payer |-> Billed(payer, @.payer)]]
         /\ idx' = IF changed
                   THEN [idx EXCEPT ![it.pk] =
                          [sec |-> s, payer |-> Billed(payer, @.payer)]]
                   ELSE idx
         /\ next_pk' = [next_pk EXCEPT ![m] = Bumped(m, it.pk)]
         /\ items' = [items EXCEPT ![m][i] =
              [it EXCEPT !.val = s, !.iter = IF changed THEN h ELSE @]]
         /\ Reply("modify", <<it.pk, s>>, <<it.pk, s>>)
         /\ UNCHANGED gen
      \/ ~ok /\ Abort("modify", <<it.pk, s>>)

\* The updater must leave the primary key alone.
modify_key(m, i) == Abort("modify_key", <<items[m][i].pk>>)

\* Mutant: the object stays in _items_vector.
KeepAt(s, j) == s
RemoveAt(s, j) == [x \in 1 .. Len(s) - 1 |-> IF x < j THEN s[x] ELSE s[x + 1]]

\* erase(obj) for item i of the cache s: the last cached object with the key
\* leaves the cache, then the row goes, then the index entry if there is one.
EraseItem(m, s, i, op, r) ==
  LET it == s[i]
      h == WriteHandle(it)
      ok == /\ own /\ RowLive(it.pk, it.pitr)
            /\ h >= 0 => EntryLive(it.pk, h)
  IN  \/ /\ ok /\ gen[it.pk] < MaxGen
         /\ \E j \in LastWith(s, it.pk) : items' = [items EXCEPT ![m] = RemoveAt(s, j)]
         /\ prim' = Remove(prim, it.pk)
         /\ idx' = IF h >= 0 THEN Remove(idx, it.pk) ELSE idx
         /\ gen' = [gen EXCEPT ![it.pk] = @ + 1]
         /\ Reply(op, <<it.pk>>, r)
         /\ UNCHANGED next_pk
      \/ ~ok /\ Abort(op, <<it.pk>>)

erase_object(m, i) == EraseItem(m, items[m], i, "erase_object", <<>>)

\* erase(itr) moves the iterator on before it removes the object.
erase(m, i) ==
  \/ \E o \in After(items[m], i) : EraseItem(m, o.cache, i, "erase", o.res)
  \/ After(items[m], i) = {} /\ Abort("erase", <<items[m][i].pk>>)

idx_erase(m, i) ==
  \/ \E o \in IndexAfter(items[m], i) : EraseItem(m, o.cache, i, "idx_erase", o.res)
  \/ IndexAfter(items[m], i) = {} /\ Abort("idx_erase", <<items[m][i].pk>>)

-----------------------------------------------------------------------------
\* The action ends: the database stays, the instances are gone, and the next
\* action opens new ones (the constructor), maybe on another contract's table.
commit ==
  /\ call' = [op |-> "commit", arg |-> <<>>]
  /\ res' = <<>>
  /\ own' \in BOOLEAN
  /\ gen' = [k \in Keys |-> 0]
  /\ items' = [m \in Instances |-> <<>>]
  /\ next_pk' = [m \in Instances |-> unset_next_primary_key]
  /\ UNCHANGED <<prim, idx, aborted>>

\* Any table that earlier actions can have left behind.
Init ==
  /\ prim \in UNION {[D -> Entry] : D \in SUBSET Keys}
  /\ idx \in {f \in [DOMAIN prim -> Entry] : \A k \in DOMAIN prim : f[k].sec = prim[k].sec}
  /\ gen = [k \in Keys |-> 0]
  /\ own \in BOOLEAN
  /\ items = [m \in Instances |-> <<>>]
  /\ next_pk = [m \in Instances |-> unset_next_primary_key]
  /\ call = [op |-> "commit", arg |-> <<>>]
  /\ res = <<>>
  /\ aborted = FALSE

Call(m) ==
  \/ \E pk \in Keys : \/ find(m, pk) \/ require_find(m, pk)
                      \/ lower_bound(m, pk) \/ upper_bound(m, pk)
                      \/ \E s \in Secs, p \in Payers : emplace(m, pk, s, p)
  \/ \E i \in Held(m) :
       \/ increment(m, i) \/ decrement(m, i)
       \/ idx_increment(m, i) \/ idx_decrement(m, i) \/ idx_iterator_to(m, i)
       \/ erase(m, i) \/ erase_object(m, i) \/ idx_erase(m, i) \/ modify_key(m, i)
       \/ \E s \in Secs, p \in Payers \cup {SamePayer} : modify(m, i, s, p)
  \/ \E s \in Secs : \/ idx_lower_bound(m, s) \/ idx_upper_bound(m, s)
                     \/ idx_find(m, s) \/ idx_require_find(m, s)
  \/ decrement_end(m) \/ idx_decrement_end(m)
  \/ available_primary_key(m) \/ foreign_object(m)

Next == ~aborted /\ (commit \/ \E m \in Instances : Call(m))

Spec == Init /\ [][Next]_vars

-----------------------------------------------------------------------------
(* Type invariant.                                                         *)
TypeOK ==
  /\ prim \in UNION {[D -> Entry] : D \in SUBSET Keys}
  /\ idx \in UNION {[D -> Entry] : D \in SUBSET Keys}
  /\ gen \in [Keys -> Nat]
  /\ own \in BOOLEAN
  /\ items \in [Instances -> Seq(Item)]
  /\ next_pk \in [Instances -> 0 .. MaxU]
  /\ aborted \in BOOLEAN

Coherent(s) ==
  /\ \A i \in 1 .. Len(s) :
       /\ RowLive(s[i].pk, s[i].pitr)
       /\ s[i].val = prim[s[i].pk].sec
       /\ s[i].iter = Unset \/ EntryLive(s[i].pk, s[i].iter)
  /\ \A i, j \in 1 .. Len(s) : s[i].pk = s[j].pk => i = j

(* Every object in a cache shows the row as it is in the database, through *)
(* handles the host still honours, and no row is cached twice: so find(),  *)
(* which trusts the cache, and the writes through cached objects are right.*)
(* Holds for one instance only.                                            *)
CacheCoherent == \A m \in Instances : Coherent(items[m])

(* Each row has its index entry and no entry outlives its row, however     *)
(* many instances work on the table: a lookup through the index never      *)
(* dereferences an object that is not there.                               *)
IndexCoversRows == DOMAIN idx = DOMAIN prim

(* The secondary key of each entry is that of its row, so that whatever an *)
(* action commits is found by its secondary key.  "Secondary indices are   *)
(* updated", says the documentation of modify.                             *)
IndexMatchesRows ==
  \A k \in DOMAIN prim : k \in DOMAIN idx /\ idx[k].sec = prim[k].sec

(* _next_primary_key, once set, is above every key of the table or is the  *)
(* tag: emplace with available_primary_key() never collides.               *)
NextKeyAboveRows ==
  \A m \in Instances : \A k \in DOMAIN prim :
    next_pk[m] < no_available_primary_key => k < next_pk[m]

Table == INSTANCE OrderedTable WITH rows <- [k \in DOMAIN prim |-> prim[k].sec]

(* One instance behaves as a plain ordered table: every call answers what  *)
(* the rows alone determine, and fails only where the table says it may.   *)
ImplementsTable == Table!Spec
=============================================================================
