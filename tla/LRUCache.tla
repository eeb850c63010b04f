------------------------------ MODULE LRUCache ------------------------------
(***************************************************************************)
(* A shard of the cache (util/cache.cpp) and its clients: TableCache       *)
(* (db/table_cache.cpp), whose readers share open tables and whose entries *)
(* DeleteObsoleteFiles() evicts, and Table::BlockReader (table/table.cpp), *)
(* which does the same with blocks of several sizes.                       *)
(*                                                                         *)
(* Each call of the cache holds mutex_ and is one step; a reader that      *)
(* misses opens the file between two of them.                              *)
(*                                                                         *)
(* Data: a handle is a number; a freed one is given out again, as malloc() *)
(* does.  The value is known by the handle.                                *)
(***************************************************************************)
EXTENDS Integers, FiniteSets, SequencesExt

CONSTANTS
  Readers,    \* threads that read
  Files,      \* the keys: table numbers, or (cache_id, offset) of blocks
  Charge,     \* the charge of each key
  Hash,       \* the hash of each key
  MinLength,  \* the first length_ of the hash table: 4 in the code
  capacity_

ASSUME CacheAssumption ==
  /\ IsFiniteSet(Readers) /\ IsFiniteSet(Files) /\ Files # {}
  /\ Charge \in [Files -> Nat] /\ Hash \in [Files -> Nat]
  /\ MinLength \in Nat \ {0} /\ capacity_ \in Nat

VARIABLES
  cache,   \* LRUCache: [heap, lru, usage, list, elems]
  pc,      \* where each reader is: "idle", "miss" or "use"
  want,    \* the key it looks for; only while it is not idle
  handle,  \* the handle it has got
  live,    \* the files of the versions that are referenced
  closed   \* ~LRUCache() is over

vars == <<cache, pc, want, handle, live, closed>>

\* heap: the allocated LRUHandles; lru: the list from lru_.next on; list: the
\* chains of the hash table.  A chain holds one entry of a key (TableMatchesList),
\* so that its order decides nothing: it is the set of its handles.
Empty ==
  [heap |-> <<>>, lru |-> <<>>, usage |-> 0, elems |-> 0,
   list |-> [b \in 0..(MinLength - 1) |-> {}]]

NoHandle == 0
MaxHandle == Cardinality(Files) + Cardinality(Readers) + 1
Handle == 1..MaxHandle

-----------------------------------------------------------------------------
(* HandleTable: each operator gives the cache after the call.              *)

Length(c) == Cardinality(DOMAIN c.list)
Bucket(c, k) == Hash[k] % Length(c)

\* The entries of k that its chain holds: the one to find, or none.
FindPointer(c, k) == {h \in c.list[Bucket(c, k)] : c.heap[h].key = k}
TableLookup(c, k) ==
  IF FindPointer(c, k) = {} THEN NoHandle
  ELSE CHOOSE h \in FindPointer(c, k) : TRUE

\* The lengths that Resize() tries: the first one, doubled up to n times.
Doubled(n) ==
  LET length[i \in 0..n] == IF i = 0 THEN MinLength ELSE 2 * length[i - 1]
  IN  length
NewLength(c) ==
  Doubled(c.elems)[Min({i \in 0..c.elems : Doubled(c.elems)[i] >= c.elems})]

InTable(c) == UNION {c.list[b] : b \in DOMAIN c.list}
Resize_OldMask(c) ==
  [c EXCEPT !.list = [b \in 0..(NewLength(c) - 1) |->
     {h \in InTable(c) : Hash[c.heap[h].key] % Length(c) = b}]]
Resize(c) ==
  [c EXCEPT !.list = [b \in 0..(NewLength(c) - 1) |->
     {h \in InTable(c) : Hash[c.heap[h].key] % NewLength(c) = b}]]

\* The new entry takes the place of the one found, if any.
TableInsert(c, h) ==
  LET k == c.heap[h].key
      found == FindPointer(c, k)
      placed == [c EXCEPT !.list[Bucket(c, k)] = (@ \ found) \cup {h}]
      added == [placed EXCEPT !.elems = @ + 1]
  IN  IF found # {} THEN placed
      ELSE IF added.elems > Length(c) THEN Resize(added) ELSE added

TableRemove(c, k) ==
  IF FindPointer(c, k) = {} THEN c
  ELSE [c EXCEPT !.list[Bucket(c, k)] = @ \ FindPointer(c, k),
                 !.elems = @ - 1]

-----------------------------------------------------------------------------
(* LRUCache.                                                               *)

\* At the last reference the deleter closes the table, and the handle is freed.
Unref(c, h) ==
  IF c.heap[h].refs > 1 THEN [c EXCEPT !.heap[h].refs = @ - 1]
  ELSE [c EXCEPT !.usage = @ - c.heap[h].charge,
                 !.heap = [g \in DOMAIN @ \ {h} |-> @[g]]]

\* Only what is in the list is unlinked.
LRU_Remove(c, h) ==
  [c EXCEPT !.lru = RemoveAt(@, CHOOSE i \in DOMAIN @ : @[i] = h)]
LRU_Append(c, h) == [c EXCEPT !.lru = Append(@, h)]

CacheLookup_NoRef(c, h) == LRU_Append(LRU_Remove(c, h), h)
\* Lookup() that finds h.
CacheLookup(c, h) ==
  LRU_Append(LRU_Remove([c EXCEPT !.heap[h].refs = @ + 1], h), h)

\* An eviction: the entry leaves the table and the list, and loses a reference.
Drop(c, h) == Unref(LRU_Remove(TableRemove(c, c.heap[h].key), h), h)

\* The caches that the loop of Insert() goes through: the n-th is the one after n
\* evictions.
Evictions(c) ==
  LET after[n \in 0..Len(c.lru)] ==
        IF n = 0 THEN c ELSE Drop(after[n - 1], Head(after[n - 1].lru))
  IN  after

Shrunk_Once(c) ==
  IF c.usage > capacity_ /\ c.lru # <<>> THEN Drop(c, Head(c.lru)) ELSE c
\* The loop ends with the first cache that is small enough, or has nothing left to
\* evict: an entry that is in use leaves it without making usage_ smaller.
Shrunk(c) ==
  Evictions(c)[Min({n \in 0..Len(c.lru) :
                      \/ Evictions(c)[n].usage <= capacity_
                      \/ Evictions(c)[n].lru = <<>>})]

\* What has left the table, if anything, leaves the list and loses the reference of the
\* cache.
Discard(c, old) ==
  IF old = NoHandle THEN c ELSE Unref(LRU_Remove(c, old), old)

\* A new handle e: one reference for the cache, one for the caller.
Linked(c, k, e) ==
  LET entry == [key |-> k, charge |-> Charge[k], refs |-> 2]
  IN  LRU_Append([c EXCEPT !.heap = [g \in DOMAIN @ \cup {e} |->
                                       IF g = e THEN entry ELSE @[g]],
                           !.usage = @ + Charge[k]], e)

\* Insert().
CacheInsert(c, k, e) ==
  Shrunk(Discard(TableInsert(Linked(c, k, e), e), TableLookup(c, k)))

\* Erase(): what the table gives up goes the same way.
Erase(c, k) == Discard(TableRemove(c, k), TableLookup(c, k))

\* ~LRUCache() after its first n entries; it asserts that the list holds the only
\* reference of each.
Unreffed(c) ==
  LET after[n \in 0..Len(c.lru)] ==
        IF n = 0 THEN c ELSE Unref(after[n - 1], c.lru[n])
  IN  after
Destroyed(c) == Unreffed(c)[Len(c.lru)]

-----------------------------------------------------------------------------
(* The clients.                                                            *)

Init ==
  /\ cache = Empty
  /\ pc = [r \in Readers |-> "idle"]
  /\ want = [r \in Readers |-> CHOOSE k \in Files : TRUE]
  /\ handle = [r \in Readers |-> NoHandle]
  /\ live = Files
  /\ closed = FALSE

\* FindTable(), or BlockReader(): Lookup() of a file of the version the reader
\* holds.
Find(r) ==
  /\ pc[r] = "idle" /\ ~closed
  /\ \E k \in live :
       LET h == TableLookup(cache, k)
       IN  /\ want' = [want EXCEPT ![r] = k]
           /\ handle' = [handle EXCEPT ![r] = h]
           /\ \/ /\ h = NoHandle
                 /\ pc' = [pc EXCEPT ![r] = "miss"]
                 /\ UNCHANGED cache
              \/ /\ h # NoHandle
                 /\ pc' = [pc EXCEPT ![r] = "use"]
                 /\ cache' = CacheLookup(cache, h)
  /\ UNCHANGED <<live, closed>>

\* The table has been opened, or the block read: Insert().
Fill(r) ==
  /\ pc[r] = "miss"
  /\ LET e == Min(Handle \ DOMAIN cache.heap)
     IN  /\ cache' = CacheInsert(cache, want[r], e)
         /\ handle' = [handle EXCEPT ![r] = e]
  /\ pc' = [pc EXCEPT ![r] = "use"]
  /\ UNCHANGED <<want, live, closed>>

\* The table cannot be opened or the block not read, which is not cached; or the
\* block is not to be cached (fill_cache) and the iterator owns it.
FillFails(r) ==
  /\ pc[r] = "miss"
  /\ pc' = [pc EXCEPT ![r] = "idle"]
  /\ UNCHANGED <<cache, want, handle, live, closed>>

\* The end of TableCache::Get(), or the cleanup of an iterator: UnrefEntry,
\* ReleaseBlock.
Release(r) ==
  /\ pc[r] = "use"
  /\ cache' = Unref(cache, handle[r])
  /\ handle' = [handle EXCEPT ![r] = NoHandle]
  /\ pc' = [pc EXCEPT ![r] = "idle"]
  /\ UNCHANGED <<want, live, closed>>

Evict_Forgotten(k) ==
  /\ k \in live /\ ~closed
  /\ \A r \in Readers : pc[r] # "idle" => want[r] # k
  /\ live' = live \ {k}
  /\ UNCHANGED <<cache, pc, want, handle, closed>>
\* DeleteObsoleteFiles(): TableCache::Evict() of a table that is in no version
\* that a reader holds.
Evict(k) ==
  /\ k \in live /\ ~closed
  /\ \A r \in Readers : pc[r] # "idle" => want[r] # k
  /\ live' = live \ {k}
  /\ cache' = Erase(cache, k)
  /\ UNCHANGED <<pc, want, handle, closed>>

\* ~TableCache(), when every iterator has been deleted.
Close ==
  /\ ~closed /\ \A r \in Readers : pc[r] = "idle"
  /\ cache' = Destroyed(cache)
  /\ closed' = TRUE
  /\ UNCHANGED <<pc, want, handle, live>>

Next ==
  \/ \E r \in Readers : Find(r) \/ Fill(r) \/ FillFails(r) \/ Release(r)
  \/ \E k \in Files : Evict(k)
  \/ Close

Spec == Init /\ [][Next]_vars

-----------------------------------------------------------------------------
(* Properties.                                                             *)

\* The types; usage_ and elems_ are unsigned and never wrap.
TypeOK ==
  /\ DOMAIN cache.heap \subseteq Handle
  /\ \A h \in DOMAIN cache.heap :
       cache.heap[h] \in [key : Files, charge : Nat, refs : Nat \ {0}]
  /\ cache.lru \in Seq(Handle)
  /\ cache.usage \in Nat /\ cache.elems \in Nat
  /\ \A b \in DOMAIN cache.list : cache.list[b] \subseteq Handle
  /\ pc \in [Readers -> {"idle", "miss", "use"}]
  /\ want \in [Readers -> Files]
  /\ handle \in [Readers -> Handle \cup {NoHandle}]
  /\ live \subseteq Files
  /\ closed \in BOOLEAN

Holders(h) == {r \in Readers : pc[r] = "use" /\ handle[r] = h}
Cached == {cache.lru[i] : i \in DOMAIN cache.lru}

\* A handle is allocated exactly as long as the cache or a reader refers to it, and
\* a reader's handle is of the file it wanted: no entry is freed under an iterator
\* when it is evicted, erased or replaced by a second reader that missed too
\* (cache.cpp:146-154, 201-212; table_cache.cpp:50-69).
RefsExact ==
  /\ TypeOK
  /\ ~closed =>
       /\ \A h \in DOMAIN cache.heap :
            cache.heap[h].refs =
              Cardinality(Holders(h)) + (IF h \in Cached THEN 1 ELSE 0)
       /\ \A r \in Readers :
            pc[r] = "use" => /\ handle[r] \in DOMAIN cache.heap
                             /\ cache.heap[handle[r]].key = want[r]

\* The hash table and the list hold the same entries, one per key, each once and
\* where FindPointer() looks for it, also after Resize(); length_ is enough
\* (cache.cpp:43-103).
TableMatchesList ==
  ~closed =>
    /\ Cardinality(Cached) = Len(cache.lru)
    /\ InTable(cache) = Cached
    /\ cache.elems = Len(cache.lru) /\ cache.elems <= Length(cache)
    /\ \A b \in DOMAIN cache.list : \A h \in cache.list[b] :
         /\ h \in DOMAIN cache.heap
         /\ Bucket(cache, cache.heap[h].key) = b
         /\ TableLookup(cache, cache.heap[h].key) = h

\* The sum of the charges of the allocated entries, by their handles.
ChargeOf(heap) ==
  [h \in Handle |-> IF h \in DOMAIN heap THEN heap[h].charge ELSE 0]
SumUpTo(charge) ==
  LET sum[n \in 0..MaxHandle] == IF n = 0 THEN 0 ELSE sum[n - 1] + charge[n]
  IN  sum
Sum(charge) == SumUpTo(charge)[MaxHandle]

\* usage_ is the charge of all allocated entries, and the cache keeps nothing that
\* it could give up while usage_ is above capacity_: entries in use alone can take
\* it there (cache.cpp:207-212).
UsageBounded ==
  /\ cache.usage = Sum(ChargeOf(cache.heap))
  /\ cache.usage > capacity_ => cache.lru = <<>>

\* No table stays open for a file that was evicted and deleted, whatever reader
\* opened it when, and none when the cache is gone (db_impl.cpp:239-250).
NoStaleTable ==
  \A h \in DOMAIN cache.heap : ~closed /\ cache.heap[h].key \in live
=============================================================================
