----------------------------- MODULE PrefixCache -----------------------------
(***************************************************************************)
(* engine/search/cache.py: ReplayPrefixCache, an LRU bounded by entries    *)
(* and by bytes, its index file and its reload after a restart.  An entry  *)
(* is a key, the manifest it was recorded under, what the replay observed  *)
(* and its size in bytes.                                                  *)
(***************************************************************************)
EXTENDS Integers, Sequences, FiniteSets

CONSTANTS
  PcEntries,   \* the entries replays may produce
  PcPolicies,  \* the policies a cache may be created or reloaded with
  PcSteps      \* bound: operations

VARIABLES
  cache,  \* the ReplayPrefixCache: policy, entries oldest first, counters
  index,  \* the entries of the index file, <<>> before the first flush
  puts,   \* history: entries put since the cache was created or reloaded
  pcStep

pcVars == <<cache, index, puts, pcStep>>

(* PrefixCachePolicy.__post_init__ *)
ValidPolicy(p) == /\ p.max_entries >= 1 /\ p.flush_every >= 1
                  /\ 1 <= p.max_entry_bytes /\ p.max_entry_bytes <= p.max_bytes

ASSUME PoliciesAssumption ==
  \A p \in PcPolicies :
    /\ ValidPolicy(p)
    /\ {p.max_entries, p.max_bytes, p.max_entry_bytes, p.flush_every} \subseteq Int

(* estimated_bytes is the length of a document.                            *)
ASSUME EntriesAssumption == \A e \in PcEntries : e.size \in Nat

EmptyCache(p) ==
  [policy |-> p, entries |-> <<>>, bytes |-> 0, hits |-> 0, misses |-> 0,
   evictions |-> 0, invalidations |-> 0, replaced |-> 0, dirty |-> 0]

KeysOf(es) == {es[i].key : i \in 1..Len(es)}
IndexOf(es, k) == CHOOSE i \in 1..Len(es) : es[i].key = k
EntryOf(es, k) == es[IndexOf(es, k)]
Without(es, k) ==
  SubSeq(es, 1, IndexOf(es, k) - 1) \o SubSeq(es, IndexOf(es, k) + 1, Len(es))
BytesOf(es) ==
  LET upto[n \in 0..Len(es)] == IF n = 0 THEN 0 ELSE upto[n - 1] + es[n].size
  IN upto[Len(es)]

(* _remove *)
RemoveKey(c, k) ==
  IF k \notin KeysOf(c.entries) THEN c
  ELSE [c EXCEPT !.entries = Without(@, k), !.dirty = @ + 1,
                 !.bytes = @ - EntryOf(c.entries, k).size]

(* The eviction loop of put: how many of the oldest entries must go.       *)
Overfull(c, n) ==
  LET rest == SubSeq(c.entries, n + 1, Len(c.entries))
  IN \/ Len(rest) > c.policy.max_entries
     \/ c.bytes - BytesOf(SubSeq(c.entries, 1, n)) > c.policy.max_bytes

Evict(c) ==
  LET n == CHOOSE m \in 0..Len(c.entries) :
             ~Overfull(c, m) /\ \A j \in 0..(m - 1) : Overfull(c, j)
  IN [c EXCEPT !.entries = SubSeq(@, n + 1, Len(@)), !.evictions = @ + n,
               !.dirty = @ + n,
               !.bytes = @ - BytesOf(SubSeq(c.entries, 1, n))]

(* put; an entry larger than max_entry_bytes is refused.                   *)
Fits(c, e) == e.size <= c.policy.max_entry_bytes
PutEntry(c, e) ==
  LET r == RemoveKey(c, e.key)
      had == e.key \in KeysOf(c.entries)
  IN Evict([r EXCEPT !.entries = Append(@, e), !.bytes = @ + e.size,
                     !.dirty = @ + 1,
                     !.replaced = IF had THEN @ + 1 ELSE @])

PcInit ==
  /\ \E p \in PcPolicies : cache = EmptyCache(p)
  /\ index = <<>> /\ puts = 0 /\ pcStep = 0

Tick == pcStep < PcSteps /\ pcStep' = pcStep + 1

PcPut(e) ==
  /\ Tick /\ UNCHANGED index
  /\ IF Fits(cache, e) THEN cache' = PutEntry(cache, e) /\ puts' = puts + 1
     ELSE UNCHANGED <<cache, puts>>

Touch(c, k) ==
  IF k \in KeysOf(c.entries)
  THEN [c EXCEPT !.entries = Append(Without(@, k), EntryOf(@, k)),
                 !.hits = @ + 1]
  ELSE [c EXCEPT !.misses = @ + 1]

PcGet(k) == Tick /\ cache' = Touch(cache, k) /\ UNCHANGED <<index, puts>>

(* verify_replayed_prefix: the fresh replay observed actual.               *)
PcVerify(k, actual) ==
  LET c == Touch(cache, k)
      same == EntryOf(cache.entries, k).observed = actual
  IN /\ Tick /\ UNCHANGED <<index, puts>>
     /\ k \in KeysOf(cache.entries)
     /\ cache' = IF same THEN c
                 ELSE [RemoveKey(c, k) EXCEPT !.invalidations = @ + 1]

(* retain_manifest: the entries of other manifests go one by one.          *)
Retained(c, m) ==
  LET after[n \in 0..Len(c.entries)] ==
        IF n = 0 THEN c
        ELSE IF c.entries[n].manifest = m THEN after[n - 1]
        ELSE [RemoveKey(after[n - 1], c.entries[n].key) EXCEPT !.invalidations = @ + 1]
  IN after[Len(c.entries)]

PcRetainManifest(m) == Tick /\ cache' = Retained(cache, m) /\ UNCHANGED <<index, puts>>

(* write_prefix_cache_index when should_flush: the temporary file replaces *)
(* the index in one step, so a crash before it leaves the old index.       *)
PcFlush ==
  /\ Tick /\ UNCHANGED puts
  /\ cache.dirty >= cache.policy.flush_every
  /\ index' = cache.entries
  /\ cache' = [cache EXCEPT !.dirty = 0]

(* mutant: the index is read newest first *)
ReloadNewestFirst(p, es) ==
  LET loaded[n \in 0..Len(es)] ==
        IF n = 0 THEN EmptyCache(p)
        ELSE LET c == loaded[n - 1] IN PutEntry(c, es[Len(es) + 1 - n])
  IN [loaded[Len(es)] EXCEPT !.dirty = 0]

(* A restart reads the index back under a policy that may be smaller;      *)
(* reading raises when one entry alone exceeds the new limit.              *)
Reload(p, es) ==
  LET loaded[n \in 0..Len(es)] ==
        IF n = 0 THEN EmptyCache(p)
        ELSE LET c == loaded[n - 1] IN PutEntry(c, es[n])
  IN [loaded[Len(es)] EXCEPT !.dirty = 0]

PcRestart(p) ==
  /\ Tick /\ UNCHANGED index
  /\ \A i \in 1..Len(index) : index[i].size <= p.max_entry_bytes
  /\ cache' = Reload(p, index)
  /\ puts' = Len(index)

PcNext ==
  \/ \E e \in PcEntries : PcPut(e) \/ PcGet(e.key) \/ PcRetainManifest(e.manifest)
  \/ \E e, f \in PcEntries : PcVerify(e.key, f.observed)
  \/ PcFlush
  \/ \E p \in PcPolicies : PcRestart(p)

PcSpec == PcInit /\ [][PcNext]_pcVars

(***************************************************************************)
(* Properties                                                              *)
(***************************************************************************)
(* The byte counter kept incrementally by put, eviction, verification and  *)
(* reload is the size of what is stored, within both limits, with one      *)
(* entry per key, and every entry ever put is still there or is counted    *)
(* once as replaced, evicted or invalidated.                               *)
CacheAccounted ==
  /\ cache.bytes = BytesOf(cache.entries)
  /\ cache.bytes <= cache.policy.max_bytes
  /\ Len(cache.entries) <= cache.policy.max_entries
  /\ Cardinality(KeysOf(cache.entries)) = Len(cache.entries)
  /\ puts = Len(cache.entries) + cache.replaced + cache.evictions
              + cache.invalidations

(* The entry just put is never the victim of its own eviction, and what    *)
(* stays is the most recently used part of what was there.                 *)
PutKeepsNewest ==
  \A e \in PcEntries :
    PcPut(e) /\ Fits(cache, e) =>
      /\ cache'.entries # <<>>
      /\ cache'.entries[Len(cache'.entries)] = e

(* A restart never resurrects more than the index holds: the reloaded      *)
(* entries are the most recently used end of the flushed order, so a       *)
(* smaller policy forgets the oldest entries and never a recent one.       *)
ReloadKeepsRecent ==
  \A p \in PcPolicies :
    PcRestart(p) =>
      LET n == Len(cache'.entries)
      IN cache'.entries = SubSeq(index, Len(index) - n + 1, Len(index))

(* A cache forgets the oldest entries only and accounts for each of them:  *)
(* no step leaves the counters wrong, evicts what was just put or reloads  *)
(* anything but the most recent end of the index.                          *)
RecentEntriesKept ==
  [][CacheAccounted' /\ PutKeepsNewest /\ ReloadKeepsRecent]_pcVars

=============================================================================
