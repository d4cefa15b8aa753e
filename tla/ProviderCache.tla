---------------------------- MODULE ProviderCache ----------------------------
(***************************************************************************)
(* The cache providers keep of what the next request of a conversation      *)
(* needs (provider_cache.py): a dictionary whose entries live MemoryTTL, a  *)
(* file whose entries live DiskTTL, tasks that load the file, look a key up *)
(* in it, save it and clean the dictionary.  _lock is never held across an  *)
(* await; _disk_lock is, while a thread reads the file.  shutdown and clear  *)
(* have no caller: a process that ends is a crash.                            *)
(***************************************************************************)
EXTENDS Integers, Sequences

CONSTANTS
  CacheKeys, NoEntry,
  MemoryTTL, DiskTTL,
  MaxStores,   \* bound: values stored
  MaxQueue,    \* bound: tasks scheduled and not run
  MaxTime      \* bound: the clock

ASSUME CacheConstants ==
  /\ NoEntry \notin [val : Nat, ts : Nat]
  /\ {MemoryTTL, DiskTTL, MaxStores, MaxQueue, MaxTime} \subseteq Nat

VARIABLES
  proc,      \* "down", "starting", "loading" (_disk_lock is held), "on"
  mem,       \* _cache: value and timestamp of each key
  file,      \* the entries in _cache_file
  dirty,     \* _dirty
  ready,     \* tasks of store() and of retrieve(), in the order of the loop
  waiting,   \* keys whose _check_disk_fallback waits for _disk_lock
  diskOk,    \* the file can be written
  now,
  stored,    \* number of values stored so far
  latest,    \* history: the newest value of each key that was not lost
  overtaken  \* history: keys whose newest value an older one replaced, or that
             \* expired before it was saved

cacheVars == <<proc, mem, file, dirty, ready, waiting, diskOk, now, stored,
               latest, overtaken>>

NoEntries(ks) == [k \in ks |-> NoEntry]
Valid(e, ttl) == e # NoEntry /\ now - e.ts <= ttl
\* What the file has of a key, when it can be read.
OnDisk(k, readable) ==
  IF readable /\ Valid(file[k], DiskTTL) THEN file[k] ELSE NoEntry
Unsaved(k) == mem[k] \notin {NoEntry, file[k]}
Older(e, f) == e # NoEntry /\ f # NoEntry /\ e.val < f.val

CacheInit ==
  /\ proc = "down" /\ mem = NoEntries(CacheKeys) /\ file = NoEntries(CacheKeys) /\ dirty = FALSE
  /\ ready = <<>> /\ waiting = {} /\ diskOk = TRUE /\ now = 0 /\ stored = 0
  /\ latest = NoEntries(CacheKeys) /\ overtaken = {}

Alive == proc # "down"

----------------------------------------------------------------------------
\* The process, its clock and its disk.
Start ==
  /\ proc = "down" /\ proc' = "starting"
  /\ UNCHANGED <<mem, file, dirty, ready, waiting, diskOk, now, stored, latest,
                 overtaken>>

Crash ==
  /\ Alive /\ proc' = "down" /\ mem' = NoEntries(CacheKeys) /\ dirty' = FALSE
  /\ ready' = <<>> /\ waiting' = {}
  /\ latest' = file /\ overtaken' = {}
  /\ UNCHANGED <<file, diskOk, now, stored>>

Clock ==
  /\ now < MaxTime /\ now' = now + 1
  /\ UNCHANGED <<proc, mem, file, dirty, ready, waiting, diskOk, stored, latest,
                 overtaken>>

DiskTurns ==
  /\ diskOk' = ~diskOk
  /\ UNCHANGED <<proc, mem, file, dirty, ready, waiting, now, stored, latest,
                 overtaken>>

----------------------------------------------------------------------------
\* _async_init: the file is read by a thread under _disk_lock, then its young
\* entries replace those in memory, and the background tasks start.
BeginLoad ==
  /\ proc = "starting" /\ proc' = "loading"
  /\ UNCHANGED <<mem, file, dirty, ready, waiting, diskOk, now, stored, latest,
                 overtaken>>

\* Mutant: every entry of the file is loaded, missing ones too.
LoadReplaces(readable) == [k \in CacheKeys |-> OnDisk(k, readable)]
LoadedEntries(readable) ==
  [k \in CacheKeys |-> IF OnDisk(k, readable) # NoEntry THEN file[k] ELSE mem[k]]

EndLoad(readable) ==
  /\ proc = "loading" /\ proc' = "on"
  /\ mem' = LoadedEntries(readable)
  /\ overtaken' = overtaken \cup {k \in CacheKeys : Older(mem'[k], mem[k])}
  /\ UNCHANGED <<file, dirty, ready, waiting, diskOk, now, stored, latest>>

\* Mutant: what is on disk wins over what is in memory.
SavedDiskFirst(readable) ==
  [k \in CacheKeys |-> IF OnDisk(k, readable) # NoEntry THEN file[k] ELSE mem[k]]
\* _save_to_disk merges what is in memory into what it can read of the file.
SavedEntries(readable) ==
  [k \in CacheKeys |-> IF mem[k] # NoEntry THEN mem[k] ELSE OnDisk(k, readable)]

\* _writer_loop: one turn that finds the cache dirty and can write.
Save(readable) ==
  /\ proc = "on" /\ dirty /\ diskOk
  /\ file' = SavedEntries(readable) /\ dirty' = FALSE
  /\ UNCHANGED <<proc, mem, ready, waiting, diskOk, now, stored, latest, overtaken>>

\* _cleanup_expired
Cleanup ==
  /\ proc = "on" /\ \E k \in CacheKeys : mem[k] # NoEntry /\ ~Valid(mem[k], MemoryTTL)
  /\ mem' = [k \in CacheKeys |-> IF Valid(mem[k], MemoryTTL) THEN mem[k] ELSE NoEntry]
  /\ overtaken' = overtaken \cup {k \in CacheKeys : Unsaved(k) /\ mem'[k] = NoEntry}
  /\ UNCHANGED <<proc, file, dirty, ready, waiting, diskOk, now, stored, latest>>

----------------------------------------------------------------------------
\* The synchronous calls: store and retrieve only schedule tasks.
Store(k) ==
  /\ Alive /\ stored < MaxStores /\ Len(ready) < MaxQueue
  /\ stored' = stored + 1
  /\ ready' = Append(ready, [op |-> "store", key |-> k, val |-> stored'])
  /\ UNCHANGED <<proc, mem, file, dirty, waiting, diskOk, now, latest, overtaken>>

\* A value in memory is returned; an expired one is dropped, and the file is
\* looked up for the next time.
RetrieveMisses(k) ==
  /\ Alive /\ Len(ready) < MaxQueue /\ ~Valid(mem[k], MemoryTTL)
  /\ mem' = [mem EXCEPT ![k] = NoEntry]
  /\ ready' = Append(ready, [op |-> "lookup", key |-> k, val |-> 0])
  /\ overtaken' = IF Unsaved(k) THEN overtaken \cup {k} ELSE overtaken
  /\ UNCHANGED <<proc, file, dirty, waiting, diskOk, now, stored, latest>>

\* _async_store
RunStore ==
  /\ Alive /\ ready # <<>> /\ Head(ready).op = "store" /\ ready' = Tail(ready)
  /\ LET t == Head(ready) IN
     /\ mem' = [mem EXCEPT ![t.key] = [val |-> t.val, ts |-> now]]
     /\ latest' = [latest EXCEPT ![t.key] = mem'[t.key]]
     /\ overtaken' = overtaken \ {t.key}
  /\ dirty' = TRUE
  /\ UNCHANGED <<proc, file, waiting, diskOk, now, stored>>

\* _check_disk_fallback: what the file has of the key replaces what is in memory.
LoadKey(k, readable) ==
  /\ mem' = IF OnDisk(k, readable) = NoEntry THEN mem ELSE [mem EXCEPT ![k] = file[k]]
  /\ overtaken' = IF Older(mem'[k], mem[k]) THEN overtaken \cup {k} ELSE overtaken
  /\ UNCHANGED <<proc, file, dirty, diskOk, now, stored, latest>>
RunLookup(readable) ==
  /\ Alive /\ ready # <<>> /\ Head(ready).op = "lookup" /\ ready' = Tail(ready)
  /\ IF proc = "loading"
     THEN /\ waiting' = waiting \cup {Head(ready).key}
          /\ UNCHANGED <<proc, mem, file, dirty, diskOk, now, stored, latest,
                         overtaken>>
     ELSE LoadKey(Head(ready).key, readable) /\ UNCHANGED waiting
Wake(k, readable) ==
  /\ k \in waiting /\ proc = "on" /\ waiting' = waiting \ {k}
  /\ LoadKey(k, readable) /\ UNCHANGED ready

CacheBackground ==
  \/ Start \/ Crash \/ Clock \/ DiskTurns \/ BeginLoad \/ Cleanup
  \/ \E readable \in BOOLEAN : EndLoad(readable) \/ Save(readable)

CacheNext ==
  \/ CacheBackground \/ RunStore
  \/ \E k \in CacheKeys : Store(k) \/ RetrieveMisses(k)
  \/ \E readable \in BOOLEAN :
       RunLookup(readable) \/ \E k \in CacheKeys : Wake(k, readable)

CacheSpec == CacheInit /\ [][CacheNext]_cacheVars

----------------------------------------------------------------------------
\* When nothing is marked to be written, the file has everything that is in
\* memory: whatever was loaded, looked up, stored and cleaned, failed writes
\* and restarts included (_writer_loop, _save_to_disk).
CleanMeansSaved == ~dirty => \A k \in CacheKeys : mem[k] \in {NoEntry, file[k]}

\* What is in memory of a key is the newest value it was given that no crash
\* lost, unless a look-up in the file overtook it; also when it expired in
\* memory and came back from the file.
MemoryIsNewest ==
  \A k \in CacheKeys \ overtaken : mem[k] \in {NoEntry, latest[k]}

\* No write gives a key of the file an older value than it had, and none drops
\* an entry before its time on disk is over, unless the file could not be read.
KeepsYoung ==
  \A k \in CacheKeys : Valid(file[k], DiskTTL) =>
    \/ file'[k] # NoEntry /\ file'[k].val >= file[k].val
    \/ file' = mem /\ mem[k] = NoEntry

\* The providers' cache: what is taken for saved is on file, memory holds the
\* newest value, and young entries survive every write of the file.
CacheSound == [](CleanMeansSaved /\ MemoryIsNewest) /\ [][KeepsYoung]_file
=============================================================================
