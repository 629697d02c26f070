---------------------------- MODULE ConfiguredSync ---------------------------
(***************************************************************************)
(* A mobile sync run resolves its configuration key by key from the device *)
(* store, through a cache, while settings may be changing the backend      *)
(* (SyncConfiguration): runCycle and the commit share no lock.             *)
(***************************************************************************)
EXTENDS SyncConfiguration

CONSTANT MaxSyncs    \* bound: sync runs
ASSUME SyncsConstant == MaxSyncs \in Nat

VARIABLES
    syncs,           \* runs so far
    syncing,
    need,            \* keys the run still has to read
    sampled,         \* <<value read from the device store>>, not yet cached, or <<>>
    got,             \* what it has read
    overlapped,      \* history: a transaction was under way during the latest run
    overtaken,       \* history: the key was written after the store was read for it
    late             \* history: keys whose cached value had been overtaken when it was cached

sync == <<syncs, syncing, need, sampled, got>>
history == <<overlapped, overtaken, late>>
allVars == <<vars, sync, history>>

InitSync ==
    /\ Init
    /\ syncs = 0 /\ syncing = FALSE /\ need = <<>> /\ sampled = <<>> /\ got = [k \in {} |-> 0]
    /\ overlapped = FALSE /\ overtaken = FALSE /\ late = {}

StartSync ==
    /\ ~syncing /\ syncs < MaxSyncs
    /\ syncs' = syncs + 1 /\ syncing' = TRUE
    /\ need' = <<"backend">> /\ sampled' = <<>> /\ got' = [k \in {} |-> 0]
    /\ overlapped' = (pc # "idle")
    /\ UNCHANGED <<vars, overtaken, late>>

(* What is read next: the keys of the backend, then those of the provider. *)
NextKeys(key, value) ==
    CASE key = "backend" /\ value = "file" -> <<"path", "bookmark">>
      [] key = "backend" /\ value = "webdav" -> <<"webdav", "password">>
      [] key = "backend" /\ value = "cloud" -> <<"provider">>
      [] key = "provider" /\ value = "dropbox" -> <<"dropbox">>
      [] key = "provider" /\ value # "dropbox" -> <<"cloud", "token">>
      [] OTHER -> <<>>

Got(value) ==
    /\ got' = [k \in DOMAIN got \cup {Head(need)} |-> IF k = Head(need) THEN value ELSE got[k]]
    /\ need' = Tail(need) \o NextKeys(Head(need), value)
    /\ UNCHANGED <<syncs, syncing, overlapped>>

(* readConfigValue: from the cache, or, when it has no value or only one that *)
(* is 30 seconds old, from the store and then into the cache.                 *)
ReadCached ==
    /\ syncing /\ need # <<>> /\ sampled = <<>> /\ Head(need) \in DOMAIN cache
    /\ Got(cache[Head(need)]) /\ UNCHANGED <<vars, sampled, overtaken, late>>
ReadStored ==
    /\ syncing /\ need # <<>> /\ sampled = <<>>
    /\ sampled' = <<stored[Head(need)]>> /\ overtaken' = FALSE
    /\ UNCHANGED <<vars, syncs, syncing, need, got, overlapped, late>>
CacheRead ==
    LET cached == {Head(need)} \ {"dropbox"} IN
    /\ sampled # <<>> /\ sampled' = <<>> /\ Got(sampled[1])
    /\ cache' = [k \in DOMAIN cache \cup cached |-> IF k \in cached THEN sampled[1] ELSE cache[k]]
    /\ late' = IF overtaken THEN late \cup cached ELSE late \ cached
    /\ overtaken' = FALSE
    /\ UNCHANGED <<stored, faults, transaction, pc, writes, errors, outcome>>

EndSync ==
    /\ syncing /\ need = <<>>
    /\ syncing' = FALSE /\ UNCHANGED <<vars, syncs, need, sampled, got, history>>

Configure ==
    /\ Commit \/ Rollback
    /\ overlapped' = (overlapped \/ syncing)
    /\ overtaken' = (sampled # <<>> /\ (overtaken \/ stored'[Head(need)] # stored[Head(need)]))
    /\ late' = late \cap DOMAIN cache'
    /\ UNCHANGED sync
CrashAll ==
    /\ Crash
    /\ syncing' = FALSE /\ need' = <<>> /\ sampled' = <<>>
    /\ overlapped' = FALSE /\ overtaken' = FALSE /\ late' = {}
    /\ UNCHANGED <<syncs, got>>

ConfiguredNext ==
    Configure \/ CrashAll \/ StartSync \/ ReadCached \/ ReadStored \/ CacheRead \/ EndSync

ConfiguredSpec == InitSync /\ [][ConfiguredNext]_allVars

(* A sync run that no transaction overlaps works with what is stored, however *)
(* many transactions and overlapped runs there were before it: a value that it *)
(* finds in the cache is an old one only where a read of the store, overtaken *)
(* by a write of that very key, was cached after the write had emptied it.    *)
SyncUsesStored ==
    syncing /\ need = <<>> /\ ~overlapped =>
        /\ \A k \in DOMAIN got \ late : got[k] = stored[k]
        /\ DOMAIN got \cap late = {} => got = Used(stored)

(* clearMobileSyncConfigCache, called after every write of a transaction, lets *)
(* no later run work with an older value.                                     *)
(* A claim the code does not keep (README, section 4); no run checks it.     *)
SyncUsesLatest == syncing /\ need = <<>> /\ ~overlapped => got = Used(stored)

(* The configuration a sync run talks to its backend with is one that a probe  *)
(* has proven ("Commits a transport only after its activation probe has        *)
(* succeeded", commitProvenSyncConfiguration), not the address of one setup    *)
(* with the password of another.                                               *)
(* A claim the code does not keep (README, section 4); no run checks it.     *)
SyncUsesProven ==
    syncing /\ need = <<>> /\ got["backend"] # "off" => got \in proven
==============================================================================
