------------------------- MODULE SyncConfiguration ---------------------------
(***************************************************************************)
(* commitProvenSyncConfiguration on the device store of the mobile apps: a *)
(* change of sync backend.  The backend key is the activation flag: sync   *)
(* is switched off, the transport settings and credentials are written and *)
(* read back, and one last write activates them.  After a failure what was *)
(* there before is restored, or sync stays off.                            *)
(*                                                                         *)
(* Every call of the device store may fail, a write with or without having *)
(* taken effect, and the process may die between any two of them.          *)
(***************************************************************************)
EXTENDS Naturals, Sequences, FiniteSets, Functions

CONSTANTS
    InitialSetups,   \* what may have been set up first: a subset of Setups
    Candidates,      \* what users choose: a subset of Setups
    MaxCommits,      \* bound: transactions
    MaxFaults        \* bound: failed calls in all

(* A "Keep" setup is entered without its password or token, which stays as it *)
(* is; "bookmark" is a folder with a security-scoped bookmark.                *)
Setups == {"file", "bookmark", "webdav", "webdavKeep", "selfhosted", "selfhostedKeep",
           "dropbox", "cloudkit"}

ASSUME ConfigurationConstants ==
    /\ InitialSetups \subseteq Setups /\ Candidates \subseteq Setups
    /\ MaxCommits \in Nat /\ MaxFaults \in Nat

(* CONFIGURATION_KEYS and the secrets; a URL stands for the keys written with *)
(* it.  0 is "not set".                                                       *)
Secrets == {"password", "token"}
Keys == {"backend", "path", "bookmark", "webdav", "provider", "cloud", "dropbox"} \cup Secrets
Fields == {"syncPath", "webdav", "cloud", "cloudProvider"}
FieldKeys ==
    [syncPath |-> {"path", "bookmark"}, webdav |-> {"webdav", "password"},
     cloud |-> {"cloud", "token"}, cloudProvider |-> {"provider"}]

VARIABLES
    stored,          \* the device store
    pc,              \* where the transaction is, "idle" if there is none
    commits,         \* transactions so far
    candidate,       \* what it is to activate
    previous,        \* the snapshot it may have to restore
    required,        \* secrets that must be readable
    touched,         \* the fields it may have changed
    writes,          \* port calls left to do: each a field and its device-store writes
    tokensBefore,    \* <<the Dropbox tokens that were replaced>>, or <<>>
    errors,          \* what went wrong in the rollback
    outcome,         \* of the last transaction
    faults,          \* failed calls so far
    cache,           \* configuration values that sync runs have read
    proven,          \* history: the setups a probe has proven, as a backend uses them
    before           \* history: the device store when the transaction began

store == <<stored, cache, faults>>
transaction == <<commits, candidate, previous, required, touched, tokensBefore, proven, before>>
vars == <<store, transaction, pc, writes, errors, outcome>>

BackendOf(c) ==
    CASE c \in {"file", "bookmark"} -> "file"
      [] c \in {"webdav", "webdavKeep"} -> "webdav"
      [] c \in {"selfhosted", "selfhostedKeep", "dropbox"} -> "cloud"
      [] OTHER -> "cloudkit"

(* The keys a backend works with. *)
UsedKeys(values) ==
    CASE values["backend"] = "file" -> {"path", "bookmark"}
      [] values["backend"] = "webdav" -> {"webdav", "password"}
      [] values["backend"] = "cloud" ->
            {"provider"} \cup IF values["provider"] = "dropbox" THEN {"dropbox"}
                              ELSE {"cloud", "token"}
      [] OTHER -> {}
Used(values) == [k \in UsedKeys(values) \cup {"backend"} |-> values[k]]

Overwrite(values, w) == [k \in DOMAIN values |-> IF k \in DOMAIN w THEN w[k] ELSE values[k]]
Put(k, v) == [x \in {k} |-> v]

(* Mutation of NewValues: the backend in the provider's slot. *)
NewValuesMixedUp(c, n, values) ==
    CASE c = "file" -> [path |-> n, bookmark |-> 0]
      [] c = "bookmark" -> [path |-> n, bookmark |-> n]
      [] BackendOf(c) = "webdav" -> [webdav |-> n, password |-> n]
      [] OTHER -> [cloud |-> n, token |-> n, provider |-> BackendOf(c)]

(* What a candidate sets; n makes its values new ones. *)
NewValues(c, n, values) ==
    CASE c = "file" -> [path |-> n, bookmark |-> 0]
      [] c = "bookmark" -> [path |-> n, bookmark |-> n]
      [] c = "webdav" -> [webdav |-> n, password |-> n]
      [] c = "webdavKeep" -> [webdav |-> n, password |-> values["password"]]
      [] c = "selfhosted" -> [cloud |-> n, token |-> n, provider |-> "selfhosted"]
      [] c = "selfhostedKeep" -> [cloud |-> n, token |-> values["token"], provider |-> "selfhosted"]
      [] c = "dropbox" -> [provider |-> "dropbox"]
      [] OTHER -> [provider |-> "selfhosted"]

FieldsOf(c) ==
    CASE BackendOf(c) = "file" -> <<"syncPath">>
      [] BackendOf(c) = "webdav" -> <<"webdav">>
      [] c \in {"selfhosted", "selfhostedKeep"} -> <<"cloud", "cloudProvider">>
      [] OTHER -> <<"cloudProvider">>

(* The whole setup, as the probe has seen it work. *)
ProvenSetup(c, n, values) ==
    Used(Overwrite(Overwrite(values, NewValues(c, n, values)),
                   [backend |-> BackendOf(c), dropbox |-> n]))

Unset == [k \in Keys |-> CASE k = "backend" -> "off" [] k = "provider" -> "selfhosted" [] OTHER -> 0]

Init ==
    /\ \E c \in InitialSetups, used \in {Unset, [Unset EXCEPT !["path"] = 1, !["webdav"] = 1,
                !["password"] = 1, !["cloud"] = 1, !["token"] = 1, !["dropbox"] = 1]} :
          stored = [Overwrite(used, ProvenSetup(c, 1, used)) EXCEPT
                       !["provider"] = IF c = "cloudkit" THEN "cloudkit" ELSE @]
    /\ proven = {Used(stored)} /\ before = stored
    /\ pc = "idle" /\ commits = 0 /\ candidate = "file" /\ outcome = "none" /\ faults = 0
    /\ previous = [values |-> [k \in Keys \ {"dropbox"} |-> Unset[k]], opaque |-> {}]
    /\ touched = {} /\ required = {} /\ writes = <<>> /\ tokensBefore = <<>> /\ errors = {}
    /\ cache = [k \in {} |-> 0]

------------------------------------------------------------------------------
(* The port *)

Fault == faults < MaxFaults /\ faults' = faults + 1
(* Mutation of ClearCache: nothing is cleared. *)
CacheKept == UNCHANGED cache
ClearCache == cache' = [k \in {} |-> 0]

(* A call that writes and then clears the configuration cache. *)
WriteDone(w) == stored' = Overwrite(stored, w) /\ ClearCache /\ UNCHANGED faults
WriteFails(w) ==
    Fault /\ stored' \in {stored, Overwrite(stored, w)} /\ UNCHANGED cache

(* readConfiguration: a secret that cannot be read is opaque, which is an     *)
(* error if it is required.  normalizeCloudProvider knows no "cloudkit".      *)
Snapshot(opaque) ==
    [values |-> [k \in Keys \ {"dropbox"} |->
        IF k \in opaque THEN 0
        ELSE IF k = "provider" /\ stored[k] # "dropbox" THEN "selfhosted" ELSE stored[k]],
     opaque |-> opaque]

ReadDone(opaque, secrets) ==
    /\ opaque \subseteq Secrets \ secrets /\ faults + Cardinality(opaque) <= MaxFaults
    /\ faults' = faults + Cardinality(opaque)
    /\ UNCHANGED <<stored, cache>>
ReadFails == Fault /\ UNCHANGED <<stored, cache>>

(* configurationMatches *)
Matches(actual, values, opaque, key) ==
    \/ key \in opaque
    \/ key \notin actual.opaque /\ actual.values[key] = values[key]
ConfigurationMatches(actual, values, opaque) ==
    \A k \in Keys \ {"dropbox"} : Matches(actual, values, opaque, k)
(* markChangedTransportFields *)
ChangedFields(actual, values, opaque) ==
    {f \in Fields : \E k \in FieldKeys[f] : ~Matches(actual, values, opaque, k)}

(* The device-store writes of one port call; the port stores "cloudkit" as    *)
(* the provider while such a candidate is being committed.                    *)
FieldWrites(f, values) ==
    CASE f = "syncPath" ->
            IF values["path"] # 0 /\ values["bookmark"] # 0
            THEN <<[path |-> values["path"], bookmark |-> values["bookmark"]]>>
            ELSE <<Put("path", values["path"]), Put("bookmark", values["bookmark"])>>
      [] f = "webdav" -> <<Put("webdav", values["webdav"]), Put("password", values["password"])>>
      [] f = "cloud" -> <<Put("cloud", values["cloud"]), Put("token", values["token"])>>
      [] OTHER -> <<Put("provider", IF candidate = "cloudkit" THEN "cloudkit"
                                    ELSE values["provider"])>>
PortCall(f, values) == [field |-> f, writes |-> FieldWrites(f, values)]

------------------------------------------------------------------------------
(* The commit *)

To(p) == pc' = p /\ UNCHANGED <<writes, errors, outcome>>
End(o) == pc' = "idle" /\ outcome' = o /\ UNCHANGED <<writes, errors>>

(* writeBackend, and readConfiguration with a comparison *)
WriteBackend(p, backend, done, failed) ==
    /\ pc = p
    /\ \/ WriteDone(Put("backend", backend)) /\ To(done)
       \/ WriteFails(Put("backend", backend)) /\ To(failed)
    /\ UNCHANGED transaction
ReadBack(p, secrets, values, opaque, same, failed) ==
    /\ pc = p
    /\ \/ ReadFails /\ To(failed)
       \/ \E unread \in SUBSET Secrets :
             /\ ReadDone(unread, secrets)
             /\ To(IF ConfigurationMatches(Snapshot(unread), values, opaque) THEN same ELSE failed)
    /\ UNCHANGED transaction

Disabled(values) == [values EXCEPT !["backend"] = "off"]
(* The disabled candidate; the secrets it writes are no longer opaque. *)
ExpectedValues ==
    Disabled(Overwrite(previous.values, NewValues(candidate, commits + 1, previous.values)))
ExpectedOpaque == previous.opaque \ DOMAIN NewValues(candidate, commits + 1, previous.values)
VerificationRequirements == required \cup {s \in Secrets : \E f \in touched : s \in FieldKeys[f]}

Carried(c) == CASE c = "webdavKeep" -> {"password"}
                [] c = "selfhostedKeep" -> {"token"}
                [] OTHER -> {}
(* getCandidateSecretRequirements: a secret to carry over, unless there was  *)
(* none.  The mobile port reports every token as one to remember.            *)
SecretRequirements(c, values) ==
    {s \in Carried(c) : s = "password" => \/ values["backend"] = "webdav"
                                          \/ values["webdav"] # 0 \/ values[s] # 0}

Begin(c) ==
    /\ pc = "idle" /\ commits < MaxCommits
    /\ commits' = commits + 1 /\ candidate' = c
    /\ touched' = {} /\ tokensBefore' = <<>> /\ errors' = {} /\ writes' = <<>>
    /\ proven' = proven \cup {ProvenSetup(c, commits + 2, stored)}
    /\ before' = stored
    /\ \/ /\ ReadFails
          /\ pc' = "idle" /\ outcome' = "failed" /\ UNCHANGED <<previous, required>>
       \/ \E unread \in SUBSET Secrets :
             /\ ReadDone(unread, {})
             /\ previous' = Snapshot(unread)
             /\ required' = SecretRequirements(c, Snapshot(unread).values)
             /\ pc' = IF required' # {} THEN "require" ELSE "disable"
             /\ outcome' = "none"

(* The secret to be carried over has to be readable. *)
Require ==
    /\ pc = "require"
    /\ \/ ReadFails /\ End("failed") /\ UNCHANGED previous
       \/ \E unread \in SUBSET Secrets :
             ReadDone(unread, required) /\ previous' = Snapshot(unread) /\ To("disable")
    /\ UNCHANGED <<commits, candidate, touched, tokensBefore, proven, required, before>>

Disable == WriteBackend("disable", "off", "disabled", "undo")

CandidateCalls ==
    [i \in DOMAIN FieldsOf(candidate) |-> PortCall(FieldsOf(candidate)[i], ExpectedValues)]

(* Nothing but the flag may have changed; without a secret to carry over     *)
(* there is nothing to write.                                                *)
VerifyDisabled ==
    /\ pc = "disabled"
    /\ \/ ReadFails /\ To("undo") /\ UNCHANGED touched
       \/ \E unread \in SUBSET Secrets :
             /\ ReadDone(unread, required)
             /\ LET changed == ChangedFields(Snapshot(unread), Disabled(previous.values),
                                             previous.opaque)
                IN  /\ touched' = changed
                    /\ IF \/ stored["backend"] # "off" \/ changed # {}
                          \/ Carried(candidate) \cap previous.opaque # {}
                       THEN To("undo")
                       ELSE pc' = "transport" /\ writes' = CandidateCalls
                            /\ UNCHANGED <<errors, outcome>>
    /\ UNCHANGED <<commits, candidate, previous, tokensBefore, proven, required, before>>

(* The next write of the first port call; it clears the cache when it is done. *)
NextWrite == Head(Head(writes).writes)
WriteNext ==
    LET rest == Tail(Head(writes).writes) IN
    /\ stored' = Overwrite(stored, NextWrite) /\ UNCHANGED faults
    /\ IF rest = <<>> THEN writes' = Tail(writes) /\ ClearCache
       ELSE writes' = [writes EXCEPT ![1].writes = rest] /\ UNCHANGED cache

(* Mutation of WriteTransport: a field counts as touched only once it is written. *)
WriteTransportTouchedLate ==
    /\ pc = "transport" /\ writes # <<>>
    /\ \/ WriteNext /\ touched' = touched \cup {Head(writes).field} /\ UNCHANGED <<pc, errors, outcome>>
       \/ WriteFails(NextWrite) /\ To("undo") /\ UNCHANGED touched
    /\ UNCHANGED <<commits, candidate, previous, tokensBefore, proven, required, before>>

(* writeCandidateTransport *)
WriteTransport ==
    /\ pc = "transport" /\ writes # <<>>
    /\ touched' = touched \cup {Head(writes).field}
    /\ \/ WriteNext /\ UNCHANGED <<pc, errors, outcome>>
       \/ WriteFails(NextWrite) /\ To("undo")
    /\ UNCHANGED <<commits, candidate, previous, tokensBefore, proven, required, before>>

VerifyTransport ==
    /\ writes = <<>>
    /\ ReadBack("transport", VerificationRequirements, ExpectedValues, ExpectedOpaque,
                IF candidate = "dropbox" THEN "promote" ELSE "activate", "undo")

(* promoteDropboxCredentials keeps the tokens it replaces in memory. *)
Promote ==
    /\ pc = "promote"
    /\ \/ ReadFails /\ To("undo") /\ UNCHANGED tokensBefore
       \/ ReadDone({}, {}) /\ To("saveTokens") /\ tokensBefore' = <<stored["dropbox"]>>
    /\ UNCHANGED <<commits, candidate, previous, touched, proven, required, before>>
SaveTokens ==
    /\ pc = "saveTokens"
    /\ \/ WriteDone(Put("dropbox", commits + 1)) /\ To("promoted")
       \/ WriteFails(Put("dropbox", commits + 1)) /\ To("undo")
    /\ UNCHANGED transaction
VerifyPromoted ==
    ReadBack("promoted", VerificationRequirements, ExpectedValues, ExpectedOpaque,
             "activate", "undo")

Activate == WriteBackend("activate", BackendOf(candidate), "activated", "undo")

(* The commit point. *)
VerifyActive ==
    ReadBack("activated", VerificationRequirements,
             [ExpectedValues EXCEPT !["backend"] = BackendOf(candidate)], ExpectedOpaque,
             "committed", "undo")
Committed == pc = "committed" /\ End("committed") /\ UNCHANGED <<store, transaction>>

------------------------------------------------------------------------------
(* The rollback *)

Undo == WriteBackend("undo", "off", "undone", "undoAgain")
VerifyUndo ==
    /\ pc = "undone"
    /\ \/ ReadDone({}, {}) /\ To(IF stored["backend"] = "off" THEN "undoTokens" ELSE "undoAgain")
       \/ ReadFails /\ To("undoAgain")
    /\ UNCHANGED transaction
UndoAgain ==
    /\ pc = "undoAgain"
    /\ WriteDone(Put("backend", "off")) \/ WriteFails(Put("backend", "off"))
    /\ pc' = "undoTokens" /\ errors' = errors \cup {"disable"}
    /\ UNCHANGED <<transaction, writes, outcome>>

(* Sync could not be switched off: nothing more is touched. *)
AfterTokens(errs) ==
    /\ errors' = errs /\ UNCHANGED writes
    /\ IF "disable" \in errs THEN pc' = "idle" /\ outcome' = "disabled"
                             ELSE pc' = "restore" /\ UNCHANGED outcome

(* rollbackDropboxCredentials *)
RollBackTokens ==
    /\ pc = "undoTokens" /\ UNCHANGED transaction
    /\ \/ tokensBefore = <<>> /\ AfterTokens(errors) /\ UNCHANGED store
       \/ /\ tokensBefore # <<>>
          /\ \/ WriteDone(Put("dropbox", tokensBefore[1])) /\ AfterTokens(errors)
             \/ /\ WriteFails(Put("dropbox", tokensBefore[1]))
                /\ AfterTokens(errors \cup {"credentials"})

(* restoreLastProvenConfiguration *)
DisableForRestore == WriteBackend("restore", "off", "restorable", "keepDisabled")

(* An opaque secret cannot be written back, unless there was nothing. *)
CannotRestore(f) ==
    \/ /\ f = "webdav" /\ "password" \in previous.opaque
       /\ previous.values["backend"] = "webdav" \/ previous.values["webdav"] # 0
    \/ f = "cloud" /\ "token" \in previous.opaque
RestoreCalls ==
    LET Calls(f) == IF f \in touched /\ ~CannotRestore(f)
                    THEN <<PortCall(f, previous.values)>> ELSE <<>>
    IN  Calls("syncPath") \o Calls("webdav") \o Calls("cloud") \o Calls("cloudProvider")

BeginRestore ==
    /\ pc = "restorable"
    /\ \/ ReadFails /\ To("keepDisabled")
       \/ /\ ReadDone({}, {}) /\ stored["backend"] = "off"
          /\ pc' = "restoring" /\ writes' = RestoreCalls /\ UNCHANGED outcome
          /\ errors' = errors \cup IF \E f \in touched : CannotRestore(f) THEN {"restore"} ELSE {}
    /\ UNCHANGED transaction

(* A failed call is noted and the next one attempted. *)
Restore ==
    /\ pc = "restoring" /\ writes # <<>>
    /\ \/ WriteNext /\ UNCHANGED errors
       \/ WriteFails(NextWrite) /\ writes' = Tail(writes) /\ errors' = errors \cup {"restore"}
    /\ UNCHANGED <<transaction, pc, outcome>>

Restored == IF "credentials" \in errors \/ previous.values["backend"] = "off"
            THEN "rolledBack" ELSE "reactivate"
(* Mutation of VerifyRestored: what is restored is not looked at. *)
TrustRestored ==
    pc = "restoring" /\ writes = <<>> /\ To(Restored) /\ UNCHANGED <<store, transaction>>
VerifyRestored ==
    /\ writes = <<>>
    /\ \/ "restore" \notin errors
          /\ ReadBack("restoring", required, Disabled(previous.values), previous.opaque,
                      Restored, "keepDisabled")
       \/ /\ pc = "restoring" /\ "restore" \in errors
          /\ To("keepDisabled") /\ UNCHANGED <<store, transaction>>

Reactivate == WriteBackend("reactivate", previous.values["backend"], "reactivated", "keepDisabled")
VerifyReactivated ==
    ReadBack("reactivated", required, previous.values, previous.opaque,
             "rolledBack", "keepDisabled")
RolledBack ==
    /\ pc = "rolledBack"
    /\ End(IF "credentials" \in errors THEN "disabled" ELSE "failed")
    /\ UNCHANGED <<store, transaction>>

(* Mutation of KeepDisabled: reported like any failed commit. *)
KeepDisabledQuietly ==
    /\ pc = "keepDisabled"
    /\ WriteDone(Put("backend", "off")) \/ WriteFails(Put("backend", "off"))
    /\ End("failed") /\ UNCHANGED transaction
KeepDisabled ==
    /\ pc = "keepDisabled"
    /\ WriteDone(Put("backend", "off")) \/ WriteFails(Put("backend", "off"))
    /\ End("disabled") /\ UNCHANGED transaction

------------------------------------------------------------------------------
(* The process dies. *)
Crash ==
    /\ pc # "idle" /\ End("crashed") /\ ClearCache
    /\ UNCHANGED <<stored, faults, transaction>>

Commit ==
    \/ \E c \in Candidates : Begin(c)
    \/ Require \/ Disable \/ VerifyDisabled \/ WriteTransport \/ VerifyTransport
    \/ Promote \/ SaveTokens \/ VerifyPromoted \/ Activate \/ VerifyActive \/ Committed
Rollback ==
    \/ Undo \/ VerifyUndo \/ UndoAgain \/ RollBackTokens
    \/ DisableForRestore \/ BeginRestore \/ Restore \/ VerifyRestored
    \/ Reactivate \/ VerifyReactivated \/ RolledBack \/ KeepDisabled
Next == Commit \/ Rollback \/ Crash

Spec == Init /\ [][Next]_vars

------------------------------------------------------------------------------
Points == {"idle", "require", "disable", "disabled", "transport", "promote", "saveTokens",
           "promoted", "activate", "activated", "committed", "undo", "undone", "undoAgain",
           "undoTokens", "restore", "restorable", "restoring", "reactivate", "reactivated",
           "rolledBack", "keepDisabled"}

(* Every key holds a value of its own kind. *)
WellTyped(values, keys) ==
    /\ values = [k \in keys |-> values[k]]
    /\ values["backend"] \in {"off", "file", "webdav", "cloud", "cloudkit"}
    /\ values["provider"] \in {"selfhosted", "dropbox", "cloudkit"}
    /\ \A k \in keys \ {"backend", "provider"} : values[k] \in 0..(MaxCommits + 1)

TypeOK ==
    /\ WellTyped(stored, Keys) /\ WellTyped(before, Keys)
    /\ WellTyped(previous.values, Keys \ {"dropbox"}) /\ previous.opaque \subseteq Secrets
    /\ pc \in Points /\ candidate \in Setups
    /\ touched \subseteq Fields /\ required \subseteq Secrets
    /\ errors \subseteq {"disable", "credentials", "restore"}
    /\ outcome \in {"none", "committed", "failed", "disabled", "crashed"}
    /\ commits \in 0..MaxCommits /\ faults \in 0..MaxFaults

(* "Transport settings and credentials change only while that flag is durably *)
(* off" (commitProvenMobileSyncConfiguration): whatever fails and whenever the *)
(* process dies, an active backend finds exactly a setup that a probe has      *)
(* proven, never a mixture of two.                                             *)
ActiveIsProven == stored["backend"] # "off" => Used(stored) \in proven

(* "The prior complete snapshot is restored and verified after every failed    *)
(* write" (commitProvenSyncConfiguration): a transaction that reports success  *)
(* has put the candidate in place, one that reports an ordinary failure has    *)
(* left everything as it was, but for a password that belonged to no server.   *)
OutcomeIsTrue ==
    pc = "idle" =>
        /\ outcome = "committed" =>
              stored = Overwrite(Overwrite(before, NewValues(candidate, commits + 1, before)),
                           [k \in {"backend"} \cup IF candidate = "dropbox" THEN {"dropbox"} ELSE {}
                               |-> IF k = "backend" THEN BackendOf(candidate) ELSE commits + 1])
        /\ outcome = "failed" =>
              \A k \in Keys : stored[k] = before[k] \/ (k = "password" /\ before["webdav"] = 0)

(* One failed call is always undone: sync is left disabled only when the       *)
(* rollback has met a failure as well.                                         *)
OneFaultIsUndone == outcome = "disabled" => faults > 1

(* SyncConfigurationDisabledError: "sync has deliberately been left disabled". *)
(* A claim the code does not keep (README, section 4); no run checks it.     *)
DisabledMeansOff == pc = "idle" /\ outcome = "disabled" => stored["backend"] = "off"

------------------------------------------------------------------------------
(* Why that is so, step by step. *)

(* A reading of the store is the store itself, but for secrets it could not   *)
(* read and for "cloudkit".                                                   *)
SnapshotTrue ==
    pc # "idle" =>
        /\ \A k \in Keys \ {"dropbox"} : k \notin previous.opaque => previous.values[k] = before[k]
        /\ previous.opaque # {} => faults > 0

(* Both setups that a transaction may leave active have been proven. *)
BothProven ==
    pc # "idle" =>
        /\ candidate \in Candidates
        /\ before["backend"] # "off" => Used(before) \in proven
        /\ ProvenSetup(candidate, commits + 1, before) \in proven

(* What is not marked as touched is as it was. *)
UntouchedKept ==
    pc # "idle" =>
        /\ \A f \in Fields \ touched : \A k \in FieldKeys[f] : stored[k] = before[k]
        /\ IF tokensBefore = <<>> THEN stored["dropbox"] = before["dropbox"]
           ELSE tokensBefore = <<before["dropbox"]>> /\ candidate = "dropbox"

(* Where in a transaction the flag is off, and what it is elsewhere. *)
FlagInv ==
    /\ pc \in {"disabled", "transport", "promote", "saveTokens", "promoted", "activate",
              "undone", "restore", "restorable", "restoring", "reactivate"} =>
          stored["backend"] = "off"
    /\ pc \in {"require", "disable"} =>
          stored["backend"] = before["backend"] /\ touched = {} /\ tokensBefore = <<>>
    /\ pc = "disabled" => touched = {} /\ tokensBefore = <<>>
    /\ pc \in {"activated", "committed"} => stored["backend"] = BackendOf(candidate)
    /\ pc = "undoTokens" =>
          stored["backend"] = "off" \/ ("disable" \in errors /\ (tokensBefore # <<>> => faults > 2))
    /\ pc \in {"reactivate", "reactivated"} =>
          "credentials" \notin errors /\ before["backend"] # "off"
    /\ pc = "reactivated" => stored["backend"] = before["backend"]
    /\ pc = "rolledBack" =>
          stored["backend"] = IF "credentials" \in errors THEN "off" ELSE before["backend"]

(* The keys of the calls that are still to be made. *)
PendingWrites == UNION {Range(writes[i].writes) : i \in DOMAIN writes}
Pending == UNION {DOMAIN w : w \in PendingWrites}
PendingFor(values) ==
    \A i \in DOMAIN writes :
        /\ writes[i].field \in Fields /\ writes[i].writes # <<>>
        /\ \A w \in Range(writes[i].writes) :
              DOMAIN w \subseteq FieldKeys[writes[i].field] /\ \A k \in DOMAIN w : w[k] = values[k]

(* The candidate is written key by key, nothing else is. *)
Target == NewValues(candidate, commits + 1, before)
CandidateWritten ==
    pc \in {"transport", "promote", "saveTokens", "promoted", "activate", "activated", "committed"} =>
        /\ Carried(candidate) \cap previous.opaque = {}
        /\ pc = "transport" => Pending \subseteq DOMAIN Target /\ PendingFor(Target)
        /\ \A k \in Keys \ {"backend", "dropbox"} :
              IF k \in DOMAIN Target
              THEN stored[k] = Target[k] \/ (pc = "transport" /\ k \in Pending)
              ELSE stored[k] = before[k]
        /\ pc \in {"promote", "saveTokens", "promoted"} => candidate = "dropbox"
        /\ pc \in {"transport", "promote"} => tokensBefore = <<>>
        /\ pc = "saveTokens" => tokensBefore # <<>>
        /\ IF candidate = "dropbox"
           THEN pc \in {"promoted", "activate", "activated", "committed"} =>
                    stored["dropbox"] = commits + 1 /\ tokensBefore # <<>>
           ELSE tokensBefore = <<>>

(* A rollback is due to a failure, and meets another one before it leaves     *)
(* anything as it should not be.                                              *)
RollbackInv ==
    /\ pc \in {"undo", "undone", "undoAgain", "undoTokens", "restore", "restorable", "restoring",
              "reactivate", "reactivated", "rolledBack", "keepDisabled"} =>
          faults > 0 /\ (faults = 1 => errors = {} /\ (touched = {} \/ previous.opaque = {}))
    /\ pc \in {"undoAgain", "keepDisabled"} => faults > 1
    /\ pc \in {"restore", "restorable", "restoring", "reactivate", "reactivated", "rolledBack"} =>
          "credentials" \in errors \/ stored["dropbox"] = before["dropbox"]
    /\ pc \in {"idle", "undoTokens", "restore", "restorable", "restoring", "reactivate",
              "reactivated", "rolledBack", "keepDisabled"} \/ errors = {}
    /\ pc = "restoring" =>
          /\ PendingFor(previous.values) /\ \A i \in DOMAIN writes : writes[i].field \in touched
          /\ "restore" \notin errors => \A f \in touched : ~CannotRestore(f)
          /\ faults = 1 => \A f \in touched : \A k \in FieldKeys[f] :
                               stored[k] = previous.values[k] \/ k \in Pending
    /\ pc \in {"reactivate", "reactivated", "rolledBack"} =>
          \A k \in Keys \ {"backend", "dropbox"} :
              \/ stored[k] = before[k]
              \/ /\ k = "password" /\ k \in previous.opaque
                 /\ before["webdav"] = 0 /\ before["backend"] # "webdav"

(* After every step, failure or crash: only a proven setup is active, the    *)
(* user is told what is stored, and one failure is undone.                   *)
TransactionInv ==
    /\ TypeOK /\ ActiveIsProven /\ OutcomeIsTrue /\ OneFaultIsUndone
    /\ SnapshotTrue /\ BothProven /\ UntouchedKept /\ FlagInv /\ CandidateWritten /\ RollbackInv
==============================================================================
