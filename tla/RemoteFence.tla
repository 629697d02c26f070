---------------------------- MODULE RemoteFence -----------------------------
(***************************************************************************)
(* packages/core/src/sync-remote-fence.ts: the lease that devices sharing  *)
(* one WebDAV or Dropbox folder take before they change remote files.      *)
(*                                                                         *)
(* The lease is one small remote file.  A client may only replace or       *)
(* delete the exact version it read (compare and swap); expiry is judged   *)
(* by the provider's Date header (now, one clock).  Every port call is a   *)
(* request that the server may serve late or never: the client gives up    *)
(* with Fail while its request stays in the network and may still land.    *)
(* Reads are served at one instant and received at a later one, and the    *)
(* client charges the whole round trip (readAge) against its authority.    *)
(*                                                                         *)
(* After assertHeld(Horizon) the holder sends one provider mutation, which *)
(* lands within RequestTimeout or not at all.                              *)
(***************************************************************************)
EXTENDS Integers, FiniteSets

CONSTANTS
    Clients,
    NoLease,         \* the file is absent
    Foreign,         \* the lease of a record some other program left behind
    Heartbeat,       \* heartbeatMs of each client, 0 if it advertises none
    TTL,             \* ttlMs
    MaxTTL,          \* MAX_TTL_MS + MAX_FUTURE_EXPIRY_TOLERANCE_MS
    Jitter,          \* ABANDONED_JITTER_MARGIN_MS
    Horizon,         \* SYNC_REMOTE_MUTATION_REQUEST_HORIZON_MS
    RequestTimeout,  \* the bound on one provider request
    MaxAttempts,     \* maxAttempts of acquireSyncRemoteMutationFence
    Leftovers,       \* the foreign records the file may hold at the start
    MaxTime,         \* bound: clock
    MaxLeases,       \* bound: leases one client asks for
    MaxVersion,      \* bound: versions of the fence file
    MaxNetwork       \* bound: requests in the network, strays included

ASSUME FenceTiming ==
    /\ Heartbeat \in [Clients -> Nat]
    /\ TTL \in Nat /\ MaxTTL \in Nat /\ Jitter \in Nat /\ Horizon \in Nat
    /\ RequestTimeout \in Nat /\ MaxAttempts \in Nat
    /\ \A c \in Clients : Heartbeat[c] < TTL
    /\ TTL <= MaxTTL /\ Horizon < TTL /\ RequestTimeout < Horizon
    /\ MaxTime \in Nat /\ MaxLeases \in Nat /\ MaxVersion \in Nat /\ MaxNetwork \in Nat

Leases == Clients \X Nat

ASSUME FenceLeases ==
    /\ NoLease \notin Leases /\ Foreign \notin Leases /\ NoLease # Foreign
    /\ Leftovers \subseteq [lease : {Foreign}, expiresAt : Nat, heartbeat : Nat, renewedAt : {0}]

VARIABLES
    now,             \* the provider's clock
    file,            \* the record in the fence file
    version,         \* its version, 0 when the file is absent
    lastVersion,     \* the last version the provider gave out
    network,         \* write and remove requests not yet served
    pc,              \* what each client is doing
    lease,           \* the lease it holds or asks for
    attempt,         \* reads made by this acquisition
    advertised,      \* advertisedHeartbeatMs
    lost,            \* lostError is set
    sentAt,          \* when it sent the outstanding read
    snap,            \* the answer to that read
    request,         \* the write or remove it awaits
    reply,           \* the answer to that
    mutation         \* its latest provider mutation: under which lease, until when

clientVars == <<pc, lease, attempt, advertised, lost, sentAt, snap, request, reply>>
serverVars == <<file, version, lastVersion>>
fenceVars == <<now, serverVars, network, clientVars, mutation>>

-----------------------------------------------------------------------------
Absent == [lease |-> NoLease, expiresAt |-> 0, heartbeat |-> 0, renewedAt |-> 0]
Records == [lease : Leases \cup {NoLease, Foreign}, expiresAt : Nat, heartbeat : Nat, renewedAt : Nat]
NoSnap == [ready |-> FALSE, rec |-> Absent, version |-> 0, serverNow |-> 0]
NoMutation == [open |-> FALSE, lease |-> NoLease, until |-> 0]
NoRequest == [kind |-> "none", lease |-> NoLease, expected |-> 0, rec |-> Absent]
Requests == [kind : {"none", "write", "remove"}, lease : Leases \cup {NoLease},
             expected : Nat, rec : Records]

Reading == {"acqRead", "acqVerify", "assertRead", "coverRead", "coverVerify", "renewRead",
            "renewVerify", "relRead"}
Requesting == {"acqWrite", "coverWrite", "renewWrite", "relRemove"}

AbandonedAfterMissedHeartbeats == 3

(* The last moment at which a waiter still has to respect the record. *)
AbandonmentDeadline(rec) ==
    rec.renewedAt + rec.heartbeat * AbandonedAfterMissedHeartbeats + Jitter

(* Mutation of SafeDeadline: only the expiry counts, as before heartbeats. *)
DeadlineIsExpiry(rec) == rec.expiresAt

SafeDeadline(rec) ==
    IF rec.heartbeat = 0 \/ rec.expiresAt <= AbandonmentDeadline(rec)
    THEN rec.expiresAt
    ELSE AbandonmentDeadline(rec)

(* Mutation of ImpossibleFutureExpiry: a lease just written already counts. *)
FreshIsImpossible(rec, t) == rec.expiresAt - t >= TTL

ImpossibleFutureExpiry(rec, t) == rec.expiresAt - t > MaxTTL
AbandonedRecord(rec, t) == rec.heartbeat > 0 /\ t > AbandonmentDeadline(rec)

Busy(rec, t) ==
    /\ rec.lease # NoLease
    /\ rec.expiresAt > t
    /\ ~ImpossibleFutureExpiry(rec, t)
    /\ ~AbandonedRecord(rec, t)

LeaseRecord(c, t) ==
    [lease |-> lease[c], expiresAt |-> t + TTL, heartbeat |-> advertised[c], renewedAt |-> t]

ReadAge(c) == now - sentAt[c]
Longer(a, b) == IF a >= b THEN a ELSE b

-----------------------------------------------------------------------------
FenceInit ==
    /\ now = 0
    /\ file \in Leftovers \cup {Absent}
    /\ version = IF file = Absent THEN 0 ELSE 1
    /\ lastVersion = 1
    /\ network = {}
    /\ pc = [c \in Clients |-> "idle"]
    /\ lease = [c \in Clients |-> <<c, 0>>]
    /\ attempt = [c \in Clients |-> 0]
    /\ advertised = Heartbeat
    /\ lost = [c \in Clients |-> FALSE]
    /\ sentAt = [c \in Clients |-> 0]
    /\ snap = [c \in Clients |-> NoSnap]
    /\ request = [c \in Clients |-> NoRequest]
    /\ reply = [c \in Clients |-> "none"]
    /\ mutation = [c \in Clients |-> NoMutation]

(* Client c moves to place and sends a read. *)
SendRead(c, place) ==
    /\ pc' = [pc EXCEPT ![c] = place]
    /\ sentAt' = [sentAt EXCEPT ![c] = now]
    /\ snap' = [snap EXCEPT ![c] = NoSnap]
    /\ request' = [request EXCEPT ![c] = NoRequest]
    /\ reply' = [reply EXCEPT ![c] = "none"]
    /\ UNCHANGED <<now, serverVars, network>>

(* Client c moves to place and sends a conditional write or remove.  Two     *)
(* identical renewals in the network are one element of the set: the one     *)
(* that would be refused is a renewal that fails, which Fail covers.         *)
SendRequest(c, place, kind, rec) ==
    LET r == [kind |-> kind, lease |-> lease[c], expected |-> snap[c].version, rec |-> rec]
    IN  /\ lastVersion < MaxVersion /\ Cardinality(network) < MaxNetwork
        /\ pc' = [pc EXCEPT ![c] = place]
        /\ request' = [request EXCEPT ![c] = r]
        /\ network' = network \cup {r}
        /\ reply' = [reply EXCEPT ![c] = "none"]
        /\ snap' = [snap EXCEPT ![c] = NoSnap]
        /\ sentAt' = [sentAt EXCEPT ![c] = 0]
        /\ UNCHANGED <<now, serverVars, lease, attempt, advertised, lost, mutation>>

(* Client c has no call outstanding any more and keeps its lease. *)
Rest(c) ==
    /\ pc' = [pc EXCEPT ![c] = "held"]
    /\ sentAt' = [sentAt EXCEPT ![c] = 0]
    /\ snap' = [snap EXCEPT ![c] = NoSnap]
    /\ request' = [request EXCEPT ![c] = NoRequest]
    /\ reply' = [reply EXCEPT ![c] = "none"]
    /\ attempt' = [attempt EXCEPT ![c] = 0]
    /\ UNCHANGED <<now, serverVars, network, lease, advertised>>

(* The acquisition failed or the lease was given up: nothing is kept of it. *)
Quit(c) ==
    /\ pc' = [pc EXCEPT ![c] = "idle"]
    /\ sentAt' = [sentAt EXCEPT ![c] = 0]
    /\ snap' = [snap EXCEPT ![c] = NoSnap]
    /\ request' = [request EXCEPT ![c] = NoRequest]
    /\ reply' = [reply EXCEPT ![c] = "none"]
    /\ attempt' = [attempt EXCEPT ![c] = 0]
    /\ advertised' = [advertised EXCEPT ![c] = Heartbeat[c]]
    /\ lost' = [lost EXCEPT ![c] = FALSE]
    /\ UNCHANGED <<now, serverVars, network, lease, mutation>>

-----------------------------------------------------------------------------
(* acquireSyncRemoteMutationFence, up to its first await: a fresh leaseId. *)
Acquire(c) ==
    /\ pc[c] = "idle"
    /\ lease[c][2] < MaxLeases
    /\ lease' = [lease EXCEPT ![c] = <<c, lease[c][2] + 1>>]
    /\ attempt' = [attempt EXCEPT ![c] = 1]
    /\ SendRead(c, "acqRead")
    /\ UNCHANGED <<advertised, lost, mutation>>

AcquireBusy(c) ==
    /\ pc[c] = "acqRead" /\ snap[c].ready
    /\ Busy(snap[c].rec, snap[c].serverNow)
    /\ Quit(c)

AcquireWrite(c) ==
    /\ pc[c] = "acqRead" /\ snap[c].ready
    /\ ~Busy(snap[c].rec, snap[c].serverNow)
    /\ SendRequest(c, "acqWrite", "write", LeaseRecord(c, snap[c].serverNow))

AcquireConflict(c) ==
    /\ pc[c] = "acqWrite" /\ reply[c] = "conflict"
    /\ \/ /\ attempt[c] < MaxAttempts
          /\ attempt' = [attempt EXCEPT ![c] = @ + 1]
          /\ SendRead(c, "acqRead")
          /\ UNCHANGED <<lease, advertised, lost, mutation>>
       \/ attempt[c] >= MaxAttempts /\ Quit(c)

(* A write went through: read back, keeping what was written to compare. *)
ReadBack(c, place) ==
    /\ reply[c] = "ok"
    /\ pc' = [pc EXCEPT ![c] = place]
    /\ sentAt' = [sentAt EXCEPT ![c] = now]
    /\ UNCHANGED <<now, serverVars, network, lease, attempt, advertised, lost,
                   snap, request, reply, mutation>>

AcquireWritten(c) == pc[c] = "acqWrite" /\ ReadBack(c, "acqVerify")

VerifiesAsOwn(c) ==
    /\ snap[c].rec.lease = lease[c]
    /\ snap[c].rec.expiresAt = request[c].rec.expiresAt
    /\ ~ImpossibleFutureExpiry(snap[c].rec, snap[c].serverNow)

AcquireVerify(c) ==
    /\ pc[c] = "acqVerify" /\ snap[c].ready
    /\ IF VerifiesAsOwn(c) /\ snap[c].rec.expiresAt > snap[c].serverNow
       THEN Rest(c) /\ UNCHANGED <<lost, mutation>>
       ELSE Quit(c)

-----------------------------------------------------------------------------
(* assertHeld(Horizon), the heartbeat's renewOwned and release(): serialised *)
(* per lease by operationQueue, so a client does one at a time.  place tells *)
(* why it reads: "assertRead", "renewRead" or, inside assertHeld, "coverRead".*)
BeginOwn(c, place) ==
    /\ pc[c] = "held" /\ ~lost[c]
    /\ SendRead(c, place)
    /\ UNCHANGED <<lease, attempt, advertised, lost, mutation>>

(* Mutation of OwnedSnapshot: any unexpired record counts as one's own. *)
OwnedIfUnexpired(c) == snap[c].rec.expiresAt - snap[c].serverNow - ReadAge(c) > 0

(* requireOwnedSnapshot *)
OwnedSnapshot(c) ==
    /\ snap[c].rec.lease = lease[c]
    /\ snap[c].rec.expiresAt - snap[c].serverNow - ReadAge(c) > 0

SafeAuthorityRemaining(c) == SafeDeadline(snap[c].rec) - snap[c].serverNow - ReadAge(c)

(* The operation throws: the heartbeat remembers it, assertHeld passes it on. *)
OperationFails(c) ==
    /\ lost' = [lost EXCEPT ![c] = @ \/ pc[c] \in {"renewRead", "renewWrite", "renewVerify"}]
    /\ Rest(c)
    /\ UNCHANGED mutation

NotOwned(c) ==
    /\ pc[c] \in {"assertRead", "coverRead", "renewRead"} /\ snap[c].ready
    /\ ~OwnedSnapshot(c)
    /\ OperationFails(c)

(* assertHeld returns and the caller sends its provider mutation. *)
SendMutation(c) ==
    mutation' = [mutation EXCEPT ![c] =
        [open |-> TRUE, lease |-> lease[c], until |-> now + RequestTimeout]]

AssertPasses(c) ==
    /\ pc[c] = "assertRead" /\ snap[c].ready
    /\ OwnedSnapshot(c)
    /\ SafeAuthorityRemaining(c) > Horizon
    /\ SendMutation(c)
    /\ Rest(c)
    /\ UNCHANGED lost

(* Too little authority left: advertise a longer heartbeat and renew, which *)
(* reads the record again.                                                  *)
AssertRenews(c) ==
    /\ pc[c] = "assertRead" /\ snap[c].ready
    /\ OwnedSnapshot(c)
    /\ SafeAuthorityRemaining(c) <= Horizon
    /\ advertised' = [advertised EXCEPT ![c] =
          IF @ > 0
          THEN Longer(@, (Horizon + AbandonedAfterMissedHeartbeats - 1)
                             \div AbandonedAfterMissedHeartbeats)
          ELSE 0]
    /\ SendRead(c, "coverRead")
    /\ UNCHANGED <<lease, attempt, lost, mutation>>

RenewWrite(c) ==
    /\ pc[c] \in {"coverRead", "renewRead"} /\ snap[c].ready
    /\ OwnedSnapshot(c)
    /\ SendRequest(c, IF pc[c] = "coverRead" THEN "coverWrite" ELSE "renewWrite",
                   "write", LeaseRecord(c, snap[c].serverNow))

RenewConflict(c) ==
    /\ pc[c] \in {"coverWrite", "renewWrite"} /\ reply[c] = "conflict"
    /\ OperationFails(c)

RenewWritten(c) ==
    \/ pc[c] = "coverWrite" /\ ReadBack(c, "coverVerify")
    \/ pc[c] = "renewWrite" /\ ReadBack(c, "renewVerify")

RenewUnverified(c) ==
    /\ pc[c] \in {"coverVerify", "renewVerify"} /\ snap[c].ready
    /\ \/ ~VerifiesAsOwn(c)
       \/ ~OwnedSnapshot(c)
       \/ pc[c] = "coverVerify" /\ SafeAuthorityRemaining(c) <= Horizon
    /\ OperationFails(c)

RenewVerify(c) ==
    /\ pc[c] = "renewVerify" /\ snap[c].ready
    /\ VerifiesAsOwn(c) /\ OwnedSnapshot(c)
    /\ Rest(c)
    /\ UNCHANGED <<lost, mutation>>

CoverVerify(c) ==
    /\ pc[c] = "coverVerify" /\ snap[c].ready
    /\ VerifiesAsOwn(c) /\ OwnedSnapshot(c)
    /\ SafeAuthorityRemaining(c) > Horizon
    /\ SendMutation(c)
    /\ Rest(c)
    /\ UNCHANGED lost

(* release(): the run that holds the lease calls it last, in its finally    *)
(* block, once its own mutation has settled (sync-run.ts).                  *)
BeginRelease(c) ==
    /\ pc[c] = "held"
    /\ ~mutation[c].open
    /\ SendRead(c, "relRead")
    /\ UNCHANGED <<lease, attempt, advertised, lost, mutation>>

ReleaseRefused(c) ==
    /\ pc[c] = "relRead" /\ snap[c].ready
    /\ snap[c].rec.lease # lease[c]
    /\ Quit(c)

(* Mutation of ReleaseRemove: whatever record is there is removed. *)
ReleaseAnyRecord(c) ==
    /\ pc[c] = "relRead" /\ snap[c].ready
    /\ snap[c].rec.lease # NoLease
    /\ SendRequest(c, "relRemove", "remove", Absent)

ReleaseRemove(c) ==
    /\ pc[c] = "relRead" /\ snap[c].ready
    /\ snap[c].rec.lease = lease[c]
    /\ SendRequest(c, "relRemove", "remove", Absent)

ReleaseDone(c) ==
    /\ pc[c] = "relRemove" /\ reply[c] # "none"
    /\ Quit(c)

-----------------------------------------------------------------------------
(* A call fails with something other than a conflict: a timeout, a dropped  *)
(* connection, an answer without a Date header.  Its request may still land.*)
Fail(c) ==
    \/ /\ pc[c] \in {"acqRead", "acqWrite", "acqVerify", "relRead", "relRemove"}
       /\ Quit(c)
    \/ /\ pc[c] \in {"assertRead", "coverRead", "coverWrite", "coverVerify",
                    "renewRead", "renewWrite", "renewVerify"}
       /\ OperationFails(c)

(* The process dies; what it has sent is still on its way. *)
Crash(c) == pc[c] # "idle" /\ Quit(c)

MutationSettles(c) ==
    /\ mutation[c].open
    /\ mutation' = [mutation EXCEPT ![c] = NoMutation]
    /\ UNCHANGED <<now, serverVars, network, clientVars>>

ServeRead(c) ==
    /\ pc[c] \in Reading
    /\ ~snap[c].ready
    /\ snap' = [snap EXCEPT ![c] =
          [ready |-> TRUE, rec |-> file, version |-> version, serverNow |-> now]]
    /\ UNCHANGED <<now, serverVars, network, pc, lease, attempt, advertised, lost,
                   sentAt, request, reply, mutation>>

(* The provider applies a conditional request, or refuses it: `null` is     *)
(* create-only, a version replaces or removes exactly that generation.      *)
ServeRequest(r) ==
    /\ IF r.expected # version
       THEN UNCHANGED serverVars
       ELSE IF r.kind = "write"
       THEN /\ file' = r.rec
            /\ version' = lastVersion + 1
            /\ lastVersion' = lastVersion + 1
       ELSE /\ file' = Absent
            /\ version' = 0
            /\ UNCHANGED lastVersion
    /\ network' = network \ {r}
    /\ reply' = [c \in Clients |->
          IF request[c] = r /\ reply[c] = "none" /\ pc[c] \in Requesting
          THEN IF r.expected = version THEN "ok" ELSE "conflict"
          ELSE reply[c]]
    /\ UNCHANGED <<now, pc, lease, attempt, advertised, lost, sentAt, snap, request, mutation>>

(* Time passes; a mutation that has not landed in time never will. *)
ClockTicks ==
    /\ now < MaxTime
    /\ now' = now + 1
    /\ mutation' = [c \in Clients |->
          IF mutation[c].open /\ mutation[c].until > now THEN mutation[c] ELSE NoMutation]
    /\ UNCHANGED <<serverVars, network, clientVars>>

ClientStep(c) ==
    \/ Acquire(c) \/ AcquireBusy(c) \/ AcquireWrite(c) \/ AcquireConflict(c)
    \/ AcquireWritten(c) \/ AcquireVerify(c)
    \/ BeginOwn(c, "assertRead") \/ BeginOwn(c, "renewRead")
    \/ NotOwned(c) \/ AssertPasses(c) \/ AssertRenews(c)
    \/ RenewWrite(c) \/ RenewConflict(c) \/ RenewWritten(c) \/ RenewUnverified(c)
    \/ RenewVerify(c) \/ CoverVerify(c)
    \/ BeginRelease(c) \/ ReleaseRefused(c) \/ ReleaseRemove(c) \/ ReleaseDone(c)
    \/ Fail(c) \/ Crash(c) \/ MutationSettles(c) \/ ServeRead(c)

FenceNext ==
    \/ \E c \in Clients : ClientStep(c)
    \/ \E r \in network : ServeRequest(r)
    \/ ClockTicks

FenceSpec == FenceInit /\ [][FenceNext]_fenceVars

-----------------------------------------------------------------------------
Places == Reading \cup Requesting \cup {"idle", "held"}

FenceTypeOK ==
    /\ now \in Nat
    /\ file \in Records
    /\ version \in Nat /\ lastVersion \in Nat
    /\ network \subseteq Requests
    /\ pc \in [Clients -> Places]
    /\ lease \in [Clients -> Leases] /\ \A c \in Clients : lease[c][1] = c
    /\ attempt \in [Clients -> Nat]
    /\ advertised \in [Clients -> Nat]
    /\ lost \in [Clients -> BOOLEAN]
    /\ sentAt \in [Clients -> Nat]
    /\ snap \in [Clients -> [ready : BOOLEAN, rec : Records, version : Nat, serverNow : Nat]]
    /\ request \in [Clients -> Requests]
    /\ reply \in [Clients -> {"none", "ok", "conflict"}]
    /\ mutation \in [Clients -> [open : BOOLEAN, lease : Leases \cup {NoLease}, until : Nat]]

(* The fence at work: while a mutation that assertHeld let through can still *)
(* land, the fence file names the lease it was sent under, so no compatible  *)
(* peer has been granted the remote folder in the meantime.                  *)
MutationUnderOwnLease ==
    \A c \in Clients : mutation[c].open => file.lease = mutation[c].lease

(* Two devices never have provider mutations under way at the same time.     *)
MutationsExclusive ==
    \A c, d \in Clients : mutation[c].open /\ mutation[d].open => c = d

(* What the two rest on.  A lease that was seen to be good until d stays in  *)
(* the file, good until d at least, for as long as d is in the future.       *)
Secured(l, d) == d <= now \/ (file.lease = l /\ SafeDeadline(file) >= d)

Lapsed(rec, t) == rec.expiresAt <= t \/ AbandonedRecord(rec, t)

(* A record some conforming client wrote no later than t. *)
Conforming(rec, t) ==
    rec.lease \in Leases =>
        /\ rec.lease[2] <= lease[rec.lease[1]][2]
        /\ rec.expiresAt = rec.renewedAt + TTL
        /\ rec.renewedAt <= t
        /\ rec.heartbeat = 0 <=> Heartbeat[rec.lease[1]] = 0
        /\ lease[rec.lease[1]] = rec.lease /\ pc[rec.lease[1]] # "idle" =>
              rec.heartbeat <= advertised[rec.lease[1]]

FileInv ==
    /\ version = 0 <=> file.lease = NoLease
    /\ file.lease = NoLease => file = Absent
    /\ version <= lastVersion
    /\ Conforming(file, now)

(* A lease that advertises a heartbeat keeps advertising one. *)
AdvertisedInv(c) == advertised[c] = 0 <=> Heartbeat[c] = 0

SnapInv(c) ==
    /\ sentAt[c] <= now
    /\ pc[c] \notin Reading => ~snap[c].ready
    /\ snap[c].ready =>
        /\ sentAt[c] <= snap[c].serverNow /\ snap[c].serverNow <= now
        /\ snap[c].version <= lastVersion
        /\ snap[c].version = 0 <=> snap[c].rec.lease = NoLease
        /\ snap[c].version = version /\ version # 0 => snap[c].rec = file
        /\ Conforming(snap[c].rec, snap[c].serverNow)
        /\ snap[c].rec.lease = lease[c] => Secured(lease[c], SafeDeadline(snap[c].rec))

(* A write that can still succeed meets an absent file, a foreign or lapsed  *)
(* record, or extends its own lease.                                         *)
WriteInv(r) ==
    r.kind = "write" =>
        /\ r.rec.lease = r.lease /\ Conforming(r.rec, now)
        /\ r.expected = version /\ version # 0 =>
              \/ file.lease = Foreign
              \/ Lapsed(file, now)
              \/ file.lease = r.lease /\ SafeDeadline(r.rec) >= SafeDeadline(file)

(* A remove that can still succeed meets its own record, and nobody relies   *)
(* on that lease any more.                                                   *)
RemoveInv(r) ==
    r.kind = "remove" =>
        /\ r.expected # 0
        /\ r.expected = version => file.lease = r.lease
        /\ lease[r.lease[1]] = r.lease => pc[r.lease[1]] \in {"idle", "relRemove"}
        /\ ~(mutation[r.lease[1]].open /\ mutation[r.lease[1]].lease = r.lease)

RequestInv(r) ==
    /\ r.kind # "none"
    /\ r.lease \in Leases /\ r.lease[2] <= lease[r.lease[1]][2]
    /\ r.expected <= lastVersion
    /\ WriteInv(r)
    /\ RemoveInv(r)

MutationInv(c) ==
    /\ pc[c] \in {"relRead", "relRemove"} => ~mutation[c].open
    /\ mutation[c].open =>
          /\ mutation[c].lease \in Leases /\ mutation[c].lease[1] = c
          /\ mutation[c].lease[2] <= lease[c][2]
          /\ now <= mutation[c].until
          /\ Secured(mutation[c].lease, mutation[c].until + 1)

(* The inductive invariant of the fence. *)
FenceInv ==
    /\ FenceTypeOK
    /\ FileInv
    /\ \A c \in Clients : AdvertisedInv(c) /\ SnapInv(c) /\ MutationInv(c)
    /\ \A r \in network : RequestInv(r)

(* The file passes from one client's lease to another only when the waiter   *)
(* may presume the holder gone: expired, or silent for its heartbeats.       *)
TakenOnlyWhenLapsed ==
    [][file.lease \in Leases /\ file'.lease # file.lease /\ file' # Absent =>
          file.expiresAt <= now \/ AbandonedRecord(file, now)]_fenceVars

(* release() is peer-safe: however late a remove lands, the record it        *)
(* deletes is the one of the lease that sent it.                             *)
RemovesOnlyOwnRecord ==
    [][file # Absent /\ file' = Absent =>
          \E r \in network : r.kind = "remove" /\ r.lease = file.lease]_fenceVars

=============================================================================
