------------------------------- MODULE MCStore -------------------------------
(***************************************************************************)
(* The durability of the store, with its two machines side by side: the    *)
(* save queue with reloads (StoreReload), and the receipts of requests     *)
(* (RequestReceipts), which sees the queue from above.  The machine of a   *)
(* behaviour is chosen at its start.                                       *)
(***************************************************************************)
EXTENDS StoreReload

-----------------------------------------------------------------------------
(* Receipts: requests 1 and 2 write one row, request 3 another.             *)
MCRows == {"w1", "w2"}
MCRequests == {"r1", "r2", "r3"}
MCOn == [r \in MCRequests |-> IF r = "r3" THEN "w2" ELSE "w1"]

(* Two requests for the same thing, *)
Same == [r \in MCRequests |-> IF r = "r3" THEN "moved" ELSE "done"]

(* or one that takes the other back. *)
Undo == [r \in MCRequests |-> CASE r = "r1" -> "done" [] r = "r2" -> "open" [] OTHER -> "moved"]

Journal ==
    [journaled |-> TRUE, sends |-> MCRequests, target |-> Same, durable |-> MCRequests, limit |-> 2,
     bounds |-> [edits |-> 0, syncs |-> 1, faults |-> 1, crashes |-> 1]]
JournalBesideEdits ==
    [journaled |-> TRUE, sends |-> {"r1", "r2"}, target |-> Same, durable |-> {"r1", "r2"}, limit |-> 2,
     bounds |-> [edits |-> 1, syncs |-> 0, faults |-> 2, crashes |-> 1]]
TwoAtOnce ==
    [journaled |-> FALSE, sends |-> {"r1", "r3"}, target |-> Same, durable |-> {"r1", "r3"}, limit |-> 2,
     bounds |-> [edits |-> 0, syncs |-> 0, faults |-> 1, crashes |-> 1]]
TakenBack ==
    [journaled |-> FALSE, sends |-> {"r1", "r2"}, target |-> Undo, durable |-> {"r1"}, limit |-> 1,
     bounds |-> [edits |-> 0, syncs |-> 0, faults |-> 1, crashes |-> 1]]

MCHosts == {Journal, JournalBesideEdits, TwoAtOnce, TakenBack}

VARIABLES
    rMem, rClock, rGen, rQueued, rInflight, rImmediates, rFailure, rRetrying,
    rDisk, rRec, rPending, rCovered, rReply, rJournal, rReplaying, rShown,
    rLanded, rConfirmed, rOn, rBudget

Receipts ==
    INSTANCE RequestReceipts WITH
        Rows <- MCRows, Requests <- MCRequests, On <- MCOn, Hosts <- MCHosts,
        mem <- rMem, clock <- rClock, gen <- rGen, queued <- rQueued,
        inflight <- rInflight, immediates <- rImmediates,
        failure <- rFailure, retrying <- rRetrying, disk <- rDisk,
        rec <- rRec, pending <- rPending, covered <- rCovered,
        reply <- rReply, journal <- rJournal, replaying <- rReplaying,
        shown <- rShown, landed <- rLanded, confirmed <- rConfirmed,
        on <- rOn, budget <- rBudget

ASSUME MCReceiptsAssumption == Receipts!RequestConstants

-----------------------------------------------------------------------------
VARIABLE machine

receiptVars ==
    <<rMem, rClock, rGen, rQueued, rInflight, rImmediates, rFailure, rRetrying,
      rDisk, rRec, rPending, rCovered, rReply, rJournal, rReplaying, rShown,
      rLanded, rConfirmed, rOn, rBudget>>
allVars == <<reloadVars, receiptVars, machine>>

StoreInit ==
    /\ machine \in {"queue", "receipts"}
    /\ ReloadInit /\ (machine = "receipts" => fetch = "never")
    /\ Receipts!Init /\ (machine = "queue" => rOn = TakenBack)

StoreNext ==
    \/ machine = "queue" /\ ReloadNext /\ UNCHANGED <<receiptVars, machine>>
    \/ machine = "receipts" /\ Receipts!Next /\ UNCHANGED <<reloadVars, machine>>

StoreFairness ==
    \/ machine = "queue" /\ Fairness
    \/ machine = "receipts" /\ Receipts!Fairness

StoreSpec == StoreInit /\ [][StoreNext]_allVars /\ StoreFairness

-----------------------------------------------------------------------------
(* The properties of RequestReceipts, under the names the run uses.          *)

(* What a receipt, a reply and a journal entry prove. *)
ReceiptsInv == Receipts!ReceiptsInv

(* A repeated request is answered, not done again and not refused. *)
RepliesStand == Receipts!RepliesStand

(* Every request leaves the journal. *)
JournalEmpties == Receipts!JournalEmpties
=============================================================================
