------------------------------ MODULE FifoLock ------------------------------
(* What a serialised lane promises its callers: they are served one at a    *)
(* time, in the order in which they called, and each is served.             *)
EXTENDS Sequences

CONSTANT Callers

VARIABLES
    queue,      \* callers that have called and not returned, oldest first
    serving     \* the head's operation is running

vars == <<queue, serving>>

Init == queue = <<>> /\ serving = FALSE

Call(p) ==
    /\ \A i \in DOMAIN queue : queue[i] # p
    /\ queue' = Append(queue, p)
    /\ UNCHANGED serving

Serve(p) ==
    /\ queue # <<>> /\ Head(queue) = p
    /\ ~serving
    /\ serving' = TRUE
    /\ UNCHANGED queue

Return(p) ==
    /\ serving /\ Head(queue) = p
    /\ queue' = Tail(queue)
    /\ serving' = FALSE

Next == \E p \in Callers : Call(p) \/ Serve(p) \/ Return(p)

Fairness == \A p \in Callers : WF_vars(Serve(p)) /\ WF_vars(Return(p))

Spec == Init /\ [][Next]_vars /\ Fairness
=============================================================================
