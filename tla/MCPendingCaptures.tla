-------------------------- MODULE MCPendingCaptures --------------------------
(* Commands for the native host, captures for the React Native app, both     *)
(* with every call that can fail; three commands in every order of names,    *)
(* taps and deliveries; and a mixed queue.                                   *)
EXTENDS PendingCaptures

CONSTANT t1

MCItems == 1..3
MCTasks == {t1}

CommandsOnNative ==
    [kinds |-> Commands, editsWait |-> TRUE, faulty |-> Calls,
     items |-> 1..2, faults |-> 2, crashes |-> 1, edits |-> 1]
CapturesInApp ==
    [kinds |-> AllKinds \ Commands, editsWait |-> FALSE, faulty |-> Calls,
     items |-> 1..2, faults |-> 2, crashes |-> 1, edits |-> 1]
ThreeCommands ==
    [kinds |-> Commands, editsWait |-> TRUE, faulty |-> {"save"},
     items |-> 1..3, faults |-> 1, crashes |-> 0, edits |-> 0]
Mixed ==
    [kinds |-> {"capture", "audio", "defer", "widget"}, editsWait |-> FALSE, faulty |-> Calls,
     items |-> 1..2, faults |-> 2, crashes |-> 1, edits |-> 0]

MCUses == {CommandsOnNative, CapturesInApp, ThreeCommands, Mixed}
==============================================================================
