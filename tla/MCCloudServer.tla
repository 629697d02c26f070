--------------------------- MODULE MCCloudServer ---------------------------
(* Writes to one namespace through two processes, reads through one, retries *)
(* of a capture beside the orphan collection, and first requests for two     *)
(* namespaces when only one may be created.                                  *)
EXTENDS CloudServer, TLC

Writes(k) ==
    [procs |-> Procs, keys |-> {k}, kinds |-> {"post", "patch", "put"}, anyToken |-> FALSE, faults |-> 1]
Reads(p, k) ==
    [procs |-> {p}, keys |-> {k}, kinds |-> {"get", "list", "post", "patch"}, anyToken |-> FALSE, faults |-> 2]
Retries(k) ==
    [procs |-> Procs, keys |-> {k}, kinds |-> {"capture", "gc"}, anyToken |-> FALSE, faults |-> 2]
FirstRequests ==
    [procs |-> Procs, keys |-> Keys, kinds |-> {"post", "gc"}, anyToken |-> TRUE, faults |-> 1]

MCSites ==
    {Writes(k) : k \in Keys} \cup {Reads(p, k) : p \in Procs, k \in Keys}
        \cup {Retries(k) : k \in Keys} \cup {FirstRequests}

Interchangeable == Permutations(Requests) \cup Permutations(Procs) \cup Permutations(Keys)
=============================================================================
