--------------------------- MODULE MCRemoteFence ----------------------------
(* Two devices.  The file starts absent, or holds the record of an older     *)
(* client without a heartbeat (to be waited out), or one whose expiry no     *)
(* conforming client can have written.                                       *)
EXTENDS RemoteFence, TLC

(* Scaled down from 20 s / 5 min / 35 s / 30 s, keeping the order             *)
(* RequestTimeout < Horizon < heartbeat deadline < TTL.                      *)
MCHeartbeat == [c \in Clients |-> 1]
MCLeftovers ==
    [lease : {Foreign}, expiresAt : {2, 9}, heartbeat : {0}, renewedAt : {0}]

Devices == Permutations(Clients)
=============================================================================
