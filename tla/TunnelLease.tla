---------------------------- MODULE TunnelLease ----------------------------
(***************************************************************************)
(* What the tunnel server promises about its public endpoints, without     *)
(* connections, goroutines or locks: an endpoint (a subdomain or a TCP     *)
(* port) is leased to at most one token, it never passes from one token to *)
(* another without being given up first, and a token with a tunnel limit   *)
(* is granted an endpoint only while it holds fewer than its limit.        *)
(***************************************************************************)
EXTENDS Naturals, FiniteSets

CONSTANTS Endpoints, Holders, Limited, Limit, Nobody

VARIABLE lease          \* endpoint -> token or Nobody

Held(t) == {e \in Endpoints : lease[e] = t}

LInit == lease = [e \in Endpoints |-> Nobody]

Grant(e, t) ==
  /\ lease[e] = Nobody
  /\ t \in Limited => Cardinality(Held(t)) < Limit[t]
  /\ lease' = [lease EXCEPT ![e] = t]

(* Endpoints are given up one by one, or several at once by the reaper.    *)
GiveUp(E) == lease' = [e \in Endpoints |-> IF e \in E THEN Nobody ELSE lease[e]]

LNext ==
  \/ \E e \in Endpoints, t \in Holders : Grant(e, t)
  \/ \E E \in SUBSET Endpoints : GiveUp(E)

LSpec == LInit /\ [][LNext]_lease
=============================================================================
