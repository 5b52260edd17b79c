-------------------------- MODULE MCControlServer --------------------------
(***************************************************************************)
(* Small instances of ControlServer for TLC.                               *)
(***************************************************************************)
EXTENDS ControlServer, TLC

OneEach == [t \in Tokens |-> 1]
TwoEach == [t \in Tokens |-> 2]

Req(k, n) == [type |-> k, name |-> n]

NamedRequests == {Req("http", n) : n \in Subdomains}

(* A requested name is like one draw of a random one, with the same refund *)
(* when it is refused.                                                     *)
RandomRequests == {Req("http", AnyName), Req("tcp", AnyName)}

(* No random request names a value, and all tokens have the same limit.    *)
Symmetry ==
  Permutations(Tunnels) \cup Permutations(Sessions)
    \cup Permutations(Tokens) \cup Permutations(Subdomains)
=============================================================================
