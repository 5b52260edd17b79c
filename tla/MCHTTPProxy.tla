---------------------------- MODULE MCHTTPProxy ----------------------------
(***************************************************************************)
(* HTTPProxy for TLC: a request of a tunnel with a control stream, two of   *)
(* another, and a viewer who sees the second tunnel only.                  *)
(***************************************************************************)
EXTENDS HTTPProxy

CONSTANTS e1, e2, e3, t1, t2, h1

OneAndTwo == (e1 :> t1) @@ (e2 :> t2) @@ (e3 :> t2)
OwnTunnel == h1 :> {t2}
=============================================================================
