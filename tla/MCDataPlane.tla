---------------------------- MODULE MCDataPlane ----------------------------
(***************************************************************************)
(* DataPlane for TLC.  The ways that end at the server hold two units, so  *)
(* that its readers can buffer more than the one they parse; the others    *)
(* hold one, so that writers block.                                        *)
(***************************************************************************)
EXTENDS DataPlane

SmallBuffers == [h \in Hops |-> IF h \in {"vs", "cs"} THEN 2 ELSE 1]
=============================================================================
