----------------------------- MODULE HTTPProxy -----------------------------
(***************************************************************************)
(* Proxied HTTP requests (serveRequest, yamuxTransport): the goroutine of  *)
(* each request, what it writes to the control stream of the tunnel's      *)
(* client (ControlStream) and to the request log (RequestLog), next to the *)
(* message loop that uses the same control stream.                         *)
(*                                                                         *)
(* The bytes of a request are the subject of DataPlane; here a round trip  *)
(* succeeds or fails.                                                      *)
(***************************************************************************)
EXTENDS RequestLog, ControlStream

CONSTANT MaxAcks   \* heartbeats a client sends

(* A connection has one tunnel.  A tunnel that is not in Conns has no      *)
(* control encoder (sendRequestLog checks for that) and stays registered.  *)
(* The message loop sends the answer to the tunnel request and heartbeat   *)
(* acks, which have no payload.                                            *)
ASSUME ProxyAssumption ==
  /\ Conns \subseteq Tunnels /\ MaxAcks \in Nat
  /\ Messages = Entries \cup {"resp", "ack"} /\ Empty = {"ack"}
  /\ Entries \cap {"resp", "ack", Nothing} = {}

VARIABLES
  req,         \* where the goroutine of a request is
  loop,        \* where the message loop of a connection is
  acks,        \* heartbeats answered
  registered   \* the tunnel can be looked up

proxyVars == <<req, loop, acks, registered>>
vars == <<logVars, streamVars, proxyVars>>

(* Types: pos stays inside the ring of the request log, no channel holds   *)
(* more than its capacity and no control stream more than its window.      *)
TypeOK ==
  /\ LogTypeOK /\ StreamTypeOK
  /\ req \in [Entries -> {"idle", "refused", "trip", "aborted", "encode",
                          "payload", "store", "logged"}]
  /\ loop \in [Conns -> {"request", "respond", "payload", "ready", "done"}]
  /\ acks \in [Conns -> 0..MaxAcks]
  /\ registered \subseteq Tunnels

Init ==
  /\ LogInit /\ StreamInit
  /\ req = [e \in Entries |-> "idle"]
  /\ loop = [t \in Conns |-> "request"]
  /\ acks = [t \in Conns |-> 0]
  /\ registered = Tunnels \ Conns

Goes(e, from, to) == req[e] = from /\ req' = [req EXCEPT ![e] = to]
LoopGoes(t, from, to) == loop[t] = from /\ loop' = [loop EXCEPT ![t] = to]

(***************************************************************************)
(* A request: serveRequest.                                                *)
(***************************************************************************)

(* LookupHTTP; without a tunnel the answer is 502 and nothing is recorded. *)
Lookup(e) ==
  /\ Goes(e, "idle", IF TunnelOf[e] \in registered THEN "trip" ELSE "refused")
  /\ UNCHANGED <<logVars, streamVars, loop, acks, registered>>

(* The exchange is over: RoundTrip returned a response whose body has been *)
(* copied to the visitor, or an error that ErrorHandler answered with 502. *)
(* Without a control encoder sendRequestLog returns at once.               *)
Exchanged(e) ==
  /\ Goes(e, "trip", IF TunnelOf[e] \in Conns THEN "encode" ELSE "store")
  /\ UNCHANGED <<logVars, streamVars, loop, acks, registered>>

(* Copying the body fails half-way: ReverseProxy panics with               *)
(* ErrAbortHandler, and neither sendRequestLog nor Add is reached.         *)
Aborted(e) ==
  /\ Goes(e, "trip", "aborted")
  /\ UNCHANGED <<logVars, streamVars, loop, acks, registered>>

(* sendRequestLog: Encode on the client's control stream; an error is      *)
(* ignored.                                                                *)
SendLogHeader(e) ==
  /\ Goes(e, "encode", "payload") /\ EncodeHeader(TunnelOf[e], e)
  /\ UNCHANGED <<logVars, loop, acks, registered>>

SendLogBody(e) ==
  /\ Goes(e, "payload", "store") /\ EncodeBody(TunnelOf[e], e)
  /\ UNCHANGED <<logVars, loop, acks, registered>>

SendLogFails(e) ==
  /\ \/ Goes(e, "encode", "store") /\ EncodeFails(TunnelOf[e], FALSE)
     \/ Goes(e, "payload", "store") /\ EncodeFails(TunnelOf[e], TRUE)
  /\ UNCHANGED <<logVars, loop, acks, registered>>

(* requestLog.Add; AddStep is the rest of it.                              *)
Record(e) ==
  /\ Goes(e, "store", "logged") /\ Store(e)
  /\ UNCHANGED <<streamVars, loop, acks, registered>>

(***************************************************************************)
(* The message loop of a connection: one tunnel request, then heartbeats.  *)
(***************************************************************************)

(* RegisterHTTP: from here on requests find the tunnel.                    *)
Register(t) ==
  /\ up[t] /\ LoopGoes(t, "request", "respond")
  /\ registered' = registered \cup {t}
  /\ UNCHANGED <<logVars, streamVars, req, acks>>

Respond(t) ==
  /\ \/ LoopGoes(t, "respond", "payload") /\ EncodeHeader(t, "resp")
     \/ LoopGoes(t, "payload", "ready") /\ EncodeBody(t, "resp")
  /\ UNCHANGED <<logVars, req, acks, registered>>

Ack(t) ==
  /\ loop[t] = "ready" /\ acks[t] < MaxAcks
  /\ EncodeHeader(t, "ack")
  /\ acks' = [acks EXCEPT ![t] = @ + 1]
  /\ UNCHANGED <<logVars, req, loop, registered>>

(* A write or a read on the closed session fails: the loop ends and        *)
(* cleanupSession unregisters the tunnel.                                  *)
LoopEnds(t) ==
  /\ loop[t] # "done" /\ EncodeFails(t, loop[t] = "payload")
  /\ loop' = [loop EXCEPT ![t] = "done"]
  /\ registered' = registered \ {t}
  /\ UNCHANGED <<logVars, req, acks>>

(***************************************************************************)
(* The client.                                                             *)
(***************************************************************************)
Decode(t) ==
  /\ DecodeHeader(t) \/ DecodeBody(t)
  /\ UNCHANGED <<logVars, proxyVars>>

Disconnect(t) == SessionCloses(t) /\ UNCHANGED <<logVars, proxyVars>>

RequestStep(e) ==
  \/ SendLogHeader(e) \/ SendLogBody(e) \/ SendLogFails(e) \/ Record(e)
LogStep(e) == AddStep(e) /\ UNCHANGED <<streamVars, proxyVars>>
LoopStep(t) == Respond(t) \/ LoopEnds(t)
ViewStep(h) == StreamStep(h) /\ UNCHANGED <<streamVars, proxyVars>>

(* Every request has been made, every stream opened and closed.            *)
Finished ==
  /\ \A e \in Entries : req[e] \in {"refused", "aborted"} \/ adding[e] = "added"
  /\ \A h \in Streams : fwd[h] = "done"
  /\ \A t \in Conns : loop[t] = "done"
  /\ UNCHANGED vars

Next ==
  \/ \E e \in Entries :
       \/ Lookup(e) \/ Exchanged(e) \/ Aborted(e)
       \/ RequestStep(e) \/ LogStep(e)
  \/ \E t \in Conns :
       Register(t) \/ Ack(t) \/ LoopStep(t) \/ Decode(t) \/ Disconnect(t)
  \/ \E h \in Streams : ViewStep(h)
  \/ Finished

Spec == Init /\ [][Next]_vars

(* Goroutines run, and a client decodes its control stream for as long as  *)
(* it keeps its session.  Nobody has to answer, to disconnect or to read   *)
(* an event stream.                                                        *)
Fairness ==
  /\ \A e \in Entries : WF_vars(RequestStep(e) \/ LogStep(e))
  /\ \A t \in Conns : WF_vars(LoopStep(t)) /\ WF_vars(Decode(t))
  /\ \A h \in Streams :
       /\ WF_vars(LeaveStep(h) /\ UNCHANGED <<streamVars, proxyVars>>)
       /\ WF_vars(ForwardStep(h) /\ UNCHANGED <<streamVars, proxyVars>>)
FairSpec == Spec /\ Fairness

(***************************************************************************)
(* Properties.                                                             *)
(***************************************************************************)

(* A request whose exchange is over gets past the encoder's lock and into  *)
(* the log, whether its client reads, is slow or disconnects meanwhile.    *)
RequestsAreLogged ==
  \A e \in {x \in Entries : TunnelOf[x] \in Conns} :
    req[e] = "encode" ~> adding[e] = "added"
=============================================================================
