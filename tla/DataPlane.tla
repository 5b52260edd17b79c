----------------------------- MODULE DataPlane -----------------------------
(***************************************************************************)
(* One public connection carried to the local service: a visitor of a TCP  *)
(* tunnel (handleTCPConn) or a WebSocket (proxyWebSocket), the yamux       *)
(* stream, and the client's handleStream.                                  *)
(*                                                                         *)
(*   visitor  --vs-->  server  --sc-->  client  --cl-->  service           *)
(*            <--sv--          <--cs--          <--lc--                    *)
(*                                                                         *)
(* Each arrow is a FIFO of units with room for Cap[h] of them; fin[h] says *)
(* that its writer has finished and rd[h] that its reader still has the    *)
(* socket open.  A copying goroutine (one io.Copy) moves units from its    *)
(* source to its destination and holds at most one in hand.                *)
(***************************************************************************)
EXTENDS Naturals, Sequences, SequencesExt

CONSTANTS
  MaxUnits,  \* units each peer may send
  Cap        \* room on each way: socket buffers, the yamux window

Hops == {"vs", "sc", "cl", "lc", "cs", "sv"}

ASSUME BoundsAssumption ==
  MaxUnits \in Nat \ {0} /\ Cap \in [Hops -> Nat \ {0}]

Links == {"vis", "str", "loc"}
HopsOf(l) ==
  CASE l = "vis" -> {"vs", "sv"} [] l = "str" -> {"sc", "cs"}
    [] OTHER -> {"cl", "lc"}
LinkOf(h) == CHOOSE l \in Links : h \in HopsOf(l)

(* The two goroutines of handleTCPConn (or proxyBidirectional) and the two *)
(* of handleStream.                                                        *)
Copiers == {"upS", "dnS", "upC", "dnC"}
Src == [upS |-> "vs", dnS |-> "cs", upC |-> "sc", dnC |-> "lc"]
Dst == [upS |-> "sc", dnS |-> "sv", upC |-> "cl", dnC |-> "cs"]

Peers == {"visitor", "service"}
Out == [visitor |-> "vs", service |-> "lc"]
In == [visitor |-> "sv", service |-> "cl"]

Units == 1..MaxUnits

VARIABLES
  kind,    \* "tcp" or "websocket"
  q,       \* units on their way on each hop
  fin,     \* the writer of a hop has closed its side
  rd,      \* the reader of a hop has not closed its side
  broken,  \* a link was reset; the stream: reset, or its session is gone
  go,      \* the copying goroutines: "off", "run", "done"
  hand,    \* the unit a copying goroutine has read and not yet written; 0: none
  srv,     \* handleTCPConn / proxyWebSocket: where it is
  cli,     \* handleStream: where it is
  sent,    \* how many units a peer has sent
  got,     \* what a peer has read
  end,     \* how a peer's reading ended: "open", "eof", "reset"
  cut      \* data was lost outside this code: reset, time-out, session loss

vars == <<kind, q, fin, rd, broken, go, hand, srv, cli, sent, got, end, cut>>
net == <<q, fin, rd, broken, cut>>
peers == <<sent, got, end>>

(* Types, and with them that no way holds more than a peer has sent: what  *)
(* io.Copy or a flush moves leaves the buffer it came from.                *)
TypeOK ==
  /\ kind \in {"tcp", "websocket"}
  /\ \A h \in Hops : q[h] \in Seq(Units) /\ Len(q[h]) <= MaxUnits
  /\ fin \in [Hops -> BOOLEAN] /\ rd \in [Hops -> BOOLEAN]
  /\ broken \in [Links -> BOOLEAN] /\ cut \in BOOLEAN
  /\ go \in [Copiers -> {"off", "run", "done"}]
  /\ hand \in [Copiers -> Units \cup {0}]
  /\ srv \in {"open", "request", "response", "copy", "done"}
  /\ cli \in {"none", "dial", "copy", "done"}
  /\ sent \in [Peers -> 0..MaxUnits]
  /\ \A p \in Peers : got[p] \in Seq(Units) /\ Len(got[p]) <= MaxUnits
  /\ end \in [Peers -> {"open", "eof", "reset"}]

Init ==
  /\ kind \in {"tcp", "websocket"}
  /\ q = [h \in Hops |-> <<>>]
  /\ fin = [h \in Hops |-> FALSE]
  /\ rd = [h \in Hops |-> TRUE]
  /\ broken = [l \in Links |-> FALSE]
  /\ go = [g \in Copiers |-> "off"]
  /\ hand = [g \in Copiers |-> 0]
  /\ srv = "open" /\ cli = "none"
  /\ sent = [p \in Peers |-> 0]
  /\ got = [p \in Peers |-> <<>>]
  /\ end = [p \in Peers |-> "open"]
  /\ cut = FALSE

Room(h) == Len(q[h]) < Cap[h]
WriteFails(h) == fin[h] \/ broken[LinkOf(h)]
AtEnd(h) == q[h] = <<>> /\ fin[h]

(***************************************************************************)
(* The operating system and yamux.                                         *)
(***************************************************************************)

(* A link breaks: of what was on its way in each direction a first part    *)
(* may already have arrived; writes fail from now on.                      *)
Break(l, keep) ==
  /\ broken' = [broken EXCEPT ![l] = TRUE]
  /\ \E k \in [HopsOf(l) -> 0..MaxUnits] :
       /\ \A h \in HopsOf(l) : k[h] <= (IF keep THEN Len(q[h]) ELSE 0)
       /\ q' = [h \in Hops |-> IF h \in HopsOf(l) THEN SubSeq(q[h], 1, k[h])
                                                  ELSE q[h]]
  /\ fin' = [h \in Hops |-> fin[h] \/ h \in HopsOf(l)]
  /\ cut' = TRUE
  /\ UNCHANGED <<kind, rd, go, hand, srv, cli, peers>>

(* Data arrives at a socket that has been closed: the connection is reset  *)
(* and what the other side had not yet read is gone.                       *)
Reset(l) ==
  /\ l # "str" /\ ~broken[l]
  /\ \E h \in HopsOf(l) : q[h] # <<>> /\ ~rd[h]
  /\ Break(l, FALSE)

(* The yamux session is lost: reads return what has arrived and then end.  *)
SessionLost == ~broken["str"] /\ Break("str", TRUE)

(* One end closed the stream, the other did not within StreamCloseTimeout. *)
StreamCloseTimeout ==
  /\ ~broken["str"] /\ fin["sc"] # fin["cs"]
  /\ Break("str", TRUE)

(***************************************************************************)
(* The peers: programs outside the repository.                             *)
(***************************************************************************)
Connected(p) == p = "visitor" \/ go["dnC"] # "off"

Send(p) ==
  /\ Connected(p) /\ sent[p] < MaxUnits
  /\ rd[In[p]] /\ ~WriteFails(Out[p]) /\ Room(Out[p])
  (* A service speaks on a WebSocket after it has read the request.        *)
  /\ (p = "service" /\ kind = "websocket") => got[p] # <<>>
  /\ sent' = [sent EXCEPT ![p] = @ + 1]
  /\ q' = [q EXCEPT ![Out[p]] = Append(@, sent[p] + 1)]
  /\ UNCHANGED <<kind, fin, rd, broken, go, hand, srv, cli, got, end, cut>>

(* shutdown(SHUT_WR)                                                       *)
FinishSending(p) ==
  /\ Connected(p) /\ ~fin[Out[p]]
  /\ fin' = [fin EXCEPT ![Out[p]] = TRUE]
  /\ UNCHANGED <<kind, q, rd, broken, go, hand, srv, cli, peers, cut>>

CloseSocket(p) ==
  /\ Connected(p) /\ rd[In[p]]
  /\ fin' = [fin EXCEPT ![Out[p]] = TRUE]
  /\ rd' = [rd EXCEPT ![In[p]] = FALSE]
  /\ UNCHANGED <<kind, q, broken, go, hand, srv, cli, peers, cut>>

Receive(p) ==
  /\ Connected(p) /\ rd[In[p]] /\ q[In[p]] # <<>>
  /\ got' = [got EXCEPT ![p] = Append(@, Head(q[In[p]]))]
  /\ q' = [q EXCEPT ![In[p]] = Tail(@)]
  /\ UNCHANGED <<kind, fin, rd, broken, go, hand, srv, cli, sent, end, cut>>

SeesEnd(p) ==
  /\ Connected(p) /\ rd[In[p]] /\ AtEnd(In[p]) /\ end[p] = "open"
  /\ end' = [end EXCEPT ![p] =
               IF broken[LinkOf(In[p])] THEN "reset" ELSE "eof"]
  /\ UNCHANGED <<kind, net, go, hand, srv, cli, sent, got>>

(***************************************************************************)
(* io.Copy and what each goroutine does after it.                          *)
(***************************************************************************)
CopyRead(g) ==
  LET h == Src[g] IN
  /\ go[g] = "run" /\ hand[g] = 0 /\ rd[h] /\ q[h] # <<>>
  /\ hand' = [hand EXCEPT ![g] = Head(q[h])]
  /\ q' = [q EXCEPT ![h] = Tail(@)]
  /\ UNCHANGED <<kind, fin, rd, broken, go, srv, cli, peers, cut>>

CopyWrite(g) ==
  LET h == Dst[g] IN
  /\ go[g] = "run" /\ hand[g] # 0 /\ ~WriteFails(h) /\ Room(h)
  /\ q' = [q EXCEPT ![h] = Append(@, hand[g])]
  /\ hand' = [hand EXCEPT ![g] = 0]
  /\ UNCHANGED <<kind, fin, rd, broken, go, srv, cli, peers, cut>>

(* io.Copy returns: the read has ended or failed, or the write has failed. *)
CopyOver(g) ==
  /\ go[g] = "run"
  /\ \/ hand[g] = 0 /\ (AtEnd(Src[g]) \/ ~rd[Src[g]])
     \/ hand[g] # 0 /\ WriteFails(Dst[g])
  /\ go' = [go EXCEPT ![g] = "done"]
  /\ hand' = [hand EXCEPT ![g] = 0]

(* remote -> client: stream.Close() closes the stream for writing only.    *)
ServerUpEnds ==
  /\ CopyOver("upS")
  /\ fin' = [fin EXCEPT !["sc"] = TRUE]
  /\ UNCHANGED <<kind, q, rd, broken, srv, cli, peers, cut>>

(* client -> remote: conn.Close() closes the visitor's connection.         *)
ServerDownEnds ==
  /\ CopyOver("dnS")
  /\ fin' = [fin EXCEPT !["sv"] = TRUE]
  /\ rd' = [rd EXCEPT !["vs"] = FALSE]
  /\ UNCHANGED <<kind, q, broken, srv, cli, peers, cut>>

(* Faulty variant: the connection is closed in both directions.            *)
ClientUpEnds_FullClose ==
  /\ CopyOver("upC")
  /\ fin' = [fin EXCEPT !["cl"] = TRUE]
  /\ rd' = [rd EXCEPT !["lc"] = FALSE]
  /\ UNCHANGED <<kind, q, broken, srv, cli, peers, cut>>

(* Faulty variant: the local service is not told of the end.               *)
ClientUpEnds_NoClose ==
  /\ CopyOver("upC")
  /\ UNCHANGED <<kind, net, srv, cli, peers>>

(* server stream -> local service: tc.CloseWrite().                        *)
ClientUpEnds ==
  /\ CopyOver("upC")
  /\ fin' = [fin EXCEPT !["cl"] = TRUE]
  /\ UNCHANGED <<kind, q, rd, broken, srv, cli, peers, cut>>

(* local service -> server stream: stream.Close().                         *)
ClientDownEnds ==
  /\ CopyOver("dnC")
  /\ fin' = [fin EXCEPT !["cs"] = TRUE]
  /\ UNCHANGED <<kind, q, rd, broken, srv, cli, peers, cut>>

(***************************************************************************)
(* The server's handlers.                                                  *)
(***************************************************************************)

(* A handler returns: its deferred stream.Close() and conn.Close().        *)
ServerReturns ==
  /\ srv' = "done"
  /\ fin' = [fin EXCEPT !["sc"] = TRUE, !["sv"] = TRUE]
  /\ rd' = [rd EXCEPT !["vs"] = FALSE]
  /\ UNCHANGED <<kind, q, broken, go, hand, cli, peers, cut>>

StartCopying(gs) == go' = [g \in Copiers |-> IF g \in gs THEN "run" ELSE go[g]]

(* A WebSocket handler runs once the HTTP server has read a request.       *)
Called == kind = "tcp" \/ q["vs"] # <<>>

(* session.Session.Open()                                                  *)
OpenStream ==
  /\ srv = "open" /\ Called /\ ~broken["str"]
  /\ IF kind = "tcp"
     THEN srv' = "copy" /\ StartCopying({"upS", "dnS"})
     ELSE srv' = "request" /\ UNCHANGED go
  /\ cli' = "dial"
  /\ UNCHANGED <<kind, net, hand, peers>>

OpenFails == srv = "open" /\ Called /\ broken["str"] /\ ServerReturns

(* The visitor leaves before it has sent a request: the HTTP server closes *)
(* the connection.                                                         *)
NoRequest == srv = "open" /\ ~Called /\ AtEnd("vs") /\ ServerReturns

(* Faulty variant: the units stay where they were.                         *)
Shift_Copies(from, to, n) ==
  q' = [q EXCEPT ![to] = @ \o SubSeq(q[from], 1, n)]

(* The first n units of a hop go to another at once.                       *)
Shift(from, to, n) ==
  q' = [q EXCEPT ![from] = SubSeq(@, n + 1, Len(@)),
                 ![to] = @ \o SubSeq(q[from], 1, n)]

(* r.Write(stream) for the request, which is the visitor's first unit, and *)
(* the flush of what the HTTP server had read beyond it.                   *)
WebSocketRequest ==
  /\ srv = "request" /\ ~WriteFails("sc")
  /\ \E n \in 1..Len(q["vs"]) : Shift("vs", "sc", n)
  /\ srv' = "response"
  /\ UNCHANGED <<kind, fin, rd, broken, go, hand, cli, peers, cut>>

(* Faulty variant: the buffered units are written before the response.     *)
WebSocketResponse_FlushFirst ==
  /\ srv = "response" /\ ~WriteFails("sv")
  /\ \E n \in 1..Len(q["cs"]) :
       q' = [q EXCEPT !["cs"] = SubSeq(@, n + 1, Len(@)),
                      !["sv"] = SubSeq(q["cs"], 2, n) \o <<Head(q["cs"])>>]
  /\ srv' = "copy" /\ StartCopying({"upS", "dnS"})
  /\ UNCHANGED <<kind, fin, rd, broken, hand, cli, peers, cut>>

(* http.ReadResponse through a bufio.Reader, resp.Write to the visitor,    *)
(* and the flush of what the reader had buffered beyond the response.      *)
WebSocketResponse ==
  /\ srv = "response" /\ ~WriteFails("sv")
  /\ \E n \in 1..Len(q["cs"]) : Shift("cs", "sv", n)
  /\ srv' = "copy" /\ StartCopying({"upS", "dnS"})
  /\ UNCHANGED <<kind, fin, rd, broken, hand, cli, peers, cut>>

(* One of the writes fails, or the response never comes.                   *)
WebSocketFails ==
  /\ \/ srv = "request" /\ WriteFails("sc")
     \/ srv = "response" /\ AtEnd("cs")
     \/ srv = "response" /\ q["cs"] # <<>> /\ WriteFails("sv")
  /\ ServerReturns

(* wg.Wait() and the return; both goroutines have closed what they write.  *)
ServerDone ==
  /\ srv = "copy" /\ go["upS"] = "done" /\ go["dnS"] = "done"
  /\ ServerReturns

(***************************************************************************)
(* The client's handleStream.                                              *)
(***************************************************************************)
DialSucceeds ==
  /\ cli = "dial" /\ cli' = "copy" /\ StartCopying({"upC", "dnC"})
  /\ UNCHANGED <<kind, net, hand, srv, peers>>

(* Nothing listens on the local port: the deferred stream.Close().         *)
DialFails ==
  /\ cli = "dial" /\ cli' = "done"
  /\ fin' = [fin EXCEPT !["cs"] = TRUE]
  /\ UNCHANGED <<kind, q, rd, broken, go, hand, srv, peers, cut>>

(* wg.Wait(), then the deferred local.Close() and stream.Close().          *)
ClientDone ==
  /\ cli = "copy" /\ go["upC"] = "done" /\ go["dnC"] = "done"
  /\ cli' = "done"
  /\ fin' = [fin EXCEPT !["cl"] = TRUE, !["cs"] = TRUE]
  /\ rd' = [rd EXCEPT !["lc"] = FALSE]
  /\ UNCHANGED <<kind, q, broken, go, hand, srv, peers, cut>>

(* No goroutine of either handler runs.                                    *)
AllDone ==
  /\ srv = "done" \/ (srv = "open" /\ ~Called)
  /\ cli \in {"none", "done"}
AllQuiet == AllDone /\ srv = "done" /\ UNCHANGED vars

ServerStep ==
  \/ OpenStream \/ OpenFails \/ NoRequest
  \/ WebSocketRequest \/ WebSocketResponse \/ WebSocketFails
  \/ ServerDone \/ ServerUpEnds \/ ServerDownEnds
ClientStep ==
  DialSucceeds \/ DialFails \/ ClientDone \/ ClientUpEnds \/ ClientDownEnds
Copying(g) == CopyRead(g) \/ CopyWrite(g)

Next ==
  \/ ServerStep \/ ClientStep
  \/ \E g \in Copiers : Copying(g)
  \/ \E p \in Peers : Send(p) \/ FinishSending(p) \/ CloseSocket(p)
                      \/ Receive(p) \/ SeesEnd(p)
  \/ \E l \in Links : Reset(l)
  \/ SessionLost \/ StreamCloseTimeout \/ AllQuiet

Spec == Init /\ [][Next]_vars

(* Goroutines run.  The operating system resets, yamux times out.  A peer  *)
(* reads what it is sent and closes once it has read the end; a service    *)
(* that has read an upgrade request answers it.  No peer has to send.      *)
Fairness ==
  /\ WF_vars(ServerStep) /\ WF_vars(ClientStep)
  /\ \A g \in Copiers : WF_vars(Copying(g))
  /\ \A p \in Peers :
       WF_vars(Receive(p)) /\ WF_vars(SeesEnd(p))
       /\ WF_vars(end[p] # "open" /\ CloseSocket(p))
  /\ WF_vars(kind = "websocket" /\ sent["service"] = 0 /\ Send("service"))
  /\ \A l \in Links : WF_vars(Reset(l))
  /\ WF_vars(StreamCloseTimeout)
FairSpec == Spec /\ Fairness

(***************************************************************************)
(* Properties.                                                             *)
(***************************************************************************)

(* What a peer has read is a first part of what the other peer has sent:   *)
(* nothing is lost in the middle, doubled or reordered, also across the    *)
(* two flushes of proxyWebSocket.                                          *)
Numbered(n) == [i \in 1..n |-> i]
InOrder ==
  /\ IsPrefix(got["visitor"], Numbered(sent["service"]))
  /\ IsPrefix(got["service"], Numbered(sent["visitor"]))

(* A visitor whose connection ends properly has read all that the service  *)
(* sent, also if the visitor finished sending first.  A service that reads *)
(* the end of the request while it is itself still sending has read all    *)
(* that the visitor sent.  (Once the service has finished, the server      *)
(* closes the visitor's connection in both directions and the rest of the  *)
(* upload is dropped.)                                                     *)
WholeTransfers ==
  ~cut =>
    /\ end["visitor"] = "eof" => Len(got["visitor"]) = sent["service"]
    /\ end["service"] = "eof" /\ ~fin["lc"] => Len(got["service"]) = sent["visitor"]

(* Once a peer has closed its connection or the session is gone, every     *)
(* goroutine of both ends finishes.                                        *)
PipeEnds ==
  (~rd["sv"] \/ ~rd["cl"] \/ broken["str"]) ~> AllDone
=============================================================================
