---------------------------- MODULE Reconnector ----------------------------
(***************************************************************************)
(* The client's outer loop, Reconnector.Run of internal/client/            *)
(* reconnect.go, with Connect and the tunnel requests of client.go and     *)
(* tunnel.go, against a server that keeps the names its sessions hold      *)
(* until it notices that a session is gone.  The client may therefore      *)
(* compete with its own previous connection.                               *)
(*                                                                         *)
(* The server's part is ControlServer seen from the client.  A session has *)
(* a message loop, which counts a request and then registers its name or   *)
(* gives the count back, and a connection goroutine, which waits for the   *)
(* loop or for the idle timer and then cleans up: it looks the session's   *)
(* names up and unregisters them one by one.  The idle timer does not stop *)
(* the loop, which may register a name after the clean-up has looked: that *)
(* name goes to Dead, a closed session that nobody cleans up any more.     *)
(* The other clients are one holder, Other, of another token.              *)
(*                                                                         *)
(* How a lost connection is detected is the subject of ControlLink; here   *)
(* it is one step.  A connection that both ends have given up returns to   *)
(* the pool.                                                               *)
(***************************************************************************)
EXTENDS Naturals

CONSTANTS Conns,        \* connections: a pool that bounds the half-open ones
          Names,        \* subdomains, or ports of the TCP tunnels
          Types,        \* tunnelType: "http", "tcp"
          MaxTunnels,   \* limit of the client's token
          BaseBackoff,  \* baseBackoff
          MaxBackoff,   \* maxBackoff
          None, Other, Dead, AnyName

ConstantsFit ==
  /\ Types \subseteq {"http", "tcp"}
  /\ BaseBackoff \in Nat \ {0} /\ MaxBackoff \in Nat /\ BaseBackoff <= MaxBackoff
  /\ MaxTunnels \in Nat \ {0}
  /\ None \notin Conns \cup Names /\ AnyName \notin Names \cup {None}
  /\ Other \notin Conns \cup {None} /\ Dead \notin Conns \cup {None, Other}

ASSUME ReconnectorAssumption == ConstantsFit

VARIABLES pc,        \* where Run is: "connect", "request", "serve", "wait", "stopped"
          conn,      \* the Client it is using
          type,      \* r.tunnelType
          subdomain, \* r.subdomain, AnyName when empty
          backoff,
          srv,       \* connection goroutine: "none", "live", "closing", "clean", "ended"
          req,       \* the request the message loop has to read or is handling
          charged,   \* sessions whose request has been counted
          count,     \* the tunnel count of the client's token
          link,      \* path of conn: "up", "down"
          holder,    \* name -> connection, Dead, Other or None
          reserved,  \* names whose tunnel is reserved
          snap       \* names the clean-up of a session still has to unregister

clientVars == <<pc, conn, type, subdomain, backoff>>
loopVars == <<req, charged>>
registryVars == <<holder, reserved>>
serverVars == <<srv, snap, count, loopVars, registryVars>>
vars == <<clientVars, serverVars, link>>

TypeOK ==
  /\ pc \in {"connect", "request", "serve", "wait", "stopped"}
  /\ conn \in Conns \cup {None} /\ type \in Types
  /\ subdomain \in Names \cup {AnyName} /\ backoff \in BaseBackoff .. MaxBackoff
  /\ srv \in [Conns -> {"none", "live", "closing", "clean", "ended"}]
  /\ req \in [Conns -> Names \cup {AnyName, None}]
  /\ charged \subseteq Conns /\ count \in 0 .. MaxTunnels
  /\ link \in {"up", "down"}
  /\ holder \in [Names -> Conns \cup {Dead, Other, None}]
  /\ reserved \subseteq Names /\ snap \in [Conns -> SUBSET Names]

(* NewReconnector: with or without a name asked for on the command line;   *)
(* a TCP tunnel has none.                                                  *)
Init ==
  /\ pc = "connect" /\ conn = None /\ type \in Types
  /\ subdomain \in IF type = "http" THEN Names \cup {AnyName} ELSE {AnyName}
  /\ backoff = BaseBackoff
  /\ srv = [c \in Conns |-> "none"] /\ link = "up"
  /\ req = [c \in Conns |-> None] /\ charged = {} /\ count = 0
  /\ holder = [n \in Names |-> None] /\ reserved = {}
  /\ snap = [c \in Conns |-> {}]

---------------------------------------------------------------------------
(* Client                                                                  *)

(* Connect succeeds: dial, Auth, yamux session, control stream; then the   *)
(* TunnelRequest is sent.                                                  *)
Connect(c) ==
  /\ pc = "connect" /\ srv[c] = "none"
  /\ pc' = "request" /\ conn' = c
  /\ srv' = [srv EXCEPT ![c] = "live"]
  /\ req' = [req EXCEPT ![c] = subdomain]
  /\ UNCHANGED <<type, subdomain, backoff, snap, count, charged, registryVars, link>>

(* Any of its error returns, each of which closes what was opened.         *)
ConnectFails ==
  /\ pc = "connect" /\ pc' = "wait"
  /\ UNCHANGED <<conn, type, subdomain, backoff, serverVars, link>>

(* minDuration(backoff*2, maxBackoff)                                      *)
NextBackoff(b) == IF b * 2 < MaxBackoff THEN b * 2 ELSE MaxBackoff

(* The delay has passed.                                                   *)
Wait ==
  /\ pc = "wait" /\ pc' = "connect"
  /\ backoff' = NextBackoff(backoff)
  /\ UNCHANGED <<conn, type, subdomain, serverVars, link>>

(* Client.Close; the next connection has a path of its own.                *)
CloseClient == conn' = None /\ link' = "up"

(* The request fails: it was refused, its answer got lost, or the session  *)
(* is over.  Run closes the client.                                        *)
Refused ==
  /\ pc = "request"
  /\ req[conn] = None \/ link = "down" \/ srv[conn] # "live"
  /\ pc' = "wait" /\ CloseClient
  /\ UNCHANGED <<type, subdomain, backoff, serverVars>>

(* runWithHeartbeat returns: the connection is lost, or the server closed  *)
(* the session.  Run closes the client and starts over without a delay.    *)
Lost ==
  /\ pc = "serve" /\ (link = "down" \/ srv[conn] # "live")
  /\ pc' = "connect" /\ CloseClient
  /\ UNCHANGED <<type, subdomain, backoff, serverVars>>

(* The context is cancelled; a request in progress is finished first.      *)
Stop ==
  /\ pc \in {"connect", "wait", "serve"}
  /\ pc' = "stopped" /\ CloseClient
  /\ UNCHANGED <<type, subdomain, backoff, serverVars>>

---------------------------------------------------------------------------
(* Message loop: handleTunnelRequest                                       *)

(* The request is read and counted, also after the session has been closed *)
(* when it had arrived before.                                             *)
Charge(c) ==
  /\ req[c] # None /\ c \notin charged /\ count < MaxTunnels
  /\ charged' = charged \cup {c} /\ count' = count + 1
  /\ UNCHANGED <<clientVars, srv, snap, req, registryVars, link>>

(* The rate limiter or IncrementTunnels refuses it.                        *)
Refuse(c) ==
  /\ req[c] # None /\ c \notin charged
  /\ req' = [req EXCEPT ![c] = None]
  /\ UNCHANGED <<clientVars, srv, snap, count, charged, registryVars, link>>

EndRequest(c) == req' = [req EXCEPT ![c] = None] /\ charged' = charged \ {c}

Wanted(c, n) == req[c] \in {n, AnyName}

(* RegisterHTTP / RegisterTCP: a free name, or a reservation of the same   *)
(* token, which the client's own earlier sessions have.                    *)
Available(n) == holder[n] = None \/ (n \in reserved /\ holder[n] # Other)

(* Nothing in the registration asks whether the session is still there.    *)
Assign(c, n) ==
  /\ c \in charged /\ Wanted(c, n) /\ Available(n)
  /\ holder' = [holder EXCEPT ![n] = IF srv[c] \in {"clean", "ended"} THEN Dead ELSE c]
  /\ reserved' = reserved \ {n}
  /\ EndRequest(c)
  /\ UNCHANGED <<srv, snap, count, link>>

Reaches(c) == conn = c /\ srv[c] = "live" /\ link = "up"

(* The answer arrives; Run keeps the name it got for the next time and     *)
(* goes on to serve.                                                       *)
Granted(n) ==
  /\ pc = "request" /\ Reaches(conn) /\ Assign(conn, n)
  /\ pc' = "serve" /\ backoff' = BaseBackoff
  /\ subdomain' = IF type = "http" THEN n ELSE subdomain
  /\ UNCHANGED <<conn, type>>

(* The answer is lost: the session holds a name nobody serves.             *)
GrantLost(c, n) == Assign(c, n) /\ UNCHANGED clientVars

DecrementTunnels == count' = IF count > 0 THEN count - 1 ELSE 0

(* A name is taken or no port could be bound: the count is given back.     *)
RefundRequest(c) ==
  /\ c \in charged
  /\ type = "tcp" \/ \E n \in Names : Wanted(c, n) /\ ~ Available(n)
  /\ DecrementTunnels /\ EndRequest(c)
  /\ UNCHANGED <<clientVars, srv, snap, registryVars, link>>

---------------------------------------------------------------------------
(* Connection goroutine                                                    *)

(* Close ends the session from the client's side.                          *)
Gone(c) == link = "down" \/ conn # c

HeldBy(c) == {n \in Names : holder[n] = c}

(* The message loop's Decode fails; a request may not have arrived.        *)
ServerNotices(c) ==
  /\ srv[c] = "live" /\ Gone(c) /\ c \notin charged
  /\ srv' = [srv EXCEPT ![c] = "closing"]
  /\ req' = [req EXCEPT ![c] = None]
  /\ UNCHANGED <<clientVars, snap, count, charged, registryVars, link>>

(* The idle timer fires when no heartbeat comes, and the subdomains, not   *)
(* ports, are reserved.  The loop goes on with what it has.                *)
ServerIdles(c) ==
  /\ srv[c] = "live" /\ (link = "down" \/ conn # c \/ pc # "serve")
  /\ srv' = [srv EXCEPT ![c] = "closing"]
  /\ reserved' = IF type = "http" THEN reserved \cup HeldBy(c) ELSE reserved
  /\ UNCHANGED <<clientVars, snap, count, loopVars, holder, link>>

(* cleanupSession: look the names up, unregister and refund each of them.  *)
Snapshot(c) ==
  /\ srv[c] = "closing"
  /\ srv' = [srv EXCEPT ![c] = "clean"]
  /\ snap' = [snap EXCEPT ![c] = HeldBy(c)]
  /\ UNCHANGED <<clientVars, count, loopVars, registryVars, link>>

Free(n) == holder' = [holder EXCEPT ![n] = None] /\ reserved' = reserved \ {n}

(* Faulty variant: the switch has no case for "http".                      *)
Unregister_TCPOnly(c, n) ==
  /\ srv[c] = "clean" /\ n \in snap[c]
  /\ IF type = "tcp" THEN Free(n) ELSE UNCHANGED registryVars
  /\ DecrementTunnels
  /\ snap' = [snap EXCEPT ![c] = @ \ {n}]
  /\ UNCHANGED <<clientVars, srv, loopVars, link>>

Unregister(c, n) ==
  /\ srv[c] = "clean" /\ n \in snap[c]
  /\ Free(n) /\ DecrementTunnels
  /\ snap' = [snap EXCEPT ![c] = @ \ {n}]
  /\ UNCHANGED <<clientVars, srv, loopVars, link>>

CleanupDone(c) ==
  /\ srv[c] = "clean" /\ snap[c] = {}
  /\ srv' = [srv EXCEPT ![c] = "ended"]
  /\ UNCHANGED <<clientVars, snap, count, loopVars, registryVars, link>>

(* The loop ends, too, with a request it has not read or without.          *)
LoopEnds(c) ==
  /\ srv[c] = "ended" /\ conn # c /\ c \notin charged
  /\ srv' = [srv EXCEPT ![c] = "none"]
  /\ req' = [req EXCEPT ![c] = None]
  /\ UNCHANGED <<clientVars, snap, count, charged, registryVars, link>>

---------------------------------------------------------------------------
(* Reaper, admin, network and the other clients                            *)

(* A reservation expires and is reaped.                                    *)
Reap(n) ==
  /\ n \in reserved /\ Free(n)
  /\ UNCHANGED <<clientVars, srv, snap, count, loopVars, link>>

(* KillTunnelByID: the entry is deleted and the session closed; the count  *)
(* is not given back.                                                      *)
Kill(n) ==
  /\ holder[n] \in Conns \cup {Dead} /\ Free(n)
  /\ srv' = [c \in Conns |-> IF holder[n] = c /\ srv[c] = "live" THEN "closing" ELSE srv[c]]
  /\ UNCHANGED <<clientVars, snap, count, loopVars, link>>

(* The path of the connection in use fails: nothing arrives any more.      *)
PathFails ==
  /\ conn # None /\ link = "up" /\ link' = "down"
  /\ UNCHANGED <<clientVars, serverVars>>

OtherTakes(n) ==
  /\ holder[n] = None
  /\ holder' = [holder EXCEPT ![n] = Other]
  /\ UNCHANGED <<clientVars, srv, snap, count, loopVars, reserved, link>>

OtherReleases(n) ==
  /\ holder[n] = Other /\ Free(n)
  /\ UNCHANGED <<clientVars, srv, snap, count, loopVars, link>>

---------------------------------------------------------------------------
Cleanup(c) == \/ ServerNotices(c) \/ ServerIdles(c) \/ Snapshot(c) \/ CleanupDone(c)
              \/ LoopEnds(c) \/ \E n \in Names : Unregister(c, n)

Handle(c) == \/ Charge(c) \/ Refuse(c) \/ RefundRequest(c)
             \/ \E n \in Names : GrantLost(c, n)

Next ==
  \/ \E c \in Conns : Connect(c) \/ Cleanup(c) \/ Handle(c)
  \/ ConnectFails \/ Wait \/ Refused \/ Lost \/ Stop \/ PathFails
  \/ \E n \in Names : Granted(n) \/ Reap(n) \/ Kill(n) \/ OtherTakes(n) \/ OtherReleases(n)

Spec == Init /\ [][Next]_vars

(* The path fails, or the idle timer fires, before a request is answered.  *)
CutOff ==
  pc = "request" /\ (PathFails \/ \E c \in Conns : conn = c /\ ServerIdles(c))

(* Goroutines and timers run.  The server is reachable again and again: an *)
(* attempt to connect does not fail every time, the rate limiter does not  *)
(* refuse every request, the answer to one that could be granted is not    *)
(* lost every time, and requests are not cut off for ever.  Nothing is     *)
(* assumed of the other clients, of kills or of the path once a tunnel is  *)
(* up.                                                                     *)
FairSpec ==
  /\ Spec
  /\ WF_vars(Wait) /\ WF_vars(Lost) /\ WF_vars(Refused)
  /\ SF_vars(\E c \in Conns : Connect(c))
  /\ SF_vars(\E c \in Conns : Reaches(c) /\ Charge(c))
  /\ <>[][~ CutOff]_vars
  /\ SF_vars(\E n \in Names : Granted(n))
  /\ \A c \in Conns : /\ WF_vars(Cleanup(c))
                      /\ WF_vars(Handle(c) \/ \E n \in Names : conn = c /\ Granted(n))

---------------------------------------------------------------------------
Asked(n) == subdomain \in {n, AnyName}

(* Every name the client would take is another client's, or a late         *)
(* registration of its own has left it to a closed session.                *)
Blocked == \A n \in Names : Asked(n) => holder[n] \in {Other, Dead}

(* The whole limit of the token is used up by counts that nobody gives     *)
(* back: no request is being handled, and no clean-up finds a tunnel.      *)
OutOfQuota ==
  /\ count = MaxTunnels /\ charged = {}
  /\ \A c \in Conns : snap[c] = {} /\ (srv[c] \in {"live", "closing"} => HeldBy(c) = {})

(* A client that has lost its connection serves again, unless it is        *)
(* stopped, its name is taken by another client or stranded with a closed  *)
(* session, or kills and reclaims have used up its token's count.  Its own *)
(* previous sessions, whose names the server still keeps, whose grants it  *)
(* never heard of, or which the server is cleaning up, stand in its way    *)
(* for a while only.                                                       *)
ComesBack ==
  pc \in {"connect", "wait"} ~> pc \in {"serve", "stopped"} \/ Blocked \/ OutOfQuota

(* A session the client has given up, by a closed client or a lost path,   *)
(* comes to hold no name, also when its loop was in the middle of the      *)
(* request as the client left or the idle timer fired.  (A name registered *)
(* after the clean-up looked is Dead's, and nobody's to return.)           *)
NamesReturn == \A c \in Conns : HeldBy(c) # {} /\ conn # c ~> HeldBy(c) = {}
=============================================================================
