--------------------------- MODULE ControlServer ---------------------------
(***************************************************************************)
(* The control plane of internal/server/server.go: one connection goroutine*)
(* per client (handleConnection), which starts a message-loop goroutine    *)
(* (the closure in handleControlSession), waits for it or for the idle     *)
(* timer, and then cleans up; the tunnel counts of auth.go and             *)
(* key_store.go; the anonymous-expiry goroutine and the admin's kill.      *)
(*                                                                         *)
(* Each access to state shared between goroutines (a critical section of   *)
(* the tunnel manager or of a token store, a listener, a session) is one   *)
(* step; what a goroutine does in between is local to it.                  *)
(*                                                                         *)
(* yamux is external.  A session may close at any time (peer gone, keep-   *)
(* alive lost).  A message that was buffered on the control stream before  *)
(* the close can still be decoded after it, so ReceiveTunnelReq does not   *)
(* ask for an open session; Decode fails some time after the close.        *)
(***************************************************************************)
EXTENDS TunnelManager, Naturals, FiniteSets

CONSTANTS Tokens,             \* API keys and legacy tokens
          MaxTunnels,         \* per-token limit (APIKey.MaxTunnels, maxTunnels)
          Requests,           \* TunnelRequest messages the clients may send
          SubdomainAttempts,  \* 10 in registerHTTPTunnel
          PortAttempts        \* 100 in RegisterTCP

ASSUME TokensAssumption ==
  /\ Tokens \subseteq AllTokens
  /\ MaxTunnels \in [Tokens -> Nat]

AnyName == "any"              \* empty Subdomain: assign a random one
BadName == "bad"              \* a name ValidateSubdomain rejects

ASSUME RequestsAssumption ==
  /\ AnyName \notin Subdomains /\ BadName \notin Subdomains /\ None \notin Requests
  /\ Requests \subseteq
       [type : TunnelTypes, name : Subdomains \cup {AnyName, BadName}]
ASSUME AttemptsAssumption ==
  SubdomainAttempts \in Nat \ {0} /\ PortAttempts \in Nat \ {0}
ASSUME FinitePool == IsFiniteSet(Tunnels)

VARIABLES main,         \* where the connection goroutine is
          loop,         \* where the message-loop goroutine is
          auth,         \* token the connection authenticated with
          req,          \* TunnelRequest being handled by the loop
          cur,          \* TunnelSession being registered by the loop
          tries,        \* attempts made by the current random allocation
          cand,         \* candidate port between the first check and Listen
          snap,         \* result of SessionTunnels still to be worked off
          item,         \* tunnel of snap being cleaned up
          victim,       \* tunnel whose listener UnregisterTCP must close
          tunnelCount,  \* tunnelCount / TunnelCount of each token
          toKill        \* IDs collected by the anonymous-expiry scan

connVars == <<main, auth, snap, item, victim>>
loopVars == <<loop, req, cur, tries, cand>>
vars == <<tmVars, connVars, loopVars, tunnelCount, toKill>>

AnonTokens == AllTokens \ Tokens      \* "anon:<IP>"

MainSteps == {"new", "accept", "select", "reserve", "close", "snapshot",
              "unregister", "closeListener", "refund", "done"}
LoopSteps == {"off", "read", "anon", "charge", "http", "pick", "listen",
              "insert", "refund", "exit"}

TypeOK ==
  /\ TMTypeOK
  /\ main \in [Sessions -> MainSteps]
  /\ loop \in [Sessions -> LoopSteps]
  /\ auth \in [Sessions -> AllTokens \cup {None}]
  /\ req \in [Sessions -> Requests \cup {None}]
  /\ cur \in [Sessions -> Tunnels \cup {None}]
  /\ tries \in [Sessions -> Nat]
  /\ cand \in [Sessions -> Ports \cup {None}]
  /\ snap \in [Sessions -> SUBSET Tunnels]
  /\ item \in [Sessions -> Tunnels \cup {None}]
  /\ victim \in [Sessions -> Tunnels \cup {None}]
  /\ tunnelCount \in [Tokens -> Nat]
  /\ toKill \subseteq Tunnels

Init ==
  /\ TMInit
  /\ main = [c \in Sessions |-> "new"]
  /\ loop = [c \in Sessions |-> "off"]
  /\ auth = [c \in Sessions |-> None]
  /\ req = [c \in Sessions |-> None]
  /\ cur = [c \in Sessions |-> None]
  /\ tries = [c \in Sessions |-> 0]
  /\ cand = [c \in Sessions |-> None]
  /\ snap = [c \in Sessions |-> {}]
  /\ item = [c \in Sessions |-> None]
  /\ victim = [c \in Sessions |-> None]
  /\ tunnelCount = [t \in Tokens |-> 0]
  /\ toKill = {}

MainTo(c, from, to) == main[c] = from /\ main' = [main EXCEPT ![c] = to]
LoopTo(c, from, to) == loop[c] = from /\ loop' = [loop EXCEPT ![c] = to]

(* Faulty variant: one tunnel too many.                                    *)
UnderLimit_OffByOne(t) == t \in Tokens => tunnelCount[t] <= MaxTunnels[t]

(* IncrementTunnels / DecrementTunnels of TokenStore and KeyStore: refuse  *)
(* at the limit, floor at zero; anonymous tokens are not counted.          *)
UnderLimit(t) == t \in Tokens => tunnelCount[t] < MaxTunnels[t]

IncrementTunnels(t) ==
  tunnelCount' = IF t \in Tokens THEN [tunnelCount EXCEPT ![t] = @ + 1]
                 ELSE tunnelCount

DecrementTunnels(t) ==
  tunnelCount' = IF t \in Tokens /\ tunnelCount[t] > 0
                 THEN [tunnelCount EXCEPT ![t] = @ - 1]
                 ELSE tunnelCount

---------------------------------------------------------------------------
(* handleConnection: authentication                                        *)

Authenticate(c, t) ==
  /\ MainTo(c, "new", "accept")
  /\ auth' = [auth EXCEPT ![c] = t]
  /\ UNCHANGED <<tmVars, snap, item, victim, loopVars, tunnelCount, toKill>>

(* Rate-limited address, bad first message, unknown or revoked token, or   *)
(* the authTimeout deadline: the connection ends with no session.  *)
RejectConnection(c) ==
  /\ MainTo(c, "new", "done")
  /\ UNCHANGED <<tmVars, auth, snap, item, victim, loopVars, tunnelCount, toKill>>

(* handleControlSession: the control stream is accepted (one opened before *)
(* a close may still be handed out) and the message loop is started, or    *)
(* AcceptStream fails and the deferred clean-up runs.                      *)
AcceptControlStream(c) ==
  /\ MainTo(c, "accept", "select")
  /\ LoopTo(c, "off", "read")
  /\ UNCHANGED <<tmVars, auth, snap, item, victim, req, cur, tries, cand,
                 tunnelCount, toKill>>

AcceptFails(c) ==
  /\ c \in closed
  /\ MainTo(c, "accept", "close")
  /\ UNCHANGED <<tmVars, auth, snap, item, victim, loopVars, tunnelCount, toKill>>

(* The peer, the network or yamux closes the session.                      *)
SessionLost(c) ==
  /\ main[c] \notin {"new", "done"} /\ c \notin closed
  /\ CloseSession(c)
  /\ UNCHANGED <<connVars, loopVars, tunnelCount, toKill>>

---------------------------------------------------------------------------
(* The message loop and handleTunnelRequest.  A request with a bad local   *)
(* port, and any message but TunnelReq, changes no shared state.           *)

(* Anonymous clients get random HTTP names only; the others are refused    *)
(* before anything is touched.                                             *)
ReceiveTunnelReq(c, r) ==
  /\ auth[c] \in AnonTokens => r.type # "tcp" /\ r.name = AnyName
  /\ LoopTo(c, "read", IF auth[c] \in AnonTokens THEN "anon" ELSE "charge")
  /\ req' = [req EXCEPT ![c] = r]
  /\ UNCHANGED <<tmVars, connVars, cur, tries, cand, tunnelCount, toKill>>

(* The request is over: its locals go out of scope.                        *)
EndRequest(c) ==
  /\ loop' = [loop EXCEPT ![c] = "read"]
  /\ req' = [req EXCEPT ![c] = None]
  /\ cur' = [cur EXCEPT ![c] = None]
  /\ tries' = [tries EXCEPT ![c] = 0]
  /\ cand' = [cand EXCEPT ![c] = None]

(* Faulty variant: len(existing) > 1.                                      *)
AnonAllowed_UpToOne(t) == Cardinality(TunnelsForAnon(t)) <= 1

(* "Enforce 1 tunnel per anonymous IP": a read of the registry, separate   *)
(* from the registration that follows.                                     *)
AnonAllowed(t) == TunnelsForAnon(t) = {}

CheckAnonymous(c) ==
  /\ AnonAllowed(auth[c])
  /\ LoopTo(c, "anon", "charge")
  /\ UNCHANGED <<tmVars, connVars, req, cur, tries, cand, tunnelCount, toKill>>

RefuseAnonymous(c) ==
  /\ loop[c] = "anon" /\ ~ AnonAllowed(auth[c])
  /\ EndRequest(c)
  /\ UNCHANGED <<tmVars, connVars, tunnelCount, toKill>>

(* The rate limiter may refuse any request; IncrementTunnels refuses at    *)
(* the limit.                                                              *)
RefuseRequest(c) ==
  /\ loop[c] = "charge"
  /\ EndRequest(c)
  /\ UNCHANGED <<tmVars, connVars, tunnelCount, toKill>>

Handler(k) == CASE k = "http" -> "http" [] k = "tcp" -> "pick" [] OTHER -> "refund"

Charge(c, x) ==
  /\ UnderLimit(auth[c])
  /\ LoopTo(c, "charge", Handler(req[c].type))
  /\ IncrementTunnels(auth[c])
  /\ NewTunnel(x, c, auth[c], req[c].type)
  /\ cur' = [cur EXCEPT ![c] = x]
  /\ UNCHANGED <<connVars, req, tries, cand, toKill>>

(* A random allocation tries again until its attempts are used up.         *)
Retry(c, step, limit) ==
  /\ tries' = [tries EXCEPT ![c] = @ + 1]
  /\ loop' = [loop EXCEPT ![c] = IF tries[c] + 1 < limit THEN step ELSE "refund"]
  /\ cand' = [cand EXCEPT ![c] = None]
  /\ UNCHANGED <<req, cur>>

(* Faulty variant: the loop of attempts is not left after a success.       *)
HTTPRegistered_NoBreak(c, s) ==
  /\ loop[c] = "http" /\ req[c].name \in {s, AnyName}
  /\ RegisterHTTP(s, cur[c])
  /\ UNCHANGED <<connVars, loopVars, tunnelCount, toKill>>

(* registerHTTPTunnel: a random name is drawn until one is available, a    *)
(* requested one is tried once.                                            *)
HTTPRegistered(c, s) ==
  /\ loop[c] = "http" /\ req[c].name \in {s, AnyName}
  /\ RegisterHTTP(s, cur[c])
  /\ EndRequest(c)
  /\ UNCHANGED <<connVars, tunnelCount, toKill>>

HTTPCollision(c, s) ==
  /\ loop[c] = "http" /\ req[c].name = AnyName
  /\ ~ Available(s, auth[c])
  /\ Retry(c, "http", SubdomainAttempts)
  /\ UNCHANGED <<tmVars, connVars, tunnelCount, toKill>>

HTTPRefused(c) ==
  /\ LoopTo(c, "http", "refund")
  /\ req[c].name # AnyName
  /\ req[c].name \in Subdomains => ~ Available(req[c].name, auth[c])
  /\ UNCHANGED <<tmVars, connVars, req, cur, tries, cand, tunnelCount, toKill>>

(* registerTCPTunnel -> StartTCPTunnel -> RegisterTCP                      *)
PickPort(c, p) ==
  /\ loop[c] = "pick"
  /\ IF tcpTunnels[p] = None
     THEN /\ LoopTo(c, "pick", "listen")
          /\ cand' = [cand EXCEPT ![c] = p]
          /\ UNCHANGED <<req, cur, tries>>
     ELSE Retry(c, "pick", PortAttempts)
  /\ UNCHANGED <<tmVars, connVars, tunnelCount, toKill>>

ListenPort(c) ==
  /\ LoopTo(c, "listen", "insert")
  /\ Listen(cur[c], cand[c])
  /\ UNCHANGED <<connVars, req, cur, tries, cand, tunnelCount, toKill>>

(* Busy at OS level: one of ours, or another process's.                    *)
ListenFails(c) ==
  /\ loop[c] = "listen"
  /\ Retry(c, "pick", PortAttempts)
  /\ UNCHANGED <<tmVars, connVars, tunnelCount, toKill>>

InsertPort(c) ==
  /\ loop[c] = "insert"
  /\ IF tcpTunnels[port[cur[c]]] = None
     THEN EndRequest(c)
     ELSE Retry(c, "pick", PortAttempts)
  /\ InsertTCP(cur[c])
  /\ UNCHANGED <<connVars, tunnelCount, toKill>>

(* The error paths of the handlers give the charge back.                   *)
RefundRequest(c) ==
  /\ loop[c] = "refund"
  /\ DecrementTunnels(auth[c])
  /\ EndRequest(c)
  /\ UNCHANGED <<tmVars, connVars, toKill>>

(* Faulty variant: done is unbuffered and the loop waits for the receiver. *)
LoopEnds_Unbuffered(c) ==
  /\ LoopTo(c, "read", "exit")
  /\ main[c] = "select"
  /\ UNCHANGED <<tmVars, connVars, req, cur, tries, cand, tunnelCount, toKill>>

(* Decode fails (or a heartbeat cannot be acknowledged) and the loop sends *)
(* on done, a channel with room for the one value it will ever carry, so   *)
(* it does not wait for the connection goroutine to receive it.            *)
LoopEnds(c) ==
  /\ LoopTo(c, "read", "exit")
  /\ UNCHANGED <<tmVars, connVars, req, cur, tries, cand, tunnelCount, toKill>>

---------------------------------------------------------------------------
(* The select of handleControlSession and the deferred clean-up            *)

LoopEnded(c) ==
  /\ loop[c] = "exit"
  /\ MainTo(c, "select", "close")
  /\ UNCHANGED <<tmVars, auth, snap, item, victim, loopVars, tunnelCount, toKill>>

(* The idle timer wins the select.  The loop is not stopped: it may be in  *)
(* the middle of a request that arrived just as the timer fired.           *)
IdleTimeout(c) ==
  /\ MainTo(c, "select", "reserve")
  /\ snap' = [snap EXCEPT ![c] = {x \in SessionTunnels(c) : type[x] = "http"}]
  /\ UNCHANGED <<tmVars, auth, item, victim, loopVars, tunnelCount, toKill>>

ReserveNext(c, x) ==
  /\ main[c] = "reserve" /\ x \in snap[c]
  /\ ReserveHTTP(subdomain[x])
  /\ snap' = [snap EXCEPT ![c] = @ \ {x}]
  /\ UNCHANGED <<main, auth, item, victim, loopVars, tunnelCount, toKill>>

ReserveDone(c) ==
  /\ snap[c] = {}
  /\ MainTo(c, "reserve", "close")
  /\ UNCHANGED <<tmVars, auth, snap, item, victim, loopVars, tunnelCount, toKill>>

CloseOwnSession(c) ==
  /\ MainTo(c, "close", "snapshot")
  /\ CloseSession(c)
  /\ UNCHANGED <<auth, snap, item, victim, loopVars, tunnelCount, toKill>>

(* cleanupSession: one read of the registry, then unregister and refund    *)
(* each tunnel it returned, by name or port, in any (map) order.           *)
SnapshotTunnels(c) ==
  /\ MainTo(c, "snapshot", "unregister")
  /\ snap' = [snap EXCEPT ![c] = SessionTunnels(c)]
  /\ UNCHANGED <<tmVars, auth, item, victim, loopVars, tunnelCount, toKill>>

CleanHTTP(c, x) ==
  /\ x \in snap[c] /\ type[x] = "http"
  /\ MainTo(c, "unregister", "refund")
  /\ UnregisterHTTP(subdomain[x])
  /\ item' = [item EXCEPT ![c] = x]
  /\ UNCHANGED <<auth, snap, victim, loopVars, tunnelCount, toKill>>

CleanTCP(c, x) ==
  /\ x \in snap[c] /\ type[x] = "tcp"
  /\ MainTo(c, "unregister",
            IF tcpTunnels[port[x]] = None THEN "refund" ELSE "closeListener")
  /\ UnregisterTCP(port[x])
  /\ victim' = [victim EXCEPT ![c] = tcpTunnels[port[x]]]
  /\ item' = [item EXCEPT ![c] = x]
  /\ UNCHANGED <<auth, snap, loopVars, tunnelCount, toKill>>

(* Faulty variant: closes the listener of the tunnel it is cleaning up,    *)
(* not of the one it took out of the map.                                  *)
CloseVictim_OfItem(c) ==
  /\ MainTo(c, "closeListener", "refund")
  /\ CloseListener(item[c])
  /\ victim' = [victim EXCEPT ![c] = None]
  /\ UNCHANGED <<auth, snap, item, loopVars, tunnelCount, toKill>>

CloseVictim(c) ==
  /\ MainTo(c, "closeListener", "refund")
  /\ CloseListener(victim[c])
  /\ victim' = [victim EXCEPT ![c] = None]
  /\ UNCHANGED <<auth, snap, item, loopVars, tunnelCount, toKill>>

RefundNext(c) ==
  /\ MainTo(c, "refund", "unregister")
  /\ DecrementTunnels(auth[c])
  /\ snap' = [snap EXCEPT ![c] = @ \ {item[c]}]
  /\ item' = [item EXCEPT ![c] = None]
  /\ UNCHANGED <<tmVars, auth, victim, loopVars, toKill>>

CleanupDone(c) ==
  /\ snap[c] = {}
  /\ MainTo(c, "unregister", "done")
  /\ UNCHANGED <<tmVars, auth, snap, item, victim, loopVars, tunnelCount, toKill>>

---------------------------------------------------------------------------
(* Background goroutines and the admin                                     *)

(* StartAnonymousExpiry: collect the IDs of old anonymous tunnels under    *)
(* the read lock (any of them may be old enough), then kill them one at a  *)
(* time.                                                                   *)
AnonymousAged ==
  {x \in Tunnels : /\ token[x] \in AnonTokens
                   /\ InTCP(x) \/ (InHTTP(x) /\ reserved[x] = "no")}

ExpiryScan ==
  /\ toKill = {}
  /\ \E X \in (SUBSET AnonymousAged) \ {{}} : toKill' = X
  /\ UNCHANGED <<tmVars, connVars, loopVars, tunnelCount>>

ExpiryKill(x) ==
  /\ x \in toKill
  /\ toKill' = toKill \ {x}
  /\ IF Registered(x) THEN KillTunnelByID(x) ELSE UNCHANGED tmVars
  /\ UNCHANGED <<connVars, loopVars, tunnelCount>>

(* POST /_admin/api/tunnels/{id}/kill                                      *)
AdminKill(x) ==
  /\ KillTunnelByID(x)
  /\ UNCHANGED <<connVars, loopVars, tunnelCount, toKill>>

ReaperTick == Reap /\ UNCHANGED <<connVars, loopVars, tunnelCount, toKill>>

ClockPasses(x) ==
  /\ ReservationExpires(x)
  /\ UNCHANGED <<connVars, loopVars, tunnelCount, toKill>>

---------------------------------------------------------------------------
(* Steps of the connection goroutine and of the message loop that the      *)
(* scheduler must eventually run: none of them waits for the client.       *)
MainStep(c) ==
  \/ AcceptFails(c) \/ LoopEnded(c) \/ ReserveDone(c) \/ CloseOwnSession(c)
  \/ SnapshotTunnels(c) \/ CloseVictim(c) \/ RefundNext(c) \/ CleanupDone(c)
  \/ \E x \in Tunnels : ReserveNext(c, x) \/ CleanHTTP(c, x) \/ CleanTCP(c, x)

RequestStep(c) ==
  \/ CheckAnonymous(c) \/ RefuseAnonymous(c) \/ RefuseRequest(c)
  \/ \E x \in Tunnels : Charge(c, x)
  \/ \E s \in Subdomains : HTTPRegistered(c, s) \/ HTTPCollision(c, s)
  \/ HTTPRefused(c)
  \/ \E p \in Ports : PickPort(c, p)
  \/ ListenPort(c) \/ ListenFails(c) \/ InsertPort(c) \/ RefundRequest(c)

ClientStep(c) ==
  \/ \E t \in AllTokens : Authenticate(c, t)
  \/ RejectConnection(c) \/ AcceptControlStream(c) \/ SessionLost(c)
  \/ \E r \in Requests : ReceiveTunnelReq(c, r)
  \/ LoopEnds(c) \/ IdleTimeout(c)

BackgroundStep ==
  \/ ExpiryScan \/ ReaperTick
  \/ \E x \in Tunnels : ExpiryKill(x) \/ AdminKill(x) \/ ClockPasses(x)

(* All connections are over; the server waits for the next one.            *)
Quiet == \A c \in Sessions : main[c] = "done" /\ loop[c] \in {"off", "exit"}

AllQuiet == Quiet /\ UNCHANGED vars

Next ==
  \/ \E c \in Sessions : MainStep(c) \/ RequestStep(c) \/ ClientStep(c)
  \/ BackgroundStep
  \/ AllQuiet

Spec == Init /\ [][Next]_vars

---------------------------------------------------------------------------
(* Safety                                                                  *)

(* A request past IncrementTunnels that has not been registered yet.       *)
InFlight(x) ==
  \E c \in Sessions :
    cur[c] = x /\ loop[c] \in {"http", "pick", "listen", "insert", "refund"}

(* A tunnel whose refund cleanupSession still owes.                        *)
RefundOwed(x) ==
  \E c \in Sessions :
    x \in snap[c] /\ main[c] \in {"unregister", "closeListener", "refund"}

Outstanding(t) ==
  {x \in Tunnels : token[x] = t /\ (Registered(x) \/ InFlight(x) \/ RefundOwed(x))}

(* The tunnel count of a token never falls below the number of tunnels the *)
(* token really has, whatever cleanupSession, the error paths of           *)
(* handleTunnelRequest, kills and reclaims do to each other, and it never  *)
(* passes the limit: IncrementTunnels can therefore enforce the limit.     *)
QuotaCovers ==
  \A t \in Tokens : /\ Cardinality(Outstanding(t)) <= tunnelCount[t]
                    /\ tunnelCount[t] <= MaxTunnels[t]

(* What nobody will take down: a registered tunnel that its session's      *)
(* clean-up has missed, or an open listener outside the registry that no   *)
(* RegisterTCP is about to insert and no UnregisterTCP about to close.     *)
PastSnapshot(c) == main[c] \in {"unregister", "closeListener", "refund", "done"}

Stranded(x) ==
  \/ Registered(x) /\ PastSnapshot(session[x]) /\ x \notin snap[session[x]]
  \/ /\ listener[x] = "open" /\ ~ Registered(x)
     /\ \A c \in Sessions : /\ loop[c] = "insert" => cur[c] # x
                            /\ main[c] = "closeListener" => victim[c] # x

(* A name or a bound port is left behind in one way only: its session's    *)
(* message loop registers it after cleanupSession has looked at the        *)
(* registry.  No clean-up misses what was registered before, whatever      *)
(* UnregisterHTTP, UnregisterTCP, kills and other clean-ups remove or      *)
(* close in between, and no unregistered listener stays open.              *)
OnlyLateRegistrationsStrand ==
  [][\A x \in Tunnels : Stranded(x)' /\ ~ Stranded(x) =>
       \E c \in Sessions : /\ cur[c] = x /\ loop[c] \in {"http", "insert"}
                           /\ PastSnapshot(c)]_vars

(* The limit of one tunnel per anonymous address is checked before the     *)
(* registration and not with it; what the check still guarantees is that   *)
(* one connection never has two live anonymous tunnels.                    *)
AnonOnePerSession ==
  \A x, y \in Tunnels :
    /\ session[x] = session[y] /\ token[x] \in AnonTokens
    /\ x \in TunnelsForAnon(token[x]) /\ y \in TunnelsForAnon(token[x])
    => x = y

---------------------------------------------------------------------------
(* Documented promises that the code does not keep                         *)

(* phase-04-tcp-tunnel-port-forwarding.md: "Session disconnect cleans up   *)
(* all allocated ports".  So when both goroutines of a session have ended  *)
(* no TCP tunnel of it is registered.  Violated: the idle branch does not  *)
(* stop the message loop, which may register a port after the clean-up.    *)
DisconnectFreesPorts ==
  \A c \in Sessions : main[c] = "done" /\ loop[c] \in {"off", "exit"} =>
    \A x \in Tunnels : session[x] = c => ~ InTCP(x)

(* phase-06-connection-resilience.md lists the race "client reconnects     *)
(* while server still cleaning up" as dealt with by the token check and    *)
(* the mutex.  So a clean-up that comes to a tunnel it has reserved        *)
(* removes no tunnel of another session, such as the new one of the client *)
(* that has reclaimed the name.  Violated: cleanupSession unregisters by   *)
(* name what it saw in its snapshot, and undoes a reclaim made in between. *)
ReclaimSurvivesCleanup ==
  [][\A c \in Sessions : \A x \in snap[c] :
       /\ main[c] = "unregister" /\ item'[c] = x
       /\ type[x] = "http" /\ reserved[x] = "held"
       => \A y \in Tunnels : httpTunnels[subdomain[x]] = y => session[y] = c]_vars

---------------------------------------------------------------------------
(* Refinement                                                              *)

HolderOf(e) == IF e \in Subdomains THEN httpTunnels[e] ELSE tcpTunnels[e]
leaseMap == [e \in Subdomains \cup Ports |->
               IF HolderOf(e) = None THEN None ELSE token[HolderOf(e)]]

Lease == INSTANCE TunnelLease
           WITH Endpoints <- Subdomains \cup Ports, Holders <- AllTokens,
                Limited <- Tokens, Limit <- MaxTunnels, Nobody <- None,
                lease <- leaseMap

(* The server implements the lease service: endpoints go to one token at a *)
(* time, pass between tokens only through being free, and a token is       *)
(* granted one only below its limit.                                       *)
ImplementsLease == Lease!LSpec

---------------------------------------------------------------------------
(* Liveness.  The Go scheduler runs every runnable goroutine eventually:   *)
(* weak fairness for the steps of a connection goroutine and for those of  *)
(* a request.  What was buffered before a session closed is finite, so not *)
(* every Decode after the close can succeed: strong fairness for the loop  *)
(* of a closed session to end.  Timers: the clock advances and the reaper  *)
(* ticks.  Nothing is assumed of clients, timeouts or kills.               *)
Fairness ==
  /\ \A c \in Sessions : /\ WF_vars(MainStep(c))
                         /\ WF_vars(RequestStep(c))
                         /\ SF_vars(c \in closed /\ LoopEnds(c))
  /\ WF_vars(ReaperTick)
  /\ \A x \in Tunnels : WF_vars(ClockPasses(x))

FairSpec == Spec /\ Fairness

(* When a session closes, for whatever reason, both of its goroutines end: *)
(* the clean-up always completes, and the loop never waits forever to send *)
(* on done after an idle timeout took the receiver away.                   *)
SessionEnds ==
  \A c \in Sessions :
    c \in closed ~> main[c] = "done" /\ loop[c] \in {"off", "exit"}

(* A reserved name is held for a bounded time only: every reservation is   *)
(* removed or reclaimed in the end, so no name is blocked for good by it.  *)
ReservationsEnd ==
  \A x \in Tunnels : (InHTTP(x) /\ reserved[x] # "no") ~> ~ InHTTP(x)
=============================================================================
