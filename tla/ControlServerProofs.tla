------------------------ MODULE ControlServerProofs ------------------------
(***************************************************************************)
(* The control plane keeps the registry consistent, never undercounts a    *)
(* token's tunnels and leaves no name or port behind except one registered *)
(* after the clean-up, for any number of connections, tunnels, tokens,     *)
(* names and ports.                                                        *)
(***************************************************************************)
EXTENDS ControlServer, FiniteSetTheorems, TLAPS

---------------------------------------------------------------------------
(* The registry, under arbitrary callers.                                  *)

(* An object has no type before it is built, only a TCP tunnel that has    *)
(* recorded its port has an open listener, and a pending close finds it    *)
(* open.                                                                   *)
ObjectsBuilt ==
  \A x \in Tunnels :
    /\ session[x] = None <=> type[x] = None
    /\ session[x] = None <=> token[x] = None
    /\ listener[x] = "open" => port[x] \in Ports /\ type[x] = "tcp"
    /\ x \in closing => listener[x] = "open"

OneListenerPerPort ==
  \A x, y \in Tunnels :
    listener[x] = "open" /\ listener[y] = "open" /\ port[x] = port[y] => x = y

TMInv ==
  TMTypeOK /\ ObjectsBuilt /\ EntriesIndexed /\ RegisteredPortsListen /\ OneListenerPerPort

(* The re-check of RegisterTCP finds its port free: an entry there would   *)
(* have a second listener on a port this allocation has bound.             *)
LEMMA RegistryInvHolds == TMInv => RegistryInv
<1> SUFFICES ASSUME TMInv, NEW x \in Tunnels, Allocating(x)
             PROVE  tcpTunnels[port[x]] = None
  BY DEF TMInv, RegistryInv, BoundPortsExclusive, OneListenerPerPort
<1>1. port[x] \in Ports /\ listener[x] = "open"
  BY DEF TMInv, ObjectsBuilt, Allocating
<1>2. ASSUME tcpTunnels[port[x]] # None PROVE FALSE
  <2> DEFINE y == tcpTunnels[port[x]]
  <2>1. y \in Tunnels /\ listener[y] = "open" /\ port[y] = port[x]
    BY <1>1, <1>2 DEF TMInv, TMTypeOK, EntriesIndexed, RegisteredPortsListen
  <2>2. y = x
    BY <1>1, <2>1 DEF TMInv, OneListenerPerPort
  <2> QED BY <1>1, <2>2 DEF Allocating, InTCP
<1> QED BY <1>2

LEMMA TMInitInv == TMInit => TMInv
BY NoneIsNew DEF TMInit, TMInv, TMTypeOK, ObjectsBuilt, EntriesIndexed,
  RegisteredPortsListen, OneListenerPerPort

LEMMA TMNextInv == TMInv /\ [TMNext]_tmVars => TMInv'
<1> SUFFICES ASSUME TMInv, [TMNext]_tmVars PROVE TMInv'
  OBVIOUS
<1> USE NoneIsNew DEF TMInv
<1>1. ASSUME NEW x \in Tunnels, NEW c \in Sessions, NEW t \in AllTokens,
             NEW k \in TunnelTypes, NewTunnel(x, c, t, k)
      PROVE  TMInv'
  <2> USE <1>1 DEF NewTunnel, TunnelTypes
  <2>1. TMTypeOK'
    BY DEF TMTypeOK
  <2>2. ObjectsBuilt'
    BY DEF TMTypeOK, ObjectsBuilt
  <2>3. EntriesIndexed'
    BY DEF TMTypeOK, ObjectsBuilt, EntriesIndexed
  <2> QED BY <2>1, <2>2, <2>3 DEF RegisteredPortsListen, OneListenerPerPort
<1>2. ASSUME NEW x \in Tunnels, NEW s \in Subdomains,
             type[x] = "http", subdomain[x] = None, RegisterHTTP(s, x)
      PROVE  TMInv'
  <2> USE <1>2 DEF RegisterHTTP
  <2>1. TMTypeOK'
    BY DEF TMTypeOK
  <2>2. EntriesIndexed'
    BY DEF TMTypeOK, EntriesIndexed
  <2> QED BY <2>1, <2>2 DEF ObjectsBuilt, RegisteredPortsListen, OneListenerPerPort
<1>3. ASSUME NEW s \in Subdomains, UnregisterHTTP(s)
      PROVE  TMInv'
  BY <1>3 DEF UnregisterHTTP, TMTypeOK, ObjectsBuilt, EntriesIndexed,
    RegisteredPortsListen, OneListenerPerPort
<1>4. ASSUME NEW s \in Subdomains, ReserveHTTP(s)
      PROVE  TMInv'
  <2>1. TMTypeOK'
    BY <1>4 DEF ReserveHTTP, TMTypeOK
  <2> QED BY <1>4, <2>1 DEF ReserveHTTP, ObjectsBuilt, EntriesIndexed,
    RegisteredPortsListen, OneListenerPerPort
<1>5. ASSUME NEW x \in Tunnels, ReservationExpires(x)
      PROVE  TMInv'
  BY <1>5 DEF ReservationExpires, TMTypeOK, ObjectsBuilt, EntriesIndexed,
    RegisteredPortsListen, OneListenerPerPort
<1>6. CASE Reap
  BY <1>6 DEF Reap, TMTypeOK, ObjectsBuilt, EntriesIndexed,
    RegisteredPortsListen, OneListenerPerPort
<1>7. ASSUME NEW x \in Tunnels, NEW p \in Ports,
             type[x] = "tcp", listener[x] = "none", Listen(x, p)
      PROVE  TMInv'
  <2> USE <1>7 DEF Listen
  <2>1. TMTypeOK'
    BY DEF TMTypeOK
  <2>2. ObjectsBuilt'
    BY DEF TMTypeOK, ObjectsBuilt
  <2>3. EntriesIndexed' /\ RegisteredPortsListen'
    BY DEF TMTypeOK, EntriesIndexed, RegisteredPortsListen
  <2>4. OneListenerPerPort'
    BY DEF TMTypeOK, OneListenerPerPort, PortBusy
  <2> QED BY <2>1, <2>2, <2>3, <2>4
<1>8. ASSUME NEW x \in Tunnels, Allocating(x), InsertTCP(x)
      PROVE  TMInv'
  <2> USE <1>8 DEF InsertTCP
  <2>1. port[x] \in Ports /\ tcpTunnels[port[x]] = None
    BY RegistryInvHolds DEF RegistryInv, BoundPortsExclusive, ObjectsBuilt, Allocating
  <2>2. TMTypeOK'
    BY <2>1 DEF TMTypeOK
  <2>3. ObjectsBuilt'
    BY <2>1 DEF ObjectsBuilt
  <2>4. EntriesIndexed' /\ RegisteredPortsListen'
    BY <2>1 DEF TMTypeOK, EntriesIndexed, RegisteredPortsListen, Allocating
  <2>5. OneListenerPerPort'
    BY <2>1 DEF OneListenerPerPort
  <2> QED BY <2>2, <2>3, <2>4, <2>5
<1>9. ASSUME NEW p \in Ports, UnregisterTCP(p)
      PROVE  TMInv'
  <2> USE <1>9 DEF UnregisterTCP
  <2>1. TMTypeOK'
    BY DEF TMTypeOK
  <2>2. EntriesIndexed'
    BY DEF TMTypeOK, EntriesIndexed
  <2>3. RegisteredPortsListen'
    BY DEF TMTypeOK, EntriesIndexed, RegisteredPortsListen
  <2>4. ObjectsBuilt'
    BY DEF TMTypeOK, ObjectsBuilt, RegisteredPortsListen
  <2> QED BY <2>1, <2>2, <2>3, <2>4 DEF OneListenerPerPort
<1>10. ASSUME NEW x \in closing, CloseListener(x)
       PROVE  TMInv'
  <2> USE <1>10 DEF CloseListener
  <2>1. TMTypeOK' /\ x \in Tunnels
    BY DEF TMTypeOK
  <2>2. RegisteredPortsListen'
    BY <2>1 DEF TMTypeOK, RegisteredPortsListen
  <2> QED BY <2>1, <2>2 DEF TMTypeOK, ObjectsBuilt, EntriesIndexed, OneListenerPerPort
<1>11. ASSUME NEW x \in Tunnels, KillTunnelByID(x)
       PROVE  TMInv'
  <2> USE <1>11 DEF KillTunnelByID
  <2>1. session[x] \in Sessions
    BY DEF TMTypeOK, ObjectsBuilt, EntriesIndexed, Registered, InHTTP, InTCP
  <2>2. TMTypeOK'
    BY <2>1 DEF TMTypeOK
  <2>3. EntriesIndexed'
    BY DEF TMTypeOK, EntriesIndexed
  <2>4. RegisteredPortsListen'
    BY DEF TMTypeOK, RegisteredPortsListen
  <2>5. ObjectsBuilt' /\ OneListenerPerPort'
    BY DEF TMTypeOK, ObjectsBuilt, OneListenerPerPort, RegisteredPortsListen, InTCP
  <2> QED BY <2>2, <2>3, <2>4, <2>5
<1>12. ASSUME NEW c \in Sessions, CloseSession(c)
       PROVE  TMInv'
  BY <1>12 DEF CloseSession, TMTypeOK, ObjectsBuilt, EntriesIndexed,
    RegisteredPortsListen, OneListenerPerPort
<1>13. CASE UNCHANGED tmVars
  BY <1>13 DEF tmVars, TMTypeOK, ObjectsBuilt, EntriesIndexed,
    RegisteredPortsListen, OneListenerPerPort
<1> QED
  BY <1>1, <1>2, <1>3, <1>4, <1>5, <1>6, <1>7, <1>8, <1>9, <1>10, <1>11, <1>12,
     <1>13 DEF TMNext

(* Entries match their index, registered ports listen, bound ports are     *)
(* exclusive and the TOCTOU re-check never fires, whatever the callers do. *)
THEOREM RegistryIsConsistent == TMSpec => []RegistryInv
BY RegistryInvHolds, TMInitInv, TMNextInv, PTL DEF TMSpec

---------------------------------------------------------------------------
(* The control plane.                                                      *)

Flight == {"http", "pick", "listen", "insert", "refund"}
Cleaning == {"unregister", "closeListener", "refund"}

(* A tunnel carries the token of the connection that built it, and one     *)
(* that has not been built has no name and no listener.                    *)
TokenInv ==
  /\ \A c \in Sessions :
       /\ main[c] = "new" => auth[c] = None
       /\ main[c] \in {"new", "accept"} => loop[c] = "off"
       /\ main[c] \notin {"new", "done"} \/ loop[c] # "off" => auth[c] # None
  /\ \A x \in Tunnels :
       /\ session[x] # None => token[x] = auth[session[x]]
       /\ session[x] = None => subdomain[x] = None /\ listener[x] = "none"

(* The tunnel a loop is registering is its own: no map, no clean-up and no *)
(* pending close can reach it yet.                                         *)
LoopInv ==
  \A c \in Sessions :
    /\ loop[c] \in Flight =>
         /\ cur[c] \in Tunnels /\ session[cur[c]] = c
         /\ ~ Registered(cur[c]) /\ cur[c] \notin closing
         /\ \A d \in Sessions : main[d] \in Cleaning => cur[c] \notin snap[d]
    /\ loop[c] \notin Flight => cur[c] = None
    /\ loop[c] \in {"anon", "charge"} \cup Flight => req[c] \in Requests
    /\ loop[c] = "http" => type[cur[c]] = "http" /\ subdomain[cur[c]] = None
    /\ loop[c] \in {"pick", "listen"} => type[cur[c]] = "tcp" /\ listener[cur[c]] = "none"
    /\ loop[c] = "listen" => cand[c] \in Ports
    /\ loop[c] = "insert" => type[cur[c]] = "tcp" /\ listener[cur[c]] = "open"

(* What a clean-up works on was registered by its own session, and the     *)
(* tunnel it is about to refund has left the registry.                     *)
MainInv ==
  \A c \in Sessions :
    /\ main[c] \in Cleaning => \A x \in snap[c] :
         /\ session[x] = c
         /\ \/ type[x] = "http" /\ subdomain[x] \in Subdomains
            \/ type[x] = "tcp" /\ port[x] \in Ports
    /\ main[c] = "reserve" => \A x \in snap[c] : subdomain[x] \in Subdomains
    /\ main[c] \in {"closeListener", "refund"} =>
         item[c] \in snap[c] /\ ~ Registered(item[c])
    /\ main[c] = "closeListener" => victim[c] \in closing
    /\ \A d \in Sessions :
         main[c] = "closeListener" /\ main[d] = "closeListener" /\ victim[c] = victim[d]
           => c = d

(* An open listener is registered, or some goroutine is about to insert it *)
(* or to close it.                                                         *)
ListenersHeld ==
  \A x \in Tunnels : listener[x] = "open" =>
    \/ InTCP(x)
    \/ \E c \in Sessions : loop[c] = "insert" /\ cur[c] = x
    \/ \E c \in Sessions : main[c] = "closeListener" /\ victim[c] = x

CSInv ==
  /\ TypeOK /\ TMInv /\ TokenInv /\ LoopInv /\ MainInv
  /\ ListenersHeld /\ QuotaCovers

---------------------------------------------------------------------------
LEMMA RegisteredIsBuilt ==
  ASSUME TMInv, NEW x \in Tunnels, Registered(x)
  PROVE  /\ session[x] \in Sessions
         /\ \/ type[x] = "http" /\ InHTTP(x) /\ ~ InTCP(x) /\ subdomain[x] \in Subdomains
            \/ type[x] = "tcp" /\ InTCP(x) /\ ~ InHTTP(x) /\ port[x] \in Ports
BY NoneIsNew DEF TMInv, TMTypeOK, ObjectsBuilt, EntriesIndexed, Registered, InHTTP, InTCP

(* Every step of the server is a step of the registry or leaves it alone.  *)
LEMMA StepsKeepDiscipline == CSInv /\ [Next]_vars => [TMNext]_tmVars
<1> SUFFICES ASSUME CSInv, [Next]_vars PROVE [TMNext]_tmVars
  OBVIOUS
<1> USE DEF CSInv
<1>1. ASSUME NEW c \in Sessions, MainStep(c) PROVE [TMNext]_tmVars
  <2>1. CASE AcceptFails(c) \/ LoopEnded(c) \/ ReserveDone(c) \/ SnapshotTunnels(c)
               \/ RefundNext(c) \/ CleanupDone(c)
    BY <2>1 DEF AcceptFails, LoopEnded, ReserveDone, SnapshotTunnels, RefundNext, CleanupDone
  <2>2. CASE CloseOwnSession(c)
    BY <2>2 DEF CloseOwnSession, TMNext
  <2>3. CASE CloseVictim(c)
    BY <2>3 DEF CloseVictim, MainTo, MainInv, TMNext
  <2>4. ASSUME NEW x \in Tunnels, ReserveNext(c, x) PROVE [TMNext]_tmVars
    <3>1. subdomain[x] \in Subdomains /\ ReserveHTTP(subdomain[x])
      BY <2>4 DEF ReserveNext, MainInv
    <3> QED BY <3>1 DEF TMNext
  <2>5. ASSUME NEW x \in Tunnels, CleanHTTP(c, x) PROVE [TMNext]_tmVars
    <3>1. subdomain[x] \in Subdomains /\ UnregisterHTTP(subdomain[x])
      BY <2>5 DEF CleanHTTP, MainTo, MainInv, Cleaning
    <3> QED BY <3>1 DEF TMNext
  <2>6. ASSUME NEW x \in Tunnels, CleanTCP(c, x) PROVE [TMNext]_tmVars
    <3>1. port[x] \in Ports /\ UnregisterTCP(port[x])
      BY <2>6 DEF CleanTCP, MainTo, MainInv, Cleaning
    <3> QED BY <3>1 DEF TMNext
  <2> QED BY <1>1, <2>1, <2>2, <2>3, <2>4, <2>5, <2>6 DEF MainStep
<1>2. ASSUME NEW c \in Sessions, RequestStep(c) PROVE [TMNext]_tmVars
  <2>1. CASE CheckAnonymous(c) \/ RefuseAnonymous(c) \/ RefuseRequest(c) \/ HTTPRefused(c)
               \/ ListenFails(c) \/ RefundRequest(c)
    BY <2>1 DEF CheckAnonymous, RefuseAnonymous, RefuseRequest, HTTPRefused, ListenFails,
      RefundRequest
  <2>2. ASSUME NEW x \in Tunnels, Charge(c, x) PROVE [TMNext]_tmVars
    <3>1. auth[c] \in AllTokens /\ req[c].type \in TunnelTypes
      BY <2>2, RequestsAssumption DEF Charge, LoopTo, TypeOK, TokenInv, LoopInv, Flight
    <3> QED BY <2>2, <3>1 DEF Charge, TMNext
  <2>3. ASSUME NEW s \in Subdomains, HTTPRegistered(c, s) \/ HTTPCollision(c, s)
        PROVE  [TMNext]_tmVars
    <3>1. CASE HTTPRegistered(c, s)
      <4>1. /\ cur[c] \in Tunnels /\ type[cur[c]] = "http" /\ subdomain[cur[c]] = None
            /\ RegisterHTTP(s, cur[c])
        BY <3>1 DEF HTTPRegistered, LoopInv, Flight
      <4> QED BY <4>1 DEF TMNext
    <3> QED BY <2>3, <3>1 DEF HTTPCollision
  <2>4. ASSUME NEW p \in Ports, PickPort(c, p) PROVE [TMNext]_tmVars
    BY <2>4 DEF PickPort
  <2>5. CASE ListenPort(c)
    <3>1. /\ cur[c] \in Tunnels /\ cand[c] \in Ports
          /\ type[cur[c]] = "tcp" /\ listener[cur[c]] = "none"
          /\ Listen(cur[c], cand[c])
      BY <2>5 DEF ListenPort, LoopTo, LoopInv, Flight
    <3> QED BY <3>1 DEF TMNext
  <2>6. CASE InsertPort(c)
    <3>1. cur[c] \in Tunnels /\ Allocating(cur[c]) /\ InsertTCP(cur[c])
      BY <2>6 DEF InsertPort, LoopInv, Flight, Allocating, Registered
    <3> QED BY <3>1 DEF TMNext
  <2> QED BY <1>2, <2>1, <2>2, <2>3, <2>4, <2>5, <2>6 DEF RequestStep
<1>3. ASSUME NEW c \in Sessions, ClientStep(c) PROVE [TMNext]_tmVars
  <2>1. CASE SessionLost(c)
    BY <2>1 DEF SessionLost, TMNext
  <2> QED BY <1>3, <2>1 DEF ClientStep, Authenticate, RejectConnection,
    AcceptControlStream, ReceiveTunnelReq, LoopEnds, IdleTimeout
<1>4. CASE BackgroundStep
  <2>1. CASE ExpiryScan
    BY <2>1 DEF ExpiryScan
  <2>2. CASE ReaperTick
    BY <2>2 DEF ReaperTick, TMNext
  <2>3. ASSUME NEW x \in Tunnels, ExpiryKill(x) \/ AdminKill(x) \/ ClockPasses(x)
        PROVE  [TMNext]_tmVars
    BY <2>3 DEF ExpiryKill, AdminKill, ClockPasses, TMNext
  <2> QED BY <1>4, <2>1, <2>2, <2>3 DEF BackgroundStep
<1>5. CASE AllQuiet \/ UNCHANGED vars
  BY <1>5 DEF AllQuiet, vars
<1> QED BY <1>1, <1>2, <1>3, <1>4, <1>5 DEF Next

---------------------------------------------------------------------------
(* Counting                                                                *)

LEMMA OutstandingFinite ==
  ASSUME NEW t
  PROVE  IsFiniteSet(Outstanding(t)) /\ Cardinality(Outstanding(t)) \in Nat
BY FinitePool, FS_Subset, FS_CardinalityType DEF Outstanding

(* A step that charges nobody and makes no tunnel outstanding keeps the    *)
(* counts an upper bound.                                                  *)
LEMMA QuotaUncharged ==
  ASSUME QuotaCovers, tunnelCount \in [Tokens -> Nat], tunnelCount' = tunnelCount,
         \A t \in Tokens : Outstanding(t)' \subseteq Outstanding(t)
  PROVE  QuotaCovers'
<1> SUFFICES ASSUME NEW t \in Tokens
             PROVE  /\ Cardinality(Outstanding(t)') <= tunnelCount'[t]
                    /\ tunnelCount'[t] <= MaxTunnels[t]
  BY DEF QuotaCovers
<1>1. Cardinality(Outstanding(t)') <= Cardinality(Outstanding(t))
  BY OutstandingFinite, FS_Subset
<1>2. Cardinality(Outstanding(t)') \in Nat /\ Cardinality(Outstanding(t)) \in Nat
  BY <1>1, OutstandingFinite, FS_Subset, FS_CardinalityType
<1>3. Cardinality(Outstanding(t)) <= tunnelCount[t] /\ tunnelCount[t] <= MaxTunnels[t]
  BY DEF QuotaCovers
<1> QED BY <1>1, <1>2, <1>3, TokensAssumption

(* IncrementTunnels makes room for the one tunnel a request adds.          *)
LEMMA QuotaCharged ==
  ASSUME QuotaCovers, tunnelCount \in [Tokens -> Nat],
         NEW a, NEW x, UnderLimit(a), IncrementTunnels(a),
         \A t \in Tokens : Outstanding(t)' \subseteq
           IF t = a THEN Outstanding(t) \cup {x} ELSE Outstanding(t)
  PROVE  QuotaCovers'
<1> SUFFICES ASSUME NEW t \in Tokens
             PROVE  /\ Cardinality(Outstanding(t)') <= tunnelCount'[t]
                    /\ tunnelCount'[t] <= MaxTunnels[t]
  BY DEF QuotaCovers
<1> DEFINE old == Cardinality(Outstanding(t))
           new == Cardinality(Outstanding(t)')
<1>1. /\ old <= tunnelCount[t] /\ tunnelCount[t] <= MaxTunnels[t]
      /\ old \in Nat /\ tunnelCount[t] \in Nat /\ MaxTunnels[t] \in Nat
  BY OutstandingFinite, TokensAssumption DEF QuotaCovers
<1>2. CASE t = a
  <2>1. /\ IsFiniteSet(Outstanding(t) \cup {x})
        /\ Cardinality(Outstanding(t) \cup {x}) \in Nat
        /\ Cardinality(Outstanding(t) \cup {x}) <= old + 1
    <3>1. /\ IsFiniteSet(Outstanding(t) \cup {x})
          /\ Cardinality(Outstanding(t) \cup {x}) =
               IF x \in Outstanding(t) THEN old ELSE old + 1
      BY OutstandingFinite, FS_AddElement
    <3> HIDE DEF old
    <3> QED BY <1>1, <3>1
  <2>2. Outstanding(t)' \subseteq Outstanding(t) \cup {x}
    BY <1>2
  <2>3. new <= Cardinality(Outstanding(t) \cup {x}) /\ new \in Nat
    BY <2>1, <2>2, FS_Subset, FS_CardinalityType
  <2>4. tunnelCount'[t] = tunnelCount[t] + 1 /\ tunnelCount[t] < MaxTunnels[t]
    BY <1>2 DEF IncrementTunnels, UnderLimit
  <2> HIDE DEF old, new
  <2> QED BY <1>1, <2>1, <2>3, <2>4 DEF new
<1>3. CASE t # a
  <2>1. Outstanding(t)' \subseteq Outstanding(t)
    BY <1>3
  <2>2. new <= old /\ new \in Nat
    BY <2>1, OutstandingFinite, FS_Subset, FS_CardinalityType
  <2>3. tunnelCount'[t] = tunnelCount[t]
    BY <1>3 DEF IncrementTunnels
  <2> HIDE DEF old, new
  <2> QED BY <1>1, <2>2, <2>3 DEF new
<1> QED BY <1>2, <1>3

(* DecrementTunnels is matched by an outstanding tunnel that is no longer. *)
LEMMA QuotaRefunded ==
  ASSUME QuotaCovers, tunnelCount \in [Tokens -> Nat],
         NEW a, NEW x, DecrementTunnels(a), a \in Tokens => x \in Outstanding(a),
         \A t \in Tokens : Outstanding(t)' \subseteq Outstanding(t) \ {x}
  PROVE  QuotaCovers'
<1> SUFFICES ASSUME NEW t \in Tokens
             PROVE  /\ Cardinality(Outstanding(t)') <= tunnelCount'[t]
                    /\ tunnelCount'[t] <= MaxTunnels[t]
  BY DEF QuotaCovers
<1> DEFINE old == Cardinality(Outstanding(t))
           new == Cardinality(Outstanding(t)')
<1>1. /\ old <= tunnelCount[t] /\ tunnelCount[t] <= MaxTunnels[t]
      /\ old \in Nat /\ tunnelCount[t] \in Nat /\ MaxTunnels[t] \in Nat
  BY OutstandingFinite, TokensAssumption DEF QuotaCovers
<1>2. /\ IsFiniteSet(Outstanding(t) \ {x})
      /\ Outstanding(t)' \subseteq Outstanding(t) \ {x}
      /\ Cardinality(Outstanding(t) \ {x}) =
           IF x \in Outstanding(t) THEN old - 1 ELSE old
  BY OutstandingFinite, FS_RemoveElement
<1>3. /\ Cardinality(Outstanding(t) \ {x}) \in Nat
      /\ new <= Cardinality(Outstanding(t) \ {x}) /\ new \in Nat
  BY <1>2, FS_Subset, FS_CardinalityType
<1>4. CASE t = a
  <2>1. x \in Outstanding(t)
    BY <1>4
  <2>2. tunnelCount'[t] = IF tunnelCount[t] > 0 THEN tunnelCount[t] - 1 ELSE tunnelCount[t]
    BY <1>4 DEF DecrementTunnels
  <2> HIDE DEF old, new
  <2> QED BY <1>1, <1>2, <1>3, <2>1, <2>2 DEF new
<1>5. CASE t # a
  <2>1. tunnelCount'[t] = tunnelCount[t]
    BY <1>5 DEF DecrementTunnels
  <2> HIDE DEF old, new
  <2> QED BY <1>1, <1>2, <1>3, <2>1 DEF new
<1> QED BY <1>4, <1>5

---------------------------------------------------------------------------
(* The inductive step, one case per action                                 *)

LEMMA SameMaps ==
  ASSUME httpTunnels' = httpTunnels, tcpTunnels' = tcpTunnels
  PROVE  \A x : /\ Registered(x)' <=> Registered(x)
                /\ InTCP(x)' <=> InTCP(x)
BY DEF Registered, InHTTP, InTCP

LEMMA CSInitInv == Init => CSInv
<1> SUFFICES ASSUME Init PROVE CSInv
  OBVIOUS
<1> USE NoneIsNew DEF Init
<1>1. TMInv
  BY TMInitInv
<1>2. TypeOK
  BY <1>1 DEF TMInv, TypeOK, MainSteps, LoopSteps
<1>3. TokenInv /\ LoopInv /\ MainInv /\ ListenersHeld
  BY DEF TMInit, TokenInv, LoopInv, MainInv, ListenersHeld, Flight, Cleaning
<1>4. \A t \in Tokens : Outstanding(t) = {}
  BY DEF TMInit, Outstanding, Registered, InHTTP, InTCP, InFlight, RefundOwed
<1>5. QuotaCovers
  BY <1>4, FS_EmptySet, TokensAssumption DEF QuotaCovers
<1> QED BY <1>1, <1>2, <1>3, <1>5 DEF CSInv

(* Steps of a connection goroutine that touch neither the registry nor     *)
(* what it is cleaning up.                                                 *)
LEMMA MainLocalInv ==
  ASSUME CSInv, TMInv', NEW c \in Sessions,
         \/ RejectConnection(c) \/ AcceptFails(c) \/ LoopEnded(c)
         \/ ReserveDone(c) \/ CleanupDone(c)
  PROVE  CSInv'
<1> USE DEF CSInv
<1>1. PICK to \in {"done", "close"} :
        /\ main' = [main EXCEPT ![c] = to]
        /\ main[c] = "new" => to = "done"
        /\ main[c] \in {"new", "accept", "select", "reserve", "unregister"}
        /\ UNCHANGED <<tmVars, auth, snap, item, victim, loopVars, tunnelCount, toKill>>
        /\ main[c] = "unregister" => snap[c] = {}
  BY DEF RejectConnection, AcceptFails, LoopEnded, ReserveDone, CleanupDone, MainTo
<1> USE <1>1 DEF tmVars, loopVars
<1>2. TypeOK'
  BY DEF TypeOK, TMInv, MainSteps
<1>3. TokenInv'
  BY DEF TypeOK, TokenInv
<1>4. LoopInv'
  BY SameMaps DEF TypeOK, LoopInv, Cleaning
<1>5. MainInv'
  BY SameMaps DEF TypeOK, MainInv, Cleaning
<1>6. ListenersHeld'
  BY SameMaps DEF TypeOK, ListenersHeld
<1>7. \A t \in Tokens : Outstanding(t)' \subseteq Outstanding(t)
  BY SameMaps DEF TypeOK, Outstanding, InFlight, RefundOwed
<1>8. QuotaCovers'
  BY <1>7, QuotaUncharged DEF TypeOK
<1> QED BY <1>2, <1>3, <1>4, <1>5, <1>6, <1>8

LEMMA AuthenticateInv ==
  ASSUME CSInv, TMInv', NEW c \in Sessions, NEW t \in AllTokens, Authenticate(c, t)
  PROVE  CSInv'
<1> USE NoneIsNew DEF CSInv, Authenticate, MainTo, tmVars, loopVars
<1>1. TypeOK'
  BY DEF TypeOK, TMInv, MainSteps
<1>2. TokenInv'
  <2>1. \A x \in Tunnels : session[x] # None => session[x] \in Sessions /\ token[x] \in AllTokens
    BY DEF TypeOK, TMTypeOK, TMInv, ObjectsBuilt
  <2>2. \A x \in Tunnels : session[x] # c
    BY <2>1 DEF TokenInv
  <2> QED BY <2>1, <2>2 DEF TypeOK, TokenInv
<1>3. LoopInv' /\ MainInv'
  BY SameMaps DEF TypeOK, LoopInv, MainInv, Cleaning
<1>4. ListenersHeld'
  BY SameMaps DEF TypeOK, ListenersHeld
<1>5. \A u \in Tokens : Outstanding(u)' \subseteq Outstanding(u)
  BY SameMaps DEF TypeOK, Outstanding, InFlight, RefundOwed
<1>6. QuotaCovers'
  BY <1>5, QuotaUncharged DEF TypeOK
<1> QED BY <1>1, <1>2, <1>3, <1>4, <1>6

LEMMA AcceptInv ==
  ASSUME CSInv, TMInv', NEW c \in Sessions, AcceptControlStream(c)
  PROVE  CSInv'
<1> USE DEF CSInv, AcceptControlStream, MainTo, LoopTo, tmVars
<1>1. TypeOK'
  BY DEF TypeOK, TMInv, MainSteps, LoopSteps
<1>2. TokenInv'
  BY DEF TypeOK, TokenInv
<1>3. LoopInv'
  BY SameMaps DEF TypeOK, LoopInv, Cleaning, Flight
<1>4. MainInv'
  BY SameMaps DEF TypeOK, MainInv, Cleaning
<1>5. ListenersHeld'
  BY SameMaps DEF TypeOK, ListenersHeld
<1>6. \A t \in Tokens : Outstanding(t)' \subseteq Outstanding(t)
  BY SameMaps DEF TypeOK, Outstanding, InFlight, RefundOwed
<1>7. QuotaCovers'
  BY <1>6, QuotaUncharged DEF TypeOK
<1> QED BY <1>1, <1>2, <1>3, <1>4, <1>5, <1>7

(* Both snapshots of the registry take tunnels of the session only.        *)
LEMMA SnapshotInv ==
  ASSUME CSInv, TMInv', NEW c \in Sessions, IdleTimeout(c) \/ SnapshotTunnels(c)
  PROVE  CSInv'
<1> USE DEF CSInv
<1>1. PICK to \in {"reserve", "unregister"} :
        /\ main' = [main EXCEPT ![c] = to]
        /\ main[c] \in {"select", "snapshot"}
        /\ \A x \in snap'[c] : to = "reserve" => type[x] = "http"
        /\ snap'[c] \subseteq SessionTunnels(c)
        /\ \E S \in SUBSET SessionTunnels(c) : snap' = [snap EXCEPT ![c] = S]
        /\ UNCHANGED <<tmVars, auth, item, victim, loopVars, tunnelCount, toKill>>
  BY DEF IdleTimeout, SnapshotTunnels, MainTo, TypeOK
<1> USE <1>1 DEF tmVars, loopVars
<1>2. \A x \in snap'[c] :
        /\ x \in Tunnels /\ session[x] = c /\ Registered(x)
        /\ \/ type[x] = "http" /\ subdomain[x] \in Subdomains
           \/ type[x] = "tcp" /\ port[x] \in Ports
  BY RegisteredIsBuilt DEF SessionTunnels
<1>3. TypeOK'
  BY DEF TypeOK, TMInv, MainSteps, SessionTunnels
<1>4. TokenInv'
  BY DEF TypeOK, TokenInv
<1>5. LoopInv'
  BY <1>2, SameMaps DEF TypeOK, LoopInv, Cleaning
<1>6. MainInv'
  BY <1>2, SameMaps DEF TypeOK, MainInv, Cleaning
<1>7. ListenersHeld'
  BY SameMaps DEF TypeOK, ListenersHeld
<1>8. \A t \in Tokens : Outstanding(t)' \subseteq Outstanding(t)
  BY <1>2, SameMaps DEF TypeOK, Outstanding, InFlight, RefundOwed
<1>9. QuotaCovers'
  BY <1>8, QuotaUncharged DEF TypeOK
<1> QED BY <1>3, <1>4, <1>5, <1>6, <1>7, <1>9

(* Reservations, expiry and closed sessions do not move tunnels.           *)
LEMMA ReserveInv ==
  ASSUME CSInv, TMInv', NEW c \in Sessions, NEW x \in Tunnels, ReserveNext(c, x)
  PROVE  CSInv'
<1> USE DEF CSInv, ReserveNext, ReserveHTTP, loopVars
<1>1. TypeOK'
  BY DEF TypeOK, TMInv
<1>2. TokenInv'
  BY DEF TypeOK, TokenInv
<1>3. LoopInv' /\ MainInv'
  BY SameMaps DEF TypeOK, LoopInv, MainInv, Cleaning
<1>4. ListenersHeld'
  BY SameMaps DEF TypeOK, ListenersHeld
<1>5. \A t \in Tokens : Outstanding(t)' \subseteq Outstanding(t)
  BY SameMaps DEF TypeOK, Outstanding, InFlight, RefundOwed
<1>6. QuotaCovers'
  BY <1>5, QuotaUncharged DEF TypeOK
<1> QED BY <1>1, <1>2, <1>3, <1>4, <1>6

LEMMA CloseSessionInv ==
  ASSUME CSInv, TMInv', NEW c \in Sessions, CloseOwnSession(c) \/ SessionLost(c)
  PROVE  CSInv'
<1> USE DEF CSInv
<1>1. /\ \/ main' = main
         \/ main[c] = "close" /\ main' = [main EXCEPT ![c] = "snapshot"]
      /\ CloseSession(c)
      /\ UNCHANGED <<auth, snap, item, victim, loopVars, tunnelCount, toKill>>
  BY DEF CloseOwnSession, SessionLost, MainTo, connVars
<1> USE <1>1 DEF CloseSession, loopVars
<1>2. TypeOK'
  BY DEF TypeOK, TMInv, MainSteps
<1>3. TokenInv'
  BY DEF TypeOK, TokenInv
<1>4. LoopInv' /\ MainInv'
  BY SameMaps DEF TypeOK, LoopInv, MainInv, Cleaning
<1>5. ListenersHeld'
  BY SameMaps DEF TypeOK, ListenersHeld
<1>6. \A t \in Tokens : Outstanding(t)' \subseteq Outstanding(t)
  BY SameMaps DEF TypeOK, Outstanding, InFlight, RefundOwed
<1>7. QuotaCovers'
  BY <1>6, QuotaUncharged DEF TypeOK
<1> QED BY <1>2, <1>3, <1>4, <1>5, <1>7

LEMMA BackgroundLocalInv ==
  ASSUME CSInv, TMInv', ExpiryScan \/ \E x \in Tunnels : ClockPasses(x)
  PROVE  CSInv'
<1> USE DEF CSInv
<1>1. /\ UNCHANGED <<httpTunnels, tcpTunnels, token, session, type, subdomain, port,
                     listener, closing, connVars, loopVars, tunnelCount>>
      /\ toKill' \subseteq Tunnels
  BY DEF ExpiryScan, ClockPasses, ReservationExpires, AnonymousAged, tmVars, TypeOK
<1> USE <1>1 DEF connVars, loopVars
<1>2. TypeOK'
  BY DEF TypeOK, TMInv
<1>3. TokenInv' /\ LoopInv' /\ MainInv' /\ ListenersHeld'
  BY SameMaps DEF TokenInv, LoopInv, MainInv, ListenersHeld
<1>4. \A t \in Tokens : Outstanding(t)' \subseteq Outstanding(t)
  BY SameMaps DEF Outstanding, InFlight, RefundOwed
<1>5. QuotaCovers'
  BY <1>4, QuotaUncharged DEF TypeOK
<1> QED BY <1>2, <1>3, <1>5

(* Removing entries never registers a tunnel.                              *)
LEMMA CleanHTTPInv ==
  ASSUME CSInv, TMInv', NEW c \in Sessions, NEW x \in Tunnels, CleanHTTP(c, x)
  PROVE  CSInv'
<1> USE DEF CSInv, CleanHTTP, MainTo, UnregisterHTTP, loopVars
<1>1. subdomain[x] \in Subdomains /\ session[x] = c
  BY NoneIsNew DEF MainInv, Cleaning
<1>2. \A y \in Tunnels : /\ Registered(y)' => Registered(y)
                         /\ InTCP(y)' <=> InTCP(y)
  BY NoneIsNew DEF TypeOK, TMTypeOK, Registered, InHTTP, InTCP
<1>3. ~ Registered(x)'
  <2>1. ~ InTCP(x)
    BY NoneIsNew DEF TypeOK, TMTypeOK, TMInv, EntriesIndexed, InTCP
  <2>2. ~ InHTTP(x)'
    BY <1>1, NoneIsNew DEF TypeOK, TMTypeOK, TMInv, EntriesIndexed, InHTTP
  <2> QED BY <1>2, <2>1, <2>2 DEF Registered
<1>4. TypeOK'
  BY DEF TypeOK, TMInv, MainSteps
<1>5. TokenInv'
  BY DEF TypeOK, TokenInv
<1>6. LoopInv'
  BY <1>2 DEF TypeOK, LoopInv, Cleaning
<1>7. MainInv'
  BY <1>2, <1>3 DEF TypeOK, MainInv, Cleaning
<1>8. ListenersHeld'
  BY <1>2 DEF TypeOK, ListenersHeld
<1>9. \A t \in Tokens : Outstanding(t)' \subseteq Outstanding(t)
  BY <1>2 DEF TypeOK, Outstanding, InFlight, RefundOwed
<1>10. QuotaCovers'
  BY <1>9, QuotaUncharged DEF TypeOK
<1> QED BY <1>4, <1>5, <1>6, <1>7, <1>8, <1>10

LEMMA CleanTCPInv ==
  ASSUME CSInv, TMInv', NEW c \in Sessions, NEW x \in Tunnels, CleanTCP(c, x)
  PROVE  CSInv'
<1> DEFINE p == port[x]
           v == tcpTunnels[p]
<1> USE DEF CSInv, CleanTCP, MainTo, UnregisterTCP, loopVars
<1>1. p \in Ports /\ session[x] = c /\ v \in Tunnels \cup {None}
  BY NoneIsNew DEF MainInv, Cleaning, TypeOK, TMTypeOK
<1>2. \A y \in Tunnels : /\ Registered(y)' => Registered(y)
                         /\ InTCP(y) => InTCP(y)' \/ y = v
  BY <1>1, NoneIsNew DEF TypeOK, TMTypeOK, Registered, InHTTP, InTCP
<1>3. ~ Registered(x)'
  <2>1. ~ InHTTP(x)'
    BY NoneIsNew DEF TypeOK, TMTypeOK, TMInv, EntriesIndexed, InHTTP
  <2>2. ~ InTCP(x)'
    BY <1>1, NoneIsNew DEF TypeOK, TMTypeOK, TMInv, EntriesIndexed, InTCP
  <2> QED BY <2>1, <2>2 DEF Registered
<1>4. v # None => v \notin closing /\ Registered(v)
  BY <1>1 DEF TMInv, RegisteredPortsListen, Registered, InTCP
<1>5. TypeOK'
  BY <1>1 DEF TypeOK, TMInv, MainSteps
<1>6. TokenInv'
  BY DEF TypeOK, TokenInv
<1>7. LoopInv'
  BY <1>1, <1>2, <1>4 DEF TypeOK, LoopInv, Cleaning
<1>8. MainInv'
  <2>1. /\ main'[c] \in {"refund", "closeListener"}
        /\ main'[c] = "closeListener" => v # None
        /\ item'[c] = x /\ victim'[c] = v
        /\ \A d \in Sessions \ {c} : /\ main'[d] = main[d] /\ item'[d] = item[d]
                                     /\ victim'[d] = victim[d]
        /\ main[c] = "unregister" /\ snap' = snap /\ x \in snap[c]
        /\ \A y \in closing : y \in closing'
        /\ v # None => v \in closing'
    BY <1>1 DEF TypeOK
  <2>2. \A d \in Sessions : main[d] = "closeListener" => victim[d] # v
    BY <1>4, NoneIsNew DEF MainInv, TypeOK, TMTypeOK
  <2> HIDE DEF CleanTCP, UnregisterTCP, v, p
  <2>3. UNCHANGED <<session, type, subdomain, port>>
    BY DEF CleanTCP, UnregisterTCP
  <2>4. ASSUME NEW d \in Sessions
        PROVE  /\ main'[d] \in Cleaning => \A y \in snap'[d] :
                    /\ session'[y] = d
                    /\ \/ type'[y] = "http" /\ subdomain'[y] \in Subdomains
                       \/ type'[y] = "tcp" /\ port'[y] \in Ports
               /\ main'[d] = "reserve" => \A y \in snap'[d] : subdomain'[y] \in Subdomains
    BY <2>1, <2>3 DEF MainInv, Cleaning
  <2>5. ASSUME NEW d \in Sessions
        PROVE  (/\ main[d] \in {"closeListener", "refund"} =>
                     item[d] \in snap[d] /\ ~ Registered(item[d])
                /\ main[d] = "closeListener" => victim[d] \in closing)'
    <3>1. CASE d = c
      BY <1>3, <2>1, <3>1
    <3>2. CASE d # c
      <4>1. snap[d] \subseteq Tunnels
        BY DEF TypeOK
      <4> QED BY <1>2, <2>1, <3>2, <4>1 DEF MainInv
    <3> QED BY <3>1, <3>2
  <2>6. ASSUME NEW d \in Sessions, NEW e \in Sessions,
               main'[d] = "closeListener", main'[e] = "closeListener",
               victim'[d] = victim'[e]
        PROVE  d = e
    BY <2>1, <2>2, <2>6 DEF MainInv
  <2> QED BY <2>4, <2>5, <2>6 DEF MainInv
<1>9. ListenersHeld'
  <2> SUFFICES ASSUME NEW y \in Tunnels, listener[y] = "open", ~ InTCP(y)'
               PROVE  \/ \E d \in Sessions : loop[d] = "insert" /\ cur[d] = y
                      \/ \E d \in Sessions : main'[d] = "closeListener" /\ victim'[d] = y
    BY DEF ListenersHeld
  <2>1. CASE y = v
    BY <2>1, <1>1, NoneIsNew DEF TypeOK
  <2>2. CASE y # v
    BY <2>2, <1>2 DEF ListenersHeld, TypeOK
  <2> QED BY <2>1, <2>2
<1>10. \A t \in Tokens : Outstanding(t)' \subseteq Outstanding(t)
  BY <1>2 DEF TypeOK, Outstanding, InFlight, RefundOwed
<1>11. QuotaCovers'
  BY <1>10, QuotaUncharged DEF TypeOK
<1> QED BY <1>5, <1>6, <1>7, <1>8, <1>9, <1>11

LEMMA CloseVictimInv ==
  ASSUME CSInv, TMInv', NEW c \in Sessions, CloseVictim(c)
  PROVE  CSInv'
<1> USE DEF CSInv, CloseVictim, MainTo, CloseListener, loopVars
<1>1. victim[c] \in closing /\ victim[c] \in Tunnels
  BY DEF MainInv, TypeOK, TMTypeOK
<1>2. TypeOK'
  BY DEF TypeOK, TMInv, MainSteps
<1>3. TokenInv'
  <2>1. session[victim[c]] # None
    BY <1>1 DEF TokenInv, TMInv, ObjectsBuilt
  <2> QED BY <1>1, <2>1 DEF TypeOK, TMTypeOK, TokenInv
<1>4. LoopInv'
  BY <1>1, SameMaps DEF TypeOK, TMTypeOK, LoopInv, Cleaning, Flight
<1>5. MainInv'
  BY <1>1, SameMaps DEF TypeOK, TMTypeOK, MainInv, Cleaning
<1>6. ListenersHeld'
  BY <1>1, SameMaps DEF TypeOK, TMTypeOK, ListenersHeld
<1>7. \A t \in Tokens : Outstanding(t)' \subseteq Outstanding(t)
  BY SameMaps DEF TypeOK, Outstanding, InFlight, RefundOwed
<1>8. QuotaCovers'
  BY <1>7, QuotaUncharged DEF TypeOK
<1> QED BY <1>2, <1>3, <1>4, <1>5, <1>6, <1>8

(* The refund of cleanupSession is for a tunnel that is gone by then.      *)
LEMMA RefundNextInv ==
  ASSUME CSInv, TMInv', NEW c \in Sessions, RefundNext(c)
  PROVE  CSInv'
<1> DEFINE x == item[c]
<1> USE DEF CSInv, RefundNext, MainTo, tmVars, loopVars
<1>1. /\ x \in Tunnels /\ x \in snap[c] /\ session[x] = c /\ ~ Registered(x)
      /\ token[x] = auth[c]
  BY NoneIsNew DEF MainInv, Cleaning, TypeOK, TokenInv
<1>2. ~ InFlight(x)
  BY <1>1 DEF InFlight, LoopInv, Flight, Cleaning
<1>3. TypeOK'
  BY DEF TypeOK, TMInv, MainSteps, DecrementTunnels
<1>4. TokenInv'
  BY DEF TypeOK, TokenInv
<1>5. LoopInv' /\ MainInv'
  BY SameMaps DEF TypeOK, LoopInv, MainInv, Cleaning
<1>6. ListenersHeld'
  BY SameMaps DEF TypeOK, ListenersHeld
<1>7. x \in Outstanding(auth[c])
  BY <1>1 DEF Outstanding, RefundOwed
<1>8. ASSUME NEW t \in Tokens PROVE Outstanding(t)' \subseteq Outstanding(t) \ {x}
  <2>1. \A y \in Tunnels : RefundOwed(y)' => RefundOwed(y) /\ y # x
    BY <1>1 DEF TypeOK, RefundOwed, MainInv, Cleaning
  <2>2. \A y \in Tunnels : (InFlight(y)' => InFlight(y)) /\ (Registered(y)' => Registered(y))
    BY SameMaps DEF InFlight
  <2> QED BY <1>1, <1>2, <2>1, <2>2 DEF Outstanding
<1>9. QuotaCovers'
  BY <1>7, <1>8, QuotaRefunded DEF TypeOK
<1> QED BY <1>3, <1>4, <1>5, <1>6, <1>9

(* Steps of the message loop that only move its own request along.         *)
LEMMA LoopLocalInv ==
  ASSUME CSInv, TMInv', NEW c \in Sessions,
         \/ \E r \in Requests : ReceiveTunnelReq(c, r)
         \/ CheckAnonymous(c) \/ RefuseAnonymous(c) \/ RefuseRequest(c)
         \/ \E s \in Subdomains : HTTPCollision(c, s)
         \/ HTTPRefused(c) \/ LoopEnds(c) \/ ListenFails(c)
         \/ \E p \in Ports : PickPort(c, p)
  PROVE  CSInv'
<1> USE DEF CSInv
<1>1. UNCHANGED <<tmVars, connVars, tunnelCount, toKill>>
  BY DEF ReceiveTunnelReq, CheckAnonymous, RefuseAnonymous, RefuseRequest, HTTPCollision,
    HTTPRefused, LoopEnds, ListenFails, PickPort
<1>2. PICK to \in LoopSteps :
        /\ loop' = [loop EXCEPT ![c] = to] /\ to # "insert"
        /\ loop[c] # "off" /\ loop[c] # "insert"
        /\ \/ /\ loop[c] \in {"read", "anon", "charge"}
              /\ to \in {"read", "anon", "charge", "exit"}
              /\ cur' = [cur EXCEPT ![c] = None] \/ cur' = cur
           \/ /\ cur' = cur /\ req' = req
              /\ loop[c] = "http" /\ to \in {"http", "refund"}
           \/ /\ cur' = cur /\ req' = req
              /\ loop[c] \in {"pick", "listen"} /\ to \in {"pick", "listen", "refund"}
        /\ to \in {"anon", "charge"} => req'[c] \in Requests
        /\ to = "listen" => cand'[c] \in Ports
        /\ \A d \in Sessions \ {c} : req'[d] = req[d] /\ cand'[d] = cand[d]
  <2>1. ASSUME NEW r \in Requests, ReceiveTunnelReq(c, r)
        PROVE  /\ loop[c] = "read" /\ cur' = cur /\ cand' = cand
               /\ loop' = [loop EXCEPT ![c] = "anon"] \/ loop' = [loop EXCEPT ![c] = "charge"]
               /\ req'[c] = r /\ \A d \in Sessions \ {c} : req'[d] = req[d]
    BY <2>1 DEF ReceiveTunnelReq, LoopTo, TypeOK
  <2>2. CASE CheckAnonymous(c)
    BY <2>2 DEF CheckAnonymous, LoopTo, LoopSteps, LoopInv
  <2>3. CASE RefuseAnonymous(c) \/ RefuseRequest(c)
    BY <2>3 DEF RefuseAnonymous, RefuseRequest, EndRequest, LoopSteps, TypeOK
  <2>4. CASE HTTPRefused(c) \/ LoopEnds(c)
    BY <2>4 DEF HTTPRefused, LoopEnds, LoopTo, LoopSteps
  <2>5. ASSUME NEW s \in Subdomains, HTTPCollision(c, s)
        PROVE  /\ loop[c] = "http" /\ req' = req /\ cur' = cur
               /\ loop' = [loop EXCEPT ![c] = "http"] \/ loop' = [loop EXCEPT ![c] = "refund"]
               /\ \A d \in Sessions \ {c} : cand'[d] = cand[d]
    BY <2>5 DEF HTTPCollision, Retry, TypeOK
  <2>6. CASE ListenFails(c)
    BY <2>6 DEF ListenFails, Retry, LoopSteps, TypeOK
  <2>7. ASSUME NEW p \in Ports, PickPort(c, p)
        PROVE  /\ loop[c] = "pick" /\ req' = req /\ cur' = cur
               /\ \/ loop' = [loop EXCEPT ![c] = "listen"] /\ cand'[c] \in Ports
                  \/ loop' = [loop EXCEPT ![c] = "pick"]
                  \/ loop' = [loop EXCEPT ![c] = "refund"]
               /\ \A d \in Sessions \ {c} : cand'[d] = cand[d]
    BY <2>7 DEF PickPort, LoopTo, Retry, TypeOK
  <2> QED BY <2>1, <2>2, <2>3, <2>4, <2>5, <2>6, <2>7 DEF LoopSteps
<1>3. /\ req' \in [Sessions -> Requests \cup {None}]
      /\ cand' \in [Sessions -> Ports \cup {None}]
      /\ tries' \in [Sessions -> Nat]
  BY DEF ReceiveTunnelReq, CheckAnonymous, RefuseAnonymous, RefuseRequest, HTTPCollision,
    HTTPRefused, LoopEnds, ListenFails, PickPort, EndRequest, Retry, TypeOK
<1> USE <1>1, <1>2, <1>3 DEF tmVars, connVars
<1>4. TypeOK'
  BY DEF TypeOK, TMInv, LoopSteps
<1>5. TokenInv'
  BY DEF TypeOK, TokenInv, LoopSteps
<1>6. LoopInv'
  <2>1. /\ \A d \in Sessions \ {c} : loop'[d] = loop[d] /\ cur'[d] = cur[d]
        /\ loop'[c] = to
        /\ cur'[c] = IF to \in Flight THEN cur[c] ELSE None
        /\ to \in Flight => req'[c] = req[c] /\ loop[c] \in Flight
    <3>1. /\ \A d \in Sessions \ {c} : loop'[d] = loop[d] /\ cur'[d] = cur[d]
          /\ loop'[c] = to
      BY DEF TypeOK
    <3>2. to \in Flight => cur' = cur /\ req' = req /\ loop[c] \in Flight
      BY DEF Flight
    <3>3. to \notin Flight => cur'[c] = None
      BY DEF TypeOK, LoopInv, Flight
    <3> QED BY <3>1, <3>2, <3>3
  <2> QED BY <2>1, SameMaps DEF LoopInv, Flight
<1>7. MainInv'
  BY SameMaps DEF MainInv
<1>8. ListenersHeld'
  BY SameMaps DEF TypeOK, ListenersHeld
<1>9. \A t \in Tokens : Outstanding(t)' \subseteq Outstanding(t)
  BY SameMaps DEF TypeOK, Outstanding, InFlight, RefundOwed
<1>10. QuotaCovers'
  BY <1>9, QuotaUncharged DEF TypeOK
<1> QED BY <1>4, <1>5, <1>6, <1>7, <1>8, <1>10

(* The tunnel a request charges for is new: nothing refers to it yet.      *)
LEMMA ChargeInv ==
  ASSUME CSInv, TMInv', NEW c \in Sessions, NEW x \in Tunnels, Charge(c, x)
  PROVE  CSInv'
<1> USE DEF CSInv
<1>1. /\ UnderLimit(auth[c]) /\ IncrementTunnels(auth[c])
      /\ loop[c] = "charge" /\ session[x] = None
      /\ loop' = [loop EXCEPT ![c] = Handler(req[c].type)]
      /\ cur' = [cur EXCEPT ![c] = x]
      /\ session' = [session EXCEPT ![x] = c]
      /\ token' = [token EXCEPT ![x] = auth[c]]
      /\ type' = [type EXCEPT ![x] = req[c].type]
      /\ UNCHANGED <<httpTunnels, tcpTunnels, subdomain, port, listener, reserved,
                     closing, closed, connVars, req, tries, cand, toKill>>
  BY DEF Charge, LoopTo, NewTunnel
<1>2. /\ auth[c] \in AllTokens /\ req[c] \in Requests /\ req[c].type \in TunnelTypes
      /\ Handler(req[c].type) \in {"http", "pick", "refund"}
      /\ Handler(req[c].type) = "http" => req[c].type = "http"
      /\ Handler(req[c].type) = "pick" => req[c].type = "tcp"
  BY <1>1, RequestsAssumption DEF TypeOK, TokenInv, LoopInv, Handler, TunnelTypes
<1>3. /\ subdomain[x] = None /\ listener[x] = "none" /\ x \notin closing /\ ~ Registered(x)
      /\ \A d \in Sessions : main[d] \in Cleaning => x \notin snap[d]
      /\ \A d \in Sessions : loop[d] \in Flight => cur[d] # x
  BY <1>1, RegisteredIsBuilt, NoneIsNew DEF TokenInv, TMInv, ObjectsBuilt, MainInv, LoopInv
<1> USE <1>1 DEF connVars
<1>4. TypeOK'
  BY <1>2, TokensAssumption DEF TypeOK, TMInv, LoopSteps, IncrementTunnels
<1>5. TokenInv'
  BY <1>2, <1>3 DEF TypeOK, TMInv, TMTypeOK, TokenInv
<1>6. LoopInv'
  <2>1. /\ \A d \in Sessions \ {c} : loop'[d] = loop[d] /\ cur'[d] = cur[d]
        /\ loop'[c] \in {"http", "pick", "refund"} /\ cur'[c] = x
        /\ session'[x] = c /\ type'[x] = req[c].type
        /\ loop'[c] = "http" => type'[x] = "http"
        /\ loop'[c] = "pick" => type'[x] = "tcp"
        /\ \A y \in Tunnels \ {x} : session'[y] = session[y] /\ type'[y] = type[y]
    BY <1>2 DEF TypeOK, TMTypeOK
  <2> HIDE <1>1
  <2>2. UNCHANGED <<httpTunnels, tcpTunnels, subdomain, listener, closing, main, snap, req, cand>>
    BY <1>1 DEF connVars
  <2>3. \A d \in Sessions \ {c} : cur[d] # x \/ loop[d] \notin Flight
    BY <1>3
  <2>4. x \in Tunnels /\ cur[c] = None
    BY <1>1 DEF LoopInv, Flight
  <2> QED BY <1>2, <1>3, <2>1, <2>2, <2>3, <2>4, SameMaps DEF LoopInv, Flight
<1>7. MainInv'
  BY <1>3, SameMaps DEF TypeOK, TMTypeOK, MainInv, Cleaning
<1>8. ListenersHeld'
  <2>1. \A d \in Sessions : loop[d] = "insert" => loop'[d] = "insert" /\ cur'[d] = cur[d]
    BY DEF TypeOK
  <2> QED BY <2>1, SameMaps DEF ListenersHeld
<1>9. ASSUME NEW t \in Tokens
      PROVE  Outstanding(t)' \subseteq
               IF t = auth[c] THEN Outstanding(t) \cup {x} ELSE Outstanding(t)
  <2>1. \A y \in Tunnels \ {x} : /\ InFlight(y)' => InFlight(y)
                                 /\ RefundOwed(y)' <=> RefundOwed(y)
                                 /\ token'[y] = token[y]
                                 /\ Registered(y)' <=> Registered(y)
    BY SameMaps DEF InFlight, RefundOwed, TypeOK, TMTypeOK
  <2>2. token'[x] = auth[c]
    BY DEF TypeOK, TMTypeOK
  <2> QED BY <2>1, <2>2 DEF Outstanding
<1>10. QuotaCovers'
  BY <1>9, QuotaCharged DEF TypeOK
<1> QED BY <1>4, <1>5, <1>6, <1>7, <1>8, <1>10

(* A successful registration turns a tunnel in flight into a registered    *)
(* one; a reclaim takes the entry of another away.                         *)
LEMMA HTTPRegisteredInv ==
  ASSUME CSInv, TMInv', NEW c \in Sessions, NEW s \in Subdomains, HTTPRegistered(c, s)
  PROVE  CSInv'
<1> DEFINE x == cur[c]
<1> USE DEF CSInv
<1>1. /\ loop[c] = "http" /\ x \in Tunnels /\ session[x] = c /\ ~ Registered(x)
      /\ type[x] = "http"
      /\ \A d \in Sessions : main[d] \in Cleaning => x \notin snap[d]
      /\ loop' = [loop EXCEPT ![c] = "read"] /\ cur' = [cur EXCEPT ![c] = None]
      /\ req' = [req EXCEPT ![c] = None] /\ tries' = [tries EXCEPT ![c] = 0]
      /\ cand' = [cand EXCEPT ![c] = None]
      /\ httpTunnels' = [httpTunnels EXCEPT ![s] = x]
      /\ subdomain' = [subdomain EXCEPT ![x] = s]
      /\ UNCHANGED <<tcpTunnels, token, session, type, port, listener, reserved,
                     closing, closed, connVars, tunnelCount, toKill>>
  BY DEF HTTPRegistered, RegisterHTTP, EndRequest, LoopInv, Flight
<1>2. \A d \in Sessions \ {c} : loop[d] \in Flight => cur[d] # x
  BY <1>1 DEF LoopInv
<1>3. \A y \in Tunnels : /\ InTCP(y)' <=> InTCP(y)
                         /\ y # x /\ Registered(y)' => Registered(y)
  BY <1>1 DEF Registered, InHTTP, InTCP, TypeOK, TMTypeOK
<1>4. \A d \in Sessions : main[d] \in {"closeListener", "refund"} =>
        item[d] \in Tunnels /\ item[d] # x
  BY <1>1, NoneIsNew DEF MainInv, TypeOK, Cleaning
<1> HIDE DEF x
<1> USE <1>1 DEF connVars
<1>5. TypeOK'
  BY DEF TypeOK, TMInv, LoopSteps
<1>6. TokenInv'
  BY NoneIsNew DEF TypeOK, TMTypeOK, TokenInv
<1>7. LoopInv'
  <2>1. /\ loop'[c] = "read" /\ cur'[c] = None
        /\ \A d \in Sessions \ {c} : /\ loop'[d] = loop[d] /\ cur'[d] = cur[d]
                                     /\ req'[d] = req[d] /\ cand'[d] = cand[d]
        /\ \A y \in Tunnels \ {x} : subdomain'[y] = subdomain[y]
    BY DEF TypeOK, TMTypeOK
  <2>2. UNCHANGED <<session, type, listener, closing, main, snap>>
    OBVIOUS
  <2> HIDE <1>1
  <2> QED BY <1>2, <1>3, <2>1, <2>2 DEF LoopInv, Flight
<1>8. MainInv'
  <2>1. \A y \in Tunnels : subdomain[y] \in Subdomains => subdomain'[y] \in Subdomains
    BY DEF TypeOK, TMTypeOK
  <2>2. \A d \in Sessions : snap[d] \subseteq Tunnels
    BY DEF TypeOK
  <2> QED BY <1>3, <1>4, <2>1, <2>2 DEF MainInv
<1>9. ListenersHeld'
  <2>1. \A d \in Sessions : loop[d] = "insert" => loop'[d] = "insert" /\ cur'[d] = cur[d]
    BY DEF TypeOK
  <2> QED BY <1>3, <2>1 DEF ListenersHeld
<1>10. \A t \in Tokens : Outstanding(t)' \subseteq Outstanding(t)
  <2>1. \A y \in Tunnels : /\ InFlight(y)' => InFlight(y)
                           /\ RefundOwed(y)' <=> RefundOwed(y)
    BY NoneIsNew DEF InFlight, RefundOwed, TypeOK
  <2>2. InFlight(x)
    BY DEF InFlight, x
  <2> QED BY <1>3, <2>1, <2>2 DEF Outstanding
<1>11. QuotaCovers'
  BY <1>10, QuotaUncharged DEF TypeOK
<1> QED BY <1>5, <1>6, <1>7, <1>8, <1>9, <1>11

LEMMA ListenPortInv ==
  ASSUME CSInv, TMInv', NEW c \in Sessions, ListenPort(c)
  PROVE  CSInv'
<1> DEFINE x == cur[c]
<1> USE DEF CSInv
<1>1. /\ loop[c] = "listen" /\ x \in Tunnels /\ session[x] = c /\ x \notin closing
      /\ type[x] = "tcp" /\ listener[x] = "none" /\ cand[c] \in Ports
      /\ \A d \in Sessions : main[d] \in Cleaning => x \notin snap[d]
      /\ loop' = [loop EXCEPT ![c] = "insert"]
      /\ port' = [port EXCEPT ![x] = cand[c]]
      /\ listener' = [listener EXCEPT ![x] = "open"]
      /\ UNCHANGED <<httpTunnels, tcpTunnels, token, session, type, subdomain, reserved,
                     closing, closed, connVars, req, cur, tries, cand, tunnelCount, toKill>>
  BY DEF ListenPort, LoopTo, Listen, LoopInv, Flight
<1>2. \A d \in Sessions \ {c} : loop[d] \in Flight => cur[d] # x
  BY <1>1 DEF LoopInv
<1> USE <1>1 DEF connVars
<1>3. TypeOK'
  BY DEF TypeOK, TMInv, LoopSteps
<1>4. TokenInv'
  BY NoneIsNew DEF TypeOK, TMTypeOK, TokenInv
<1>5. LoopInv'
  <2>1. /\ loop'[c] = "insert" /\ listener'[x] = "open"
        /\ \A d \in Sessions \ {c} : loop'[d] = loop[d]
        /\ \A y \in Tunnels \ {x} : listener'[y] = listener[y]
    BY DEF TypeOK, TMTypeOK
  <2> QED BY <1>2, <2>1, SameMaps DEF LoopInv, Flight
<1>6. MainInv'
  BY SameMaps DEF TypeOK, TMTypeOK, MainInv, Cleaning
<1>7. ListenersHeld'
  BY SameMaps DEF TypeOK, TMTypeOK, ListenersHeld
<1>8. \A t \in Tokens : Outstanding(t)' \subseteq Outstanding(t)
  BY SameMaps DEF TypeOK, Outstanding, InFlight, RefundOwed
<1>9. QuotaCovers'
  BY <1>8, QuotaUncharged DEF TypeOK
<1> QED BY <1>3, <1>4, <1>5, <1>6, <1>7, <1>9

(* The second look of RegisterTCP always finds the port free, so an        *)
(* allocation that has bound its port registers.                           *)
LEMMA InsertPortInv ==
  ASSUME CSInv, TMInv', NEW c \in Sessions, InsertPort(c)
  PROVE  CSInv'
<1> USE DEF CSInv
<1>1. PICK x \in Tunnels, p \in Ports :
      /\ loop[c] = "insert" /\ x = cur[c] /\ p = port[x]
      /\ session[x] = c /\ x \notin closing
      /\ ~ Registered(x) /\ type[x] = "tcp" /\ listener[x] = "open"
      /\ \A d \in Sessions : main[d] \in Cleaning => x \notin snap[d]
  BY DEF InsertPort, LoopInv, Flight, TMInv, ObjectsBuilt
<1>2. tcpTunnels[p] = None
  BY <1>1, RegistryInvHolds DEF RegistryInv, BoundPortsExclusive, Allocating, Registered
<1>3. /\ loop' = [loop EXCEPT ![c] = "read"] /\ cur' = [cur EXCEPT ![c] = None]
      /\ req' = [req EXCEPT ![c] = None] /\ tries' = [tries EXCEPT ![c] = 0]
      /\ cand' = [cand EXCEPT ![c] = None]
      /\ tcpTunnels' = [tcpTunnels EXCEPT ![p] = x]
      /\ UNCHANGED <<httpTunnels, token, session, type, subdomain, port, listener, reserved,
                     closing, closed, connVars, tunnelCount, toKill>>
  BY <1>1, <1>2 DEF InsertPort, InsertTCP, EndRequest
<1>4. \A y \in Tunnels : /\ InTCP(y) => InTCP(y)'
                         /\ y # x /\ Registered(y)' => Registered(y)
                         /\ InTCP(x)'
  BY <1>1, <1>2, <1>3, NoneIsNew DEF Registered, InHTTP, InTCP, TypeOK, TMTypeOK
<1>5. \A d \in Sessions : main[d] \in {"closeListener", "refund"} =>
        item[d] \in Tunnels /\ item[d] # x
  BY <1>1, NoneIsNew DEF MainInv, TypeOK, Cleaning
<1>6. InFlight(x)
  BY <1>1 DEF InFlight
<1>7. \A d \in Sessions \ {c} : loop[d] \in Flight => cur[d] # x
  BY <1>1 DEF LoopInv
<1> USE <1>3 DEF connVars
<1>8. TypeOK'
  BY DEF TypeOK, TMInv, LoopSteps
<1>9. TokenInv'
  BY <1>1 DEF TypeOK, TokenInv
<1>10. LoopInv'
  <2>1. /\ loop'[c] = "read" /\ cur'[c] = None
        /\ \A d \in Sessions \ {c} : /\ loop'[d] = loop[d] /\ cur'[d] = cur[d]
                                     /\ req'[d] = req[d] /\ cand'[d] = cand[d]
    BY DEF TypeOK
  <2>2. UNCHANGED <<session, type, subdomain, listener, closing, main, snap>>
    OBVIOUS
  <2> HIDE <1>3
  <2> QED BY <1>4, <1>7, <2>1, <2>2 DEF LoopInv, Flight
<1>11. MainInv'
  <2>1. \A d \in Sessions : main[d] \in {"closeListener", "refund"} => ~ Registered(item[d])'
    BY <1>4, <1>5 DEF MainInv
  <2> QED BY <2>1 DEF MainInv
<1>12. ListenersHeld'
  <2>1. \A d \in Sessions \ {c} : loop'[d] = loop[d] /\ cur'[d] = cur[d]
    BY DEF TypeOK
  <2> QED BY <1>1, <1>4, <2>1 DEF ListenersHeld
<1>13. \A t \in Tokens : Outstanding(t)' \subseteq Outstanding(t)
  <2>1. \A y \in Tunnels : /\ InFlight(y)' => InFlight(y)
                           /\ RefundOwed(y)' <=> RefundOwed(y)
    BY NoneIsNew DEF InFlight, RefundOwed, TypeOK
  <2> QED BY <1>4, <1>6, <2>1 DEF Outstanding
<1>14. QuotaCovers'
  BY <1>13, QuotaUncharged DEF TypeOK
<1> QED BY <1>8, <1>9, <1>10, <1>11, <1>12, <1>14

(* An error path refunds a tunnel that was never registered.               *)
LEMMA RefundRequestInv ==
  ASSUME CSInv, TMInv', NEW c \in Sessions, RefundRequest(c)
  PROVE  CSInv'
<1> DEFINE x == cur[c]
<1> USE DEF CSInv
<1>1. /\ loop[c] = "refund" /\ x \in Tunnels /\ session[x] = c /\ ~ Registered(x)
      /\ \A d \in Sessions : main[d] \in Cleaning => x \notin snap[d]
      /\ token[x] = auth[c]
      /\ loop' = [loop EXCEPT ![c] = "read"] /\ cur' = [cur EXCEPT ![c] = None]
      /\ req' = [req EXCEPT ![c] = None] /\ tries' = [tries EXCEPT ![c] = 0]
      /\ cand' = [cand EXCEPT ![c] = None]
      /\ DecrementTunnels(auth[c])
      /\ UNCHANGED <<tmVars, connVars, toKill>>
  BY NoneIsNew DEF RefundRequest, EndRequest, LoopInv, TokenInv, Flight
<1>2. \A d \in Sessions \ {c} : loop[d] \in Flight => cur[d] # x
  BY <1>1 DEF LoopInv
<1>3. x \in Outstanding(auth[c])
  BY <1>1 DEF Outstanding, InFlight
<1>4. ~ RefundOwed(x)
  BY <1>1 DEF RefundOwed, Cleaning
<1> HIDE DEF x
<1> USE <1>1 DEF tmVars, connVars
<1>5. TypeOK'
  BY DEF TypeOK, TMInv, LoopSteps, DecrementTunnels
<1>6. TokenInv'
  BY DEF TypeOK, TokenInv
<1>7. LoopInv'
  <2>1. /\ loop'[c] = "read" /\ cur'[c] = None
        /\ \A d \in Sessions \ {c} : /\ loop'[d] = loop[d] /\ cur'[d] = cur[d]
                                     /\ req'[d] = req[d] /\ cand'[d] = cand[d]
    BY DEF TypeOK
  <2> QED BY <2>1, SameMaps DEF LoopInv, Flight
<1>8. MainInv'
  BY SameMaps DEF MainInv
<1>9. ListenersHeld'
  <2>1. \A d \in Sessions : loop[d] = "insert" => loop'[d] = "insert" /\ cur'[d] = cur[d]
    BY DEF TypeOK
  <2> QED BY <2>1, SameMaps DEF ListenersHeld
<1>10. ASSUME NEW t \in Tokens PROVE Outstanding(t)' \subseteq Outstanding(t) \ {x}
  <2>1. \A y \in Tunnels : InFlight(y)' => InFlight(y) /\ y # x
    BY <1>2, NoneIsNew DEF InFlight, TypeOK, Flight
  <2>2. \A y \in Tunnels : /\ RefundOwed(y)' <=> RefundOwed(y)
                           /\ Registered(y)' <=> Registered(y)
    BY SameMaps DEF RefundOwed
  <2> QED BY <1>1, <1>4, <2>1, <2>2 DEF Outstanding
<1>11. QuotaCovers'
  BY <1>3, <1>10, QuotaRefunded DEF TypeOK
<1> QED BY <1>5, <1>6, <1>7, <1>8, <1>9, <1>11

(* Kills and the reaper only take entries out of the registry; a kill      *)
(* closes the listener of the entry it takes out.                          *)
LEMMA RemovalInv ==
  ASSUME CSInv, TMInv', toKill' \subseteq Tunnels,
         UNCHANGED <<connVars, loopVars, tunnelCount>>,
         Reap \/ \E x \in Tunnels : KillTunnelByID(x)
  PROVE  CSInv'
<1> USE DEF CSInv, connVars, loopVars
<1>1. UNCHANGED <<token, session, type, subdomain, port, reserved, closing>>
  BY DEF Reap, KillTunnelByID
<1>2. \A y \in Tunnels :
        /\ Registered(y)' => Registered(y)
        /\ listener'[y] # listener[y] => InTCP(y) /\ listener'[y] = "closed"
        /\ InTCP(y) => InTCP(y)' \/ listener'[y] = "closed"
  <2>1. CASE Reap
    BY <2>1, NoneIsNew DEF Reap, Registered, InHTTP, InTCP, TypeOK, TMTypeOK
  <2>2. ASSUME NEW x \in Tunnels, KillTunnelByID(x)
        PROVE  \A y \in Tunnels :
                 /\ Registered(y)' => Registered(y)
                 /\ listener'[y] # listener[y] => InTCP(y) /\ listener'[y] = "closed"
                 /\ InTCP(y) => InTCP(y)' \/ listener'[y] = "closed"
    BY <2>2, NoneIsNew DEF KillTunnelByID, Registered, InHTTP, InTCP, TypeOK, TMTypeOK
  <2> QED BY <2>1, <2>2
<1> USE <1>1
<1>3. TypeOK'
  BY DEF TypeOK, TMInv
<1>4. TokenInv'
  BY <1>2, RegisteredIsBuilt, NoneIsNew DEF TokenInv, Registered
<1>5. LoopInv'
  BY <1>2 DEF LoopInv, Flight, Registered
<1>6. MainInv'
  <2>1. \A d \in Sessions : snap[d] \subseteq Tunnels
    BY DEF TypeOK
  <2> QED BY <1>2, <2>1 DEF MainInv
<1>7. ListenersHeld'
  BY <1>2 DEF ListenersHeld
<1>8. \A t \in Tokens : Outstanding(t)' \subseteq Outstanding(t)
  BY <1>2 DEF Outstanding, InFlight, RefundOwed
<1>9. QuotaCovers'
  BY <1>8, QuotaUncharged DEF TypeOK
<1> QED BY <1>3, <1>4, <1>5, <1>6, <1>7, <1>9

LEMMA StutterInv ==
  ASSUME CSInv, TMInv', toKill' \subseteq Tunnels,
         UNCHANGED <<tmVars, connVars, loopVars, tunnelCount>>
  PROVE  CSInv'
<1> USE DEF CSInv, tmVars, connVars, loopVars
<1>1. TypeOK'
  BY DEF TypeOK, TMInv
<1>2. TokenInv' /\ LoopInv' /\ MainInv' /\ ListenersHeld'
  BY SameMaps DEF TokenInv, LoopInv, MainInv, ListenersHeld
<1>3. \A t \in Tokens : Outstanding(t)' \subseteq Outstanding(t)
  BY SameMaps DEF Outstanding, InFlight, RefundOwed
<1>4. QuotaCovers'
  BY <1>3, QuotaUncharged DEF TypeOK
<1> QED BY <1>1, <1>2, <1>4

---------------------------------------------------------------------------
(* The server's steps preserve the invariant.                              *)
LEMMA CSNextInv == CSInv /\ [Next]_vars => CSInv'
<1> SUFFICES ASSUME CSInv, [Next]_vars PROVE CSInv'
  OBVIOUS
<1>1. TMInv'
  BY StepsKeepDiscipline, TMNextInv DEF CSInv
<1>2. toKill \subseteq Tunnels
  BY DEF CSInv, TypeOK
<1>3. ASSUME NEW c \in Sessions, MainStep(c) PROVE CSInv'
  BY <1>1, <1>3, MainLocalInv, CloseSessionInv, SnapshotInv, CloseVictimInv, RefundNextInv,
    ReserveInv, CleanHTTPInv, CleanTCPInv DEF MainStep
<1>4. ASSUME NEW c \in Sessions, RequestStep(c) PROVE CSInv'
  BY <1>1, <1>4, LoopLocalInv, ChargeInv, HTTPRegisteredInv, ListenPortInv, InsertPortInv,
    RefundRequestInv DEF RequestStep
<1>5. ASSUME NEW c \in Sessions, ClientStep(c) PROVE CSInv'
  BY <1>1, <1>5, AuthenticateInv, MainLocalInv, AcceptInv, CloseSessionInv, LoopLocalInv,
    SnapshotInv DEF ClientStep
<1>6. CASE BackgroundStep
  <2>1. CASE ReaperTick
    BY <1>1, <1>2, <2>1, RemovalInv DEF ReaperTick
  <2>2. ASSUME NEW x \in Tunnels, AdminKill(x) PROVE CSInv'
    BY <1>1, <1>2, <2>2, RemovalInv DEF AdminKill
  <2>3. ASSUME NEW x \in Tunnels, ExpiryKill(x) PROVE CSInv'
    <3>1. toKill' \subseteq Tunnels /\ UNCHANGED <<connVars, loopVars, tunnelCount>>
      BY <1>2, <2>3 DEF ExpiryKill
    <3>2. CASE Registered(x)
      BY <1>1, <2>3, <3>1, <3>2, RemovalInv DEF ExpiryKill
    <3>3. CASE ~ Registered(x)
      BY <1>1, <2>3, <3>1, <3>3, StutterInv DEF ExpiryKill
    <3> QED BY <3>2, <3>3
  <2> QED BY <1>1, <1>6, <2>1, <2>2, <2>3, BackgroundLocalInv DEF BackgroundStep
<1>7. CASE AllQuiet \/ UNCHANGED vars
  BY <1>1, <1>2, <1>7, StutterInv DEF AllQuiet, vars
<1> QED BY <1>3, <1>4, <1>5, <1>6, <1>7 DEF Next

LEMMA CSInvHolds == Spec => []CSInv
<1>1. Init => CSInv
  BY CSInitInv
<1>2. CSInv /\ [Next]_vars => CSInv'
  BY CSNextInv
<1> QED BY <1>1, <1>2, PTL DEF Spec

(* Every variable of the connection goroutines, message loops and registry *)
(* keeps its type in every reachable state of server.go's control plane.   *)
THEOREM ServerTypes == Spec => []TypeOK
<1>1. CSInv => TypeOK
  BY DEF CSInv
<1> QED BY <1>1, CSInvHolds, PTL

(* Whatever handleTunnelRequest, cleanupSession, kills and reclaims do to  *)
(* each other, a token's count never falls below its outstanding tunnels   *)
(* and never passes its limit.                                             *)
THEOREM CountsCoverTunnels == Spec => []QuotaCovers
<1>1. CSInv => QuotaCovers
  BY DEF CSInv
<1> QED BY <1>1, CSInvHolds, PTL

(* The server uses the registry as TMSpec allows: it inserts an object at  *)
(* most once and closes by hand only what UnregisterTCP removed.           *)
THEOREM ServerUsesRegistryProperly == Spec => TMSpec
<1>1. Init => TMInit
  BY DEF Init
<1>2. CSInv /\ [Next]_vars => [TMNext]_tmVars
  BY StepsKeepDiscipline
<1> QED BY <1>1, <1>2, CSInvHolds, PTL DEF Spec, TMSpec

(* The registry invariants therefore hold in the running server too: names *)
(* and ports index the tunnels that carry them, a registered port has a    *)
(* live listener, and RegisterTCP's re-check never fails.                  *)
THEOREM ServerRegistryIsConsistent == Spec => []RegistryInv
BY ServerUsesRegistryProperly, RegistryIsConsistent, PTL
---------------------------------------------------------------------------
(* What fills the registry                                                 *)

(* The identity of a tunnel that has been built does not change, and a     *)
(* reservation is not undone.                                              *)
ObjectsKept ==
  \A x \in Tunnels :
    /\ session[x] # None => session'[x] = session[x] /\ token'[x] = token[x]
    /\ reserved'[x] = "no" => reserved[x] = "no"

EntriesOnlyRemoved ==
  /\ \A s \in Subdomains : httpTunnels'[s] \in {httpTunnels[s], None}
  /\ \A p \in Ports : tcpTunnels'[p] \in {tcpTunnels[p], None}

LEMMA RegistryStepKinds ==
  ASSUME TMTypeOK
  PROVE  /\ UNCHANGED tmVars => ObjectsKept /\ EntriesOnlyRemoved
         /\ \A x \in Tunnels : \A c, t, k : NewTunnel(x, c, t, k) => ObjectsKept /\ EntriesOnlyRemoved
         /\ \A s, x : RegisterHTTP(s, x) => ObjectsKept
         /\ \A s \in Subdomains : UnregisterHTTP(s) => ObjectsKept /\ EntriesOnlyRemoved
         /\ \A s \in Subdomains : ReserveHTTP(s) => ObjectsKept /\ EntriesOnlyRemoved
         /\ \A x \in Tunnels : ReservationExpires(x) => ObjectsKept /\ EntriesOnlyRemoved
         /\ Reap => ObjectsKept /\ EntriesOnlyRemoved
         /\ \A x, p : Listen(x, p) => ObjectsKept /\ EntriesOnlyRemoved
         /\ \A x : InsertTCP(x) => ObjectsKept
         /\ \A p \in Ports : UnregisterTCP(p) => ObjectsKept /\ EntriesOnlyRemoved
         /\ \A x : CloseListener(x) => ObjectsKept /\ EntriesOnlyRemoved
         /\ \A x : KillTunnelByID(x) => ObjectsKept /\ EntriesOnlyRemoved
         /\ \A c : CloseSession(c) => ObjectsKept /\ EntriesOnlyRemoved
<1> USE DEF TMTypeOK, ObjectsKept, EntriesOnlyRemoved
<1>1. UNCHANGED tmVars => ObjectsKept /\ EntriesOnlyRemoved
  BY DEF tmVars
<1>2. \A x \in Tunnels : \A c, t, k : NewTunnel(x, c, t, k) => ObjectsKept /\ EntriesOnlyRemoved
  BY DEF NewTunnel
<1>3. \A s, x : RegisterHTTP(s, x) => ObjectsKept
  BY DEF RegisterHTTP
<1>4. \A s \in Subdomains : UnregisterHTTP(s) => ObjectsKept /\ EntriesOnlyRemoved
  BY DEF UnregisterHTTP
<1>5. \A s \in Subdomains : ReserveHTTP(s) => ObjectsKept /\ EntriesOnlyRemoved
  BY DEF ReserveHTTP
<1>6. \A x \in Tunnels : ReservationExpires(x) => ObjectsKept /\ EntriesOnlyRemoved
  BY DEF ReservationExpires
<1>7. Reap => ObjectsKept /\ EntriesOnlyRemoved
  BY DEF Reap
<1>8. \A x, p : Listen(x, p) => ObjectsKept /\ EntriesOnlyRemoved
  BY DEF Listen
<1>9. \A x : InsertTCP(x) => ObjectsKept
  BY DEF InsertTCP
<1>10. \A p \in Ports : UnregisterTCP(p) => ObjectsKept /\ EntriesOnlyRemoved
  BY DEF UnregisterTCP
<1>11. \A x : CloseListener(x) => ObjectsKept /\ EntriesOnlyRemoved
  BY DEF CloseListener
<1>12. \A x : KillTunnelByID(x) => ObjectsKept /\ EntriesOnlyRemoved
  BY DEF KillTunnelByID
<1>13. \A c : CloseSession(c) => ObjectsKept /\ EntriesOnlyRemoved
  BY DEF CloseSession
<1> QED BY <1>1, <1>2, <1>3, <1>4, <1>5, <1>6, <1>7, <1>8, <1>9, <1>10, <1>11, <1>12, <1>13

(* Only registerHTTPTunnel and RegisterTCP add entries; every other step   *)
(* of the server leaves the maps alone or takes entries out.               *)
LEMMA OnlyRegistrationsFill ==
  ASSUME CSInv, [Next]_vars
  PROVE  /\ ObjectsKept
         /\ \/ EntriesOnlyRemoved
            \/ \E c \in Sessions : \E s \in Subdomains : HTTPRegistered(c, s)
            \/ \E c \in Sessions : InsertPort(c)
<1> DEFINE Goal == /\ ObjectsKept
                   /\ \/ EntriesOnlyRemoved
                      \/ \E c \in Sessions : \E s \in Subdomains : HTTPRegistered(c, s)
                      \/ \E c \in Sessions : InsertPort(c)
<1>0. TMTypeOK
  BY DEF CSInv, TypeOK
<1>1. ASSUME NEW c \in Sessions, MainStep(c) PROVE Goal
  <2>1. CASE AcceptFails(c) \/ LoopEnded(c) \/ ReserveDone(c) \/ SnapshotTunnels(c)
               \/ RefundNext(c) \/ CleanupDone(c)
    BY <1>0, <2>1, RegistryStepKinds
      DEF AcceptFails, LoopEnded, ReserveDone, SnapshotTunnels, RefundNext, CleanupDone
  <2>2. CASE CloseOwnSession(c) \/ CloseVictim(c)
    BY <1>0, <2>2, RegistryStepKinds DEF CloseOwnSession, CloseVictim
  <2>3. ASSUME NEW x \in Tunnels, ReserveNext(c, x) PROVE Goal
    <3>1. subdomain[x] \in Subdomains /\ ReserveHTTP(subdomain[x])
      BY <2>3 DEF ReserveNext, MainInv, CSInv
    <3> QED BY <1>0, <3>1, RegistryStepKinds
  <2>4. ASSUME NEW x \in Tunnels, CleanHTTP(c, x) PROVE Goal
    <3>1. subdomain[x] \in Subdomains /\ UnregisterHTTP(subdomain[x])
      BY <2>4 DEF CleanHTTP, MainTo, MainInv, Cleaning, CSInv
    <3> QED BY <1>0, <3>1, RegistryStepKinds
  <2>5. ASSUME NEW x \in Tunnels, CleanTCP(c, x) PROVE Goal
    <3>1. port[x] \in Ports /\ UnregisterTCP(port[x])
      BY <2>5 DEF CleanTCP, MainTo, MainInv, Cleaning, CSInv
    <3> QED BY <1>0, <3>1, RegistryStepKinds
  <2> QED BY <1>1, <2>1, <2>2, <2>3, <2>4, <2>5 DEF MainStep
<1>2. ASSUME NEW c \in Sessions, RequestStep(c) PROVE Goal
  <2>1. CASE CheckAnonymous(c) \/ RefuseAnonymous(c) \/ RefuseRequest(c) \/ HTTPRefused(c)
               \/ ListenFails(c) \/ RefundRequest(c)
    BY <1>0, <2>1, RegistryStepKinds DEF CheckAnonymous, RefuseAnonymous, RefuseRequest,
      HTTPRefused, ListenFails, RefundRequest
  <2>2. ASSUME NEW x \in Tunnels, Charge(c, x) PROVE Goal
    BY <1>0, <2>2, RegistryStepKinds DEF Charge
  <2>3. ASSUME NEW s \in Subdomains, HTTPRegistered(c, s) \/ HTTPCollision(c, s) PROVE Goal
    <3>1. CASE HTTPRegistered(c, s)
      <4>1. RegisterHTTP(s, cur[c])
        BY <3>1 DEF HTTPRegistered
      <4> QED BY <1>0, <3>1, <4>1, RegistryStepKinds
    <3>2. CASE HTTPCollision(c, s)
      BY <1>0, <3>2, RegistryStepKinds DEF HTTPCollision
    <3> QED BY <2>3, <3>1, <3>2
  <2>4. ASSUME NEW p \in Ports, PickPort(c, p) PROVE Goal
    BY <1>0, <2>4, RegistryStepKinds DEF PickPort
  <2>5. CASE ListenPort(c)
    BY <1>0, <2>5, RegistryStepKinds DEF ListenPort
  <2>6. CASE InsertPort(c)
    <3>1. InsertTCP(cur[c])
      BY <2>6 DEF InsertPort
    <3> QED BY <1>0, <2>6, <3>1, RegistryStepKinds
  <2> QED BY <1>2, <2>1, <2>2, <2>3, <2>4, <2>5, <2>6 DEF RequestStep
<1>3. ASSUME NEW c \in Sessions, ClientStep(c) PROVE Goal
  <2>1. CASE SessionLost(c)
    BY <1>0, <2>1, RegistryStepKinds DEF SessionLost
  <2>2. CASE ~ SessionLost(c)
    <3>1. UNCHANGED tmVars
      BY <1>3, <2>2 DEF ClientStep, Authenticate, RejectConnection, AcceptControlStream,
        ReceiveTunnelReq, LoopEnds, IdleTimeout
    <3> QED BY <1>0, <3>1, RegistryStepKinds
  <2> QED BY <2>1, <2>2
<1>4. CASE BackgroundStep
  <2>1. CASE ExpiryScan
    BY <1>0, <2>1, RegistryStepKinds DEF ExpiryScan
  <2>2. CASE ReaperTick
    BY <1>0, <2>2, RegistryStepKinds DEF ReaperTick
  <2>3. ASSUME NEW x \in Tunnels, ExpiryKill(x) \/ AdminKill(x) \/ ClockPasses(x) PROVE Goal
    BY <1>0, <2>3, RegistryStepKinds DEF ExpiryKill, AdminKill, ClockPasses
  <2> QED BY <1>4, <2>1, <2>2, <2>3 DEF BackgroundStep
<1>5. CASE AllQuiet \/ UNCHANGED vars
  BY <1>0, <1>5, RegistryStepKinds DEF AllQuiet, vars
<1> QED BY <1>1, <1>2, <1>3, <1>4, <1>5 DEF Next

---------------------------------------------------------------------------
(* What a clean-up leaves behind                                           *)

(* A clean-up past its look at the registry looks no second time, and      *)
(* forgets a tunnel only when it has left the registry.                    *)
LEMMA CleanupKeepsItems ==
  ASSUME CSInv, [Next]_vars, NEW x \in Tunnels, Registered(x),
         PastSnapshot(session[x])' , x \notin snap'[session[x]],
         session'[x] = session[x]
  PROVE  PastSnapshot(session[x]) /\ x \notin snap[session[x]]
<1> DEFINE s == session[x]
<1> USE DEF CSInv
<1>1. s \in Sessions /\ s # None /\ auth[s] # None /\ main[s] # "new"
  <2>1. s \in Sessions /\ s # None
    BY RegisteredIsBuilt, NoneIsNew
  <2>2. token[x] # None
    BY <2>1 DEF TMInv, ObjectsBuilt
  <2> QED BY <2>1, <2>2 DEF TokenInv
<1>2. main'[s] \in {"unregister", "closeListener", "refund", "done"}
  BY DEF PastSnapshot
<1> DEFINE Goal == main[s] \in {"unregister", "closeListener", "refund", "done"} /\ x \notin snap[s]
<1> HIDE DEF s
<1>3. ASSUME main'[s] = main[s], snap'[s] = snap[s] PROVE Goal
  BY <1>2, <1>3 DEF s
<1>4. ASSUME NEW c \in Sessions, MainStep(c) PROVE Goal
  <2> USE DEF TypeOK, MainTo
  <2>1. CASE c # s
    <3>1. main'[s] = main[s] /\ snap'[s] = snap[s]
      BY <1>1, <1>4, <2>1 DEF MainStep, AcceptFails, LoopEnded, ReserveDone, CloseOwnSession,
        SnapshotTunnels, CloseVictim, RefundNext, CleanupDone, ReserveNext, CleanHTTP, CleanTCP
    <3> QED BY <1>3, <3>1
  <2>2. CASE c = s
    <3>1. CASE AcceptFails(s) \/ LoopEnded(s) \/ ReserveDone(s) \/ CloseOwnSession(s)
      BY <1>1, <1>2, <3>1 DEF AcceptFails, LoopEnded, ReserveDone, CloseOwnSession
    <3>2. CASE SnapshotTunnels(s)
      <4>1. x \in snap'[s]
        BY <1>1, <3>2 DEF SnapshotTunnels, SessionTunnels, s
      <4> QED BY <4>1 DEF s
    <3>3. CASE CloseVictim(s) \/ CleanupDone(s)
      BY <1>1, <3>3 DEF CloseVictim, CleanupDone, s
    <3>4. CASE RefundNext(s)
      <4>1. x # item[s] /\ snap'[s] = snap[s] \ {item[s]}
        BY <1>1, <3>4 DEF RefundNext, MainInv
      <4> QED BY <3>4, <4>1 DEF RefundNext, s
    <3>5. ASSUME NEW y \in Tunnels, ReserveNext(s, y) PROVE Goal
      BY <1>1, <1>2, <3>5 DEF ReserveNext
    <3>6. ASSUME NEW y \in Tunnels, CleanHTTP(s, y) \/ CleanTCP(s, y) PROVE Goal
      BY <1>1, <3>6 DEF CleanHTTP, CleanTCP, s
    <3> QED BY <1>4, <2>2, <3>1, <3>2, <3>3, <3>4, <3>5, <3>6 DEF MainStep
  <2> QED BY <2>1, <2>2
<1>5. ASSUME NEW c \in Sessions, ClientStep(c) PROVE Goal
  <2> USE DEF TypeOK, MainTo
  <2>1. CASE (\E t \in AllTokens : Authenticate(c, t)) \/ RejectConnection(c)
               \/ AcceptControlStream(c)
    <3>1. main[c] = "new" \/ main'[c] = "select"
      BY <2>1 DEF Authenticate, RejectConnection, AcceptControlStream
    <3>2. snap' = snap /\ (c # s => main'[s] = main[s])
      BY <1>1, <2>1 DEF Authenticate, RejectConnection, AcceptControlStream
    <3> QED BY <1>1, <1>2, <1>3, <3>1, <3>2
  <2>2. CASE IdleTimeout(c)
    <3>1. main'[c] = "reserve" /\ (c # s => main'[s] = main[s] /\ snap'[s] = snap[s])
      BY <1>1, <2>2 DEF IdleTimeout
    <3> QED BY <1>2, <1>3, <3>1
  <2>3. CASE SessionLost(c) \/ LoopEnds(c) \/ \E r \in Requests : ReceiveTunnelReq(c, r)
    BY <1>3, <2>3 DEF SessionLost, LoopEnds, ReceiveTunnelReq, connVars
  <2> QED BY <1>5, <2>1, <2>2, <2>3 DEF ClientStep
<1>6. ASSUME UNCHANGED connVars PROVE Goal
  BY <1>3, <1>6 DEF connVars
<1>7. ASSUME NEW c \in Sessions, RequestStep(c) PROVE UNCHANGED connVars
  BY <1>7 DEF RequestStep, CheckAnonymous, RefuseAnonymous, RefuseRequest, Charge,
    HTTPRegistered, HTTPCollision, HTTPRefused, PickPort, ListenPort, ListenFails,
    InsertPort, RefundRequest
<1>8. ASSUME BackgroundStep \/ AllQuiet \/ UNCHANGED vars PROVE UNCHANGED connVars
  BY <1>8 DEF BackgroundStep, AllQuiet, vars, ExpiryScan, ReaperTick, ExpiryKill, AdminKill,
    ClockPasses
<1>9. Goal
  BY <1>4, <1>5, <1>6, <1>7, <1>8 DEF Next
<1> QED BY <1>9 DEF PastSnapshot, s

(* A tunnel comes to be stranded by its own registration and by nothing    *)
(* else: what is registered before a clean-up looks is in its list until   *)
(* it has left the registry, and what leaves the registry is closed.       *)
LEMMA StrandedByRegistration ==
  ASSUME CSInv, [Next]_vars, NEW x \in Tunnels, Stranded(x)', ~ Stranded(x)
  PROVE  \E c \in Sessions : /\ cur[c] = x /\ loop[c] \in {"http", "insert"}
                             /\ PastSnapshot(c)
<1>1. CSInv'
  BY CSNextInv
<1>2. Registered(x)' /\ PastSnapshot(session[x])' /\ x \notin snap'[session'[x]]
  BY <1>1 DEF CSInv, ListenersHeld, Registered, Stranded
<1>3. ASSUME Registered(x), session'[x] = session[x] PROVE FALSE
  <2>1. PastSnapshot(session[x])' /\ x \notin snap'[session[x]]
    BY <1>2, <1>3 DEF PastSnapshot
  <2> QED BY <1>3, <2>1, CleanupKeepsItems DEF Stranded
<1>4. ObjectsKept
  BY OnlyRegistrationsFill
<1>5. Registered(x) => session'[x] = session[x]
  <2>1. Registered(x) => session[x] # None
    BY RegisteredIsBuilt, NoneIsNew DEF CSInv
  <2> QED BY <1>4, <2>1 DEF ObjectsKept
<1>6. ~ Registered(x)
  BY <1>3, <1>5
<1>7. ~ EntriesOnlyRemoved
  BY <1>2, <1>6, NoneIsNew DEF EntriesOnlyRemoved, Registered, InHTTP, InTCP
<1>8. CASE \E c \in Sessions : \E s \in Subdomains : HTTPRegistered(c, s)
  <2>1. PICK c \in Sessions : \E s \in Subdomains : HTTPRegistered(c, s)
    BY <1>8
  <2>2. PICK s \in Subdomains : HTTPRegistered(c, s)
    BY <2>1
  <2>3. /\ loop[c] = "http" /\ httpTunnels' = [httpTunnels EXCEPT ![s] = cur[c]]
        /\ tcpTunnels' = tcpTunnels /\ session' = session /\ main' = main
    BY <2>2 DEF HTTPRegistered, RegisterHTTP, connVars
  <2>4. cur[c] = x
    BY <1>2, <1>6, <2>3 DEF Registered, InHTTP, InTCP, CSInv, TypeOK, TMTypeOK
  <2>5. session[x] = c
    BY <2>3, <2>4 DEF CSInv, LoopInv, Flight
  <2> QED BY <1>2, <2>3, <2>4, <2>5 DEF PastSnapshot
<1>9. CASE \E c \in Sessions : InsertPort(c)
  <2>1. PICK c \in Sessions : InsertPort(c)
    BY <1>9
  <2>2. /\ loop[c] = "insert" /\ httpTunnels' = httpTunnels
        /\ tcpTunnels' \in {tcpTunnels, [tcpTunnels EXCEPT ![port[cur[c]]] = cur[c]]}
        /\ session' = session /\ main' = main
    BY <2>1 DEF InsertPort, InsertTCP, connVars
  <2>3. cur[c] = x
    BY <1>2, <1>6, <2>2 DEF Registered, InHTTP, InTCP, CSInv, TypeOK, TMTypeOK
  <2>4. session[x] = c
    BY <2>2, <2>3 DEF CSInv, LoopInv, Flight
  <2> QED BY <1>2, <2>2, <2>3, <2>4 DEF PastSnapshot
<1> QED BY <1>7, <1>8, <1>9, OnlyRegistrationsFill

(* No interleaving of clean-ups, kills, UnregisterTCP and RegisterTCP      *)
(* leaves a registered name or a bound port behind, except that a message  *)
(* loop may register one after its session's clean-up has looked.          *)
THEOREM OnlyLateRegistrationsRemain == Spec => OnlyLateRegistrationsStrand
<1>1. CSInv /\ [Next]_vars =>
        [\A x \in Tunnels : Stranded(x)' /\ ~ Stranded(x) =>
           \E c \in Sessions : /\ cur[c] = x /\ loop[c] \in {"http", "insert"}
                               /\ PastSnapshot(c)]_vars
  BY StrandedByRegistration
<1> QED BY <1>1, CSInvHolds, PTL DEF Spec, OnlyLateRegistrationsStrand

---------------------------------------------------------------------------
(* One live anonymous tunnel per connection                                *)

Busy == {"charge"} \cup Flight

(* The strengthening AnonOnePerSession needs: while a request of an        *)
(* anonymous connection is past the check, the connection has no live      *)
(* tunnel.  Only its own loop could register one, and that loop is busy.   *)
AnonClear ==
  \A c \in Sessions :
    auth[c] \in AnonTokens /\ loop[c] \in Busy =>
      \A x \in TunnelsForAnon(auth[c]) : session[x] # c

AnonInv == AnonClear /\ AnonOnePerSession

(* An anonymous connection comes to charge a request only through the      *)
(* check of handleTunnelRequest.                                           *)
LEMMA BusyAfterCheck ==
  ASSUME CSInv, [Next]_vars, NEW c \in Sessions,
         auth'[c] \in AnonTokens, loop'[c] \in Busy
  PROVE  /\ auth[c] = auth'[c]
         /\ loop[c] \in Busy \/ (loop[c] = "anon" /\ AnonAllowed(auth[c]))
<1> DEFINE Goal == /\ auth[c] = auth'[c]
                   /\ loop[c] \in Busy \/ (loop[c] = "anon" /\ AnonAllowed(auth[c]))
<1> USE DEF Busy, Flight
<1>0. auth \in [Sessions -> AllTokens \cup {None}] /\ loop \in [Sessions -> LoopSteps]
  BY DEF CSInv, TypeOK
<1>1. CASE auth' = auth /\ loop' = loop
  BY <1>1
<1>2. ASSUME NEW d \in Sessions, MainStep(d) PROVE Goal
  BY <1>1, <1>2 DEF MainStep, AcceptFails, LoopEnded, ReserveDone, CloseOwnSession,
    SnapshotTunnels, CloseVictim, RefundNext, CleanupDone, ReserveNext, CleanHTTP, CleanTCP,
    loopVars
<1>3. ASSUME NEW d \in Sessions, RequestStep(d) PROVE Goal
  <2>0. auth' = auth
    BY <1>3 DEF RequestStep, CheckAnonymous, RefuseAnonymous, RefuseRequest, Charge,
      HTTPRegistered, HTTPCollision, HTTPRefused, PickPort, ListenPort, ListenFails,
      InsertPort, RefundRequest, connVars
  <2>1. CASE RefuseAnonymous(d) \/ RefuseRequest(d) \/ RefundRequest(d)
    BY <1>0, <2>0, <2>1 DEF RefuseAnonymous, RefuseRequest, RefundRequest, EndRequest
  <2>2. CASE CheckAnonymous(d)
    BY <1>0, <2>0, <2>2 DEF CheckAnonymous, LoopTo
  <2>3. ASSUME NEW x \in Tunnels, Charge(d, x) PROVE Goal
    BY <1>0, <2>0, <2>3 DEF Charge, LoopTo
  <2>4. ASSUME NEW s \in Subdomains, HTTPRegistered(d, s) \/ HTTPCollision(d, s) PROVE Goal
    BY <1>0, <2>0, <2>4 DEF HTTPRegistered, HTTPCollision, EndRequest, Retry
  <2>5. CASE HTTPRefused(d) \/ ListenPort(d)
    BY <1>0, <2>0, <2>5 DEF HTTPRefused, ListenPort, LoopTo
  <2>6. ASSUME NEW p \in Ports, PickPort(d, p) PROVE Goal
    BY <1>0, <2>0, <2>6 DEF PickPort, LoopTo, Retry
  <2>7. CASE ListenFails(d) \/ InsertPort(d)
    BY <1>0, <2>0, <2>7 DEF ListenFails, InsertPort, EndRequest, Retry
  <2> QED BY <1>3, <2>1, <2>2, <2>3, <2>4, <2>5, <2>6, <2>7 DEF RequestStep
<1>4. ASSUME NEW d \in Sessions, ClientStep(d) PROVE Goal
  <2>1. ASSUME NEW t \in AllTokens, Authenticate(d, t) PROVE Goal
    <3>1. loop[d] = "off" /\ loop' = loop
      BY <2>1 DEF Authenticate, MainTo, loopVars, CSInv, TokenInv
    <3> QED BY <1>0, <2>1, <3>1 DEF Authenticate
  <2>2. ASSUME NEW r \in Requests, ReceiveTunnelReq(d, r) PROVE Goal
    BY <1>0, <2>2 DEF ReceiveTunnelReq, LoopTo, connVars
  <2>3. CASE AcceptControlStream(d) \/ LoopEnds(d)
    BY <1>0, <2>3 DEF AcceptControlStream, LoopEnds, LoopTo, connVars
  <2>4. CASE RejectConnection(d) \/ SessionLost(d) \/ IdleTimeout(d)
    BY <1>1, <2>4 DEF RejectConnection, SessionLost, IdleTimeout, connVars, loopVars
  <2> QED BY <1>4, <2>1, <2>2, <2>3, <2>4 DEF ClientStep
<1>5. CASE BackgroundStep \/ AllQuiet \/ UNCHANGED vars
  BY <1>1, <1>5 DEF BackgroundStep, ExpiryScan, ReaperTick, ExpiryKill, AdminKill,
    ClockPasses, AllQuiet, vars, connVars, loopVars
<1> QED BY <1>2, <1>3, <1>4, <1>5 DEF Next

(* A tunnel becomes live only as the one its own session's loop registers, *)
(* which is then back at reading the control stream.                       *)
LEMMA LiveByRegistration ==
  ASSUME CSInv, [Next]_vars, NEW x \in Tunnels, NEW t, x \in TunnelsForAnon(t)'
  PROVE  /\ session'[x] = session[x] /\ session[x] \in Sessions
         /\ \/ x \in TunnelsForAnon(t)
            \/ LET c == session[x] IN
                 /\ loop[c] \in Flight /\ cur[c] = x
                 /\ loop'[c] = "read" /\ t = auth[c]
<1>1. /\ ObjectsKept
      /\ \/ EntriesOnlyRemoved
         \/ \E c \in Sessions : \E s \in Subdomains : HTTPRegistered(c, s)
         \/ \E c \in Sessions : InsertPort(c)
  BY OnlyRegistrationsFill
<1>2. x \in Tunnels /\ token'[x] = t /\ (InTCP(x)' \/ (InHTTP(x)' /\ reserved'[x] = "no"))
  BY DEF TunnelsForAnon
<1>3. CASE EntriesOnlyRemoved
  <2>1. InTCP(x)' => InTCP(x)
    BY <1>3, NoneIsNew DEF EntriesOnlyRemoved, InTCP
  <2>2. InHTTP(x)' => InHTTP(x)
    BY <1>3, NoneIsNew DEF EntriesOnlyRemoved, InHTTP
  <2>3. session[x] \in Sessions
    BY <1>2, <2>1, <2>2, RegisteredIsBuilt DEF CSInv, Registered
  <2> QED BY <1>1, <1>2, <2>1, <2>2, <2>3, NoneIsNew DEF ObjectsKept, TunnelsForAnon
<1>4. ASSUME NEW c \in Sessions, NEW s \in Subdomains, HTTPRegistered(c, s)
      PROVE  /\ session'[x] = session[x] /\ session[x] \in Sessions
             /\ x # cur[c] => x \in TunnelsForAnon(t)
             /\ x = cur[c] => loop[c] = "http" /\ session[x] = c /\ loop'[c] = "read" /\ t = auth[c]
  <2>1. /\ loop[c] = "http" /\ cur[c] \in Tunnels /\ session[cur[c]] = c
        /\ token[cur[c]] = auth[c] /\ loop'[c] = "read"
    BY <1>4, NoneIsNew DEF HTTPRegistered, EndRequest, CSInv, LoopInv, TokenInv, Flight, TypeOK
  <2>2. /\ httpTunnels' = [httpTunnels EXCEPT ![s] = cur[c]]
        /\ UNCHANGED <<tcpTunnels, token, session, reserved>>
    BY <1>4 DEF HTTPRegistered, RegisterHTTP
  <2>3. CASE x = cur[c]
    BY <1>2, <2>1, <2>2, <2>3
  <2>4. CASE x # cur[c]
    <3>1. InTCP(x)' => InTCP(x)
      BY <2>2 DEF InTCP
    <3>2. InHTTP(x)' => InHTTP(x)
      BY <2>2, <2>4 DEF InHTTP, CSInv, TypeOK, TMTypeOK
    <3>3. session[x] \in Sessions
      BY <1>2, <3>1, <3>2, RegisteredIsBuilt DEF CSInv, Registered
    <3> QED BY <1>2, <2>2, <2>4, <3>1, <3>2, <3>3 DEF TunnelsForAnon
  <2> QED BY <2>3, <2>4
<1>5. ASSUME NEW c \in Sessions, InsertPort(c)
      PROVE  /\ session'[x] = session[x] /\ session[x] \in Sessions
             /\ \/ x \in TunnelsForAnon(t)
                \/ /\ x = cur[c] /\ loop[c] = "insert" /\ session[x] = c
                   /\ loop'[c] = "read" /\ t = auth[c]
  <2>1. /\ loop[c] = "insert" /\ cur[c] \in Tunnels /\ session[cur[c]] = c
        /\ token[cur[c]] = auth[c]
        /\ tcpTunnels[port[cur[c]]] = None => loop'[c] = "read"
    BY <1>5, NoneIsNew DEF InsertPort, EndRequest, CSInv, LoopInv, TokenInv, Flight, TypeOK
  <2>2. /\ tcpTunnels' = IF tcpTunnels[port[cur[c]]] = None
                         THEN [tcpTunnels EXCEPT ![port[cur[c]]] = cur[c]] ELSE tcpTunnels
        /\ UNCHANGED <<httpTunnels, token, session, reserved>>
    BY <1>5 DEF InsertPort, InsertTCP
  <2>3. CASE x = cur[c] /\ tcpTunnels[port[cur[c]]] = None
    BY <1>2, <2>1, <2>2, <2>3
  <2>4. CASE ~ (x = cur[c] /\ tcpTunnels[port[cur[c]]] = None)
    <3>1. InTCP(x)' => InTCP(x)
      BY <2>2, <2>4 DEF InTCP, CSInv, TypeOK, TMTypeOK
    <3>2. InHTTP(x)' => InHTTP(x)
      BY <2>2 DEF InHTTP
    <3>3. session[x] \in Sessions
      BY <1>2, <3>1, <3>2, RegisteredIsBuilt DEF CSInv, Registered
    <3> QED BY <1>2, <2>2, <3>1, <3>2, <3>3 DEF TunnelsForAnon
  <2> QED BY <2>3, <2>4
<1> QED BY <1>1, <1>3, <1>4, <1>5 DEF Flight

LEMMA AnonNextInv ==
  ASSUME CSInv, AnonInv, [Next]_vars PROVE AnonInv'
<1>1. AnonClear'
  <2> SUFFICES ASSUME NEW c \in Sessions, NEW t \in AnonTokens, auth'[c] = t,
                      loop'[c] \in Busy,
                      NEW x \in Tunnels, x \in TunnelsForAnon(t)', session'[x] = c
               PROVE  FALSE
    BY DEF AnonClear, TunnelsForAnon
  <2>1. /\ auth[c] = auth'[c]
        /\ loop[c] \in Busy \/ (loop[c] = "anon" /\ AnonAllowed(auth[c]))
    BY BusyAfterCheck
  <2>2. session[x] = c /\ x \in TunnelsForAnon(t)
    BY <2>1, LiveByRegistration DEF Busy, Flight
  <2> QED BY <2>1, <2>2 DEF AnonInv, AnonClear, AnonAllowed
<1>2. AnonOnePerSession'
  <2> SUFFICES ASSUME NEW x \in Tunnels, NEW y \in Tunnels, NEW t \in AnonTokens,
                      session'[x] = session'[y],
                      x \in TunnelsForAnon(t)', y \in TunnelsForAnon(t)'
               PROVE  x = y
    BY DEF AnonOnePerSession
  <2> DEFINE c == session[x]
             Fresh(z) == loop[c] \in Flight /\ cur[c] = z /\ t = auth[c]
  <2>1. c \in Sessions /\ session[y] = c
    BY LiveByRegistration
  <2>2. x \in TunnelsForAnon(t) \/ Fresh(x)
    BY LiveByRegistration
  <2>3. y \in TunnelsForAnon(t) \/ Fresh(y)
    BY <2>1, LiveByRegistration
  <2>4. ASSUME NEW z \in Tunnels, Fresh(z), NEW w \in TunnelsForAnon(t), session[w] = c
        PROVE  FALSE
    BY <2>1, <2>4 DEF AnonInv, AnonClear, Busy
  <2>5. CASE x \in TunnelsForAnon(t) /\ y \in TunnelsForAnon(t)
    BY <2>1, <2>5 DEF AnonInv, AnonOnePerSession, TunnelsForAnon
  <2> QED BY <2>1, <2>2, <2>3, <2>4, <2>5
<1> QED BY <1>1, <1>2 DEF AnonInv

(* "Enforce 1 tunnel per anonymous IP" of handleTunnelRequest reads the    *)
(* registry before the registration; whatever runs in between, a single    *)
(* connection never comes to two live anonymous tunnels.                   *)
THEOREM AnonymousOnePerConnection == Spec => []AnonOnePerSession
<1>1. Init => AnonInv
  <2> SUFFICES ASSUME Init PROVE AnonInv
    OBVIOUS
  <2>1. \A x \in Tunnels : ~ InTCP(x) /\ ~ InHTTP(x)
    BY NoneIsNew DEF Init, TMInit, InTCP, InHTTP
  <2> QED BY <2>1 DEF AnonInv, AnonClear, AnonOnePerSession, TunnelsForAnon
<1>2. CSInv /\ AnonInv /\ [Next]_vars => AnonInv'
  BY AnonNextInv
<1>3. AnonInv => AnonOnePerSession
  BY DEF AnonInv
<1> QED BY <1>1, <1>2, <1>3, CSInvHolds, PTL DEF Spec

---------------------------------------------------------------------------
(* The server implements TunnelLease                                       *)

LEMMA LeaseValues ==
  ASSUME CSInv, NEW e \in Subdomains \cup Ports
  PROVE  /\ HolderOf(e) \in Tunnels \cup {None}
         /\ HolderOf(e) # None =>
              /\ Registered(HolderOf(e)) /\ session[HolderOf(e)] \in Sessions
              /\ token[HolderOf(e)] \in AllTokens
<1>1. HolderOf(e) \in Tunnels \cup {None}
  BY DEF HolderOf, CSInv, TypeOK, TMTypeOK
<1>2. ASSUME HolderOf(e) # None PROVE Registered(HolderOf(e))
  BY <1>1, <1>2 DEF HolderOf, Registered, InHTTP, InTCP
<1>3. ASSUME NEW x \in Tunnels, Registered(x)
      PROVE  session[x] \in Sessions /\ token[x] \in AllTokens
  <2>1. session[x] \in Sessions
    BY <1>3, RegisteredIsBuilt DEF CSInv
  <2>2. token[x] = auth[session[x]]
    BY <2>1, NoneIsNew DEF CSInv, TokenInv
  <2>3. token[x] # None
    BY <2>1, NoneIsNew DEF CSInv, TMInv, ObjectsBuilt
  <2> QED BY <2>1, <2>2, <2>3 DEF CSInv, TypeOK, TMTypeOK
<1> QED BY <1>1, <1>2, <1>3

(* TunnelLease has its own instance of FiniteSets.                         *)
LEMMA SameCardinality == \A S : Lease!Cardinality(S) = Cardinality(S)
BY DEF Cardinality, Lease!Cardinality, IsFiniteSet, Lease!IsFiniteSet

LEMMA LeaseMapFacts ==
  ASSUME CSInv
  PROVE  /\ \A e \in Subdomains \cup Ports :
              leaseMap[e] = IF HolderOf(e) = None THEN None ELSE token[HolderOf(e)]
         /\ \A e \in Subdomains \cup Ports : leaseMap[e] = None <=> HolderOf(e) = None
<1>1. \A e \in Subdomains \cup Ports :
        leaseMap[e] = IF HolderOf(e) = None THEN None ELSE token[HolderOf(e)]
  BY DEF leaseMap
<1> QED BY <1>1, LeaseValues, NoneIsNew

(* A tunnel is filed under one name or port only.                          *)
LEMMA HoldersDiffer ==
  ASSUME CSInv, NEW d \in Subdomains \cup Ports, NEW e \in Subdomains \cup Ports,
         HolderOf(d) = HolderOf(e), HolderOf(d) # None
  PROVE  d = e
<1> USE NamesAndPorts DEF CSInv, TMInv, EntriesIndexed, HolderOf
<1>1. CASE d \in Subdomains /\ e \in Subdomains
  BY <1>1
<1>2. CASE d \in Ports /\ e \in Ports
  BY <1>2
<1>3. CASE d \in Subdomains /\ e \in Ports
  BY <1>3
<1>4. CASE d \in Ports /\ e \in Subdomains
  BY <1>4
<1> QED BY <1>1, <1>2, <1>3, <1>4

(* A token that has been charged for the tunnel it is registering holds    *)
(* fewer endpoints than its limit: each endpoint it holds is a registered  *)
(* tunnel of its own, the one in flight is not registered yet, and the     *)
(* count covers them all.                                                  *)
LEMMA RoomForRequest ==
  ASSUME CSInv, NEW c \in Sessions, loop[c] \in Flight, NEW t \in Tokens, auth[c] = t
  PROVE  Cardinality({e \in Subdomains \cup Ports : leaseMap[e] = t}) < MaxTunnels[t]
<1> DEFINE held == {e \in Subdomains \cup Ports : leaseMap[e] = t}
           others == Outstanding(t) \ {cur[c]}
           f == [e \in held |-> HolderOf(e)]
<1>1. /\ cur[c] \in Tunnels /\ session[cur[c]] = c /\ ~ Registered(cur[c])
      /\ token[cur[c]] = t
  BY NoneIsNew DEF CSInv, LoopInv, TokenInv
<1>2. cur[c] \in Outstanding(t)
  BY <1>1 DEF Outstanding, InFlight, Flight
<1>3. \A e \in held : HolderOf(e) \in others
  <2> SUFFICES ASSUME NEW e \in Subdomains \cup Ports, leaseMap[e] = t
               PROVE  HolderOf(e) \in others
    OBVIOUS
  <2>1. HolderOf(e) # None /\ token[HolderOf(e)] = t
    BY LeaseMapFacts, TokensAssumption, NoneIsNew
  <2>2. HolderOf(e) \in Tunnels /\ Registered(HolderOf(e))
    BY <2>1, LeaseValues
  <2> QED BY <1>1, <2>1, <2>2 DEF Outstanding
<1>4. \A d, e \in held : HolderOf(d) = HolderOf(e) => d = e
  <2> SUFFICES ASSUME NEW d \in held, NEW e \in held, HolderOf(d) = HolderOf(e) PROVE d = e
    OBVIOUS
  <2>1. d \in Subdomains \cup Ports /\ e \in Subdomains \cup Ports /\ HolderOf(d) # None
    BY LeaseMapFacts, TokensAssumption, NoneIsNew
  <2> QED BY <2>1, HoldersDiffer
<1>5. f \in Injection(held, others)
  <2>1. f \in [held -> others]
    BY <1>3
  <2>2. \A d, e \in held : f[d] = f[e] => d = e
    BY <1>4
  <2> HIDE DEF f, held, others
  <2> QED BY <2>1, <2>2 DEF Injection, IsInjective
<1>6. /\ IsFiniteSet(Outstanding(t)) /\ Cardinality(Outstanding(t)) \in Nat
      /\ IsFiniteSet(others) /\ Cardinality(others) = Cardinality(Outstanding(t)) - 1
  BY <1>2, OutstandingFinite, FS_RemoveElement
<1>7. Cardinality(held) <= Cardinality(others) /\ IsFiniteSet(held)
  BY <1>5, <1>6, FS_Injection
<1>8. Cardinality(held) \in Nat
  BY <1>7, FS_CardinalityType
<1>9. Cardinality(Outstanding(t)) <= tunnelCount[t] /\ tunnelCount[t] <= MaxTunnels[t]
  BY DEF CSInv, QuotaCovers
<1>10. tunnelCount[t] \in Nat /\ MaxTunnels[t] \in Nat
  BY TokensAssumption DEF CSInv, TypeOK
<1> HIDE DEF held, others
<1>11. Cardinality(held) < MaxTunnels[t]
  BY <1>6, <1>7, <1>8, <1>9, <1>10
<1> QED BY <1>11 DEF held

(* Taking entries out of the maps gives up endpoints, and changes no other *)
(* holder: a tunnel keeps its token.                                       *)
LEMMA RemovalGivesUp ==
  ASSUME CSInv, CSInv', ObjectsKept, EntriesOnlyRemoved
  PROVE  \E E \in SUBSET (Subdomains \cup Ports) : Lease!GiveUp(E)
<1> DEFINE E == {e \in Subdomains \cup Ports : HolderOf(e)' = None}
<1>1. ASSUME NEW e \in Subdomains \cup Ports
      PROVE  leaseMap'[e] = IF e \in E THEN None ELSE leaseMap[e]
  <2>1. HolderOf(e)' \in {HolderOf(e), None}
    BY NamesAndPorts DEF EntriesOnlyRemoved, HolderOf
  <2>2. leaseMap'[e] = IF HolderOf(e)' = None THEN None ELSE token'[HolderOf(e)']
    BY DEF leaseMap, HolderOf
  <2>3. CASE HolderOf(e)' = None
    BY <2>2, <2>3
  <2>4. CASE HolderOf(e)' # None
    <3>1. HolderOf(e)' = HolderOf(e) /\ HolderOf(e) # None
      BY <2>1, <2>4
    <3>2. HolderOf(e) \in Tunnels /\ session[HolderOf(e)] # None
      BY <3>1, LeaseValues, NoneIsNew
    <3>3. token'[HolderOf(e)] = token[HolderOf(e)]
      BY <3>2 DEF ObjectsKept
    <3> QED BY <2>2, <2>4, <3>1, <3>3, LeaseMapFacts
  <2> QED BY <2>3, <2>4
<1>2. leaseMap' = [e \in Subdomains \cup Ports |-> IF e \in E THEN None ELSE leaseMap[e]]
  BY <1>1 DEF leaseMap
<1> QED BY <1>2 DEF Lease!GiveUp

(* registerHTTPTunnel grants a free name, or leaves the name with the      *)
(* token that had it reserved.                                             *)
LEMMA HTTPGrants ==
  ASSUME CSInv, NEW c \in Sessions, NEW s \in Subdomains, HTTPRegistered(c, s)
  PROVE  (\E t \in AllTokens : Lease!Grant(s, t)) \/ leaseMap' = leaseMap
<1> DEFINE x == cur[c]
           t == auth[c]
<1>1. /\ loop[c] \in Flight /\ x \in Tunnels /\ session[x] = c /\ token[x] = t
      /\ t \in AllTokens
  BY NoneIsNew, LeaseValues DEF HTTPRegistered, CSInv, LoopInv, TokenInv, Flight, TypeOK
<1>2. /\ httpTunnels' = [httpTunnels EXCEPT ![s] = x] /\ Available(s, t)
      /\ UNCHANGED <<tcpTunnels, token>>
  BY <1>1 DEF HTTPRegistered, RegisterHTTP
<1>3. /\ s \notin Ports /\ HolderOf(s) = httpTunnels[s] /\ HolderOf(s)' = x
      /\ \A e \in (Subdomains \cup Ports) \ {s} : HolderOf(e)' = HolderOf(e)
  BY <1>2, NamesAndPorts DEF HolderOf, CSInv, TypeOK, TMTypeOK
<1>4. leaseMap' = [leaseMap EXCEPT ![s] = t]
  <2>1. ASSUME NEW e \in Subdomains \cup Ports
        PROVE  leaseMap'[e] = [leaseMap EXCEPT ![s] = t][e]
    <3>1. leaseMap'[e] = IF HolderOf(e)' = None THEN None ELSE token'[HolderOf(e)']
      BY DEF leaseMap, HolderOf
    <3>2. CASE e = s
      BY <1>1, <1>2, <1>3, <3>1, <3>2, NoneIsNew DEF leaseMap
    <3>3. CASE e # s
      BY <1>2, <1>3, <3>1, <3>3 DEF leaseMap
    <3> QED BY <3>2, <3>3
  <2> QED BY <2>1 DEF leaseMap
<1>5. CASE httpTunnels[s] = None
  <2>1. leaseMap[s] = None
    BY <1>3, <1>5, LeaseMapFacts
  <2>2. t \in Tokens => Cardinality(Lease!Held(t)) < MaxTunnels[t]
    BY <1>1, RoomForRequest DEF Lease!Held
  <2>3. Lease!Grant(s, t)
    BY <1>4, <2>1, <2>2, SameCardinality DEF Lease!Grant
  <2> QED BY <1>1, <2>3
<1>6. CASE httpTunnels[s] # None
  <2>1. token[httpTunnels[s]] = t
    BY <1>2, <1>6 DEF Available, Reclaimable
  <2>2. leaseMap[s] = t
    BY <1>3, <1>6, <2>1, LeaseMapFacts
  <2> QED BY <1>4, <2>2 DEF leaseMap
<1> QED BY <1>5, <1>6

(* RegisterTCP grants the port it has bound, or changes nothing.           *)
LEMMA TCPGrants ==
  ASSUME CSInv, NEW c \in Sessions, InsertPort(c)
  PROVE  (\E e \in Ports, t \in AllTokens : Lease!Grant(e, t)) \/ leaseMap' = leaseMap
<1> DEFINE x == cur[c]
           t == auth[c]
<1>1. /\ loop[c] \in Flight /\ x \in Tunnels /\ session[x] = c /\ token[x] = t
      /\ t \in AllTokens /\ port[x] \in Ports
  BY NoneIsNew DEF InsertPort, CSInv, LoopInv, TokenInv, Flight, TypeOK, TMInv, ObjectsBuilt
<1> PICK p \in Ports : p = port[x]
  BY <1>1
<1>2. CASE tcpTunnels[p] # None
  <2>1. UNCHANGED <<httpTunnels, tcpTunnels, token>>
    BY <1>2 DEF InsertPort, InsertTCP
  <2> QED BY <2>1 DEF leaseMap, HolderOf
<1>3. CASE tcpTunnels[p] = None
  <2>1. tcpTunnels' = [tcpTunnels EXCEPT ![p] = x] /\ UNCHANGED <<httpTunnels, token>>
    BY <1>3 DEF InsertPort, InsertTCP
  <2>2. /\ p \notin Subdomains /\ HolderOf(p) = None /\ HolderOf(p)' = x
        /\ \A e \in (Subdomains \cup Ports) \ {p} : HolderOf(e)' = HolderOf(e)
    BY <1>1, <1>3, <2>1, NamesAndPorts DEF HolderOf, CSInv, TypeOK, TMTypeOK
  <2>3. leaseMap' = [leaseMap EXCEPT ![p] = t]
    <3>1. ASSUME NEW e \in Subdomains \cup Ports
          PROVE  leaseMap'[e] = [leaseMap EXCEPT ![p] = t][e]
      <4>1. leaseMap'[e] = IF HolderOf(e)' = None THEN None ELSE token'[HolderOf(e)']
        BY DEF leaseMap, HolderOf
      <4>2. CASE e = p
        BY <1>1, <2>1, <2>2, <4>1, <4>2, NoneIsNew DEF leaseMap
      <4>3. CASE e # p
        BY <2>1, <2>2, <4>1, <4>3 DEF leaseMap
      <4> QED BY <4>2, <4>3
    <3> QED BY <3>1 DEF leaseMap
  <2>4. leaseMap[p] = None
    BY <1>1, <2>2, LeaseMapFacts
  <2>5. t \in Tokens => Cardinality(Lease!Held(t)) < MaxTunnels[t]
    BY <1>1, RoomForRequest DEF Lease!Held
  <2>6. Lease!Grant(p, t)
    BY <2>3, <2>4, <2>5, SameCardinality DEF Lease!Grant
  <2> QED BY <1>1, <2>6
<1> QED BY <1>2, <1>3

(* The server implements the lease service: whatever its goroutines        *)
(* interleave, an endpoint passes from one token to another only through   *)
(* being free, and a token is granted one only below its limit.            *)
THEOREM ServerImplementsLease == Spec => ImplementsLease
<1>1. Init => Lease!LInit
  BY DEF Init, TMInit, Lease!LInit, leaseMap, HolderOf
<1>2. CSInv /\ CSInv' /\ [Next]_vars => [Lease!LNext]_leaseMap
  <2> SUFFICES ASSUME CSInv, CSInv', [Next]_vars PROVE [Lease!LNext]_leaseMap
    OBVIOUS
  <2>1. CASE EntriesOnlyRemoved
    BY <2>1, OnlyRegistrationsFill, RemovalGivesUp DEF Lease!LNext
  <2>2. ASSUME NEW c \in Sessions, NEW s \in Subdomains, HTTPRegistered(c, s)
        PROVE  [Lease!LNext]_leaseMap
    BY <2>2, HTTPGrants DEF Lease!LNext
  <2>3. ASSUME NEW c \in Sessions, InsertPort(c) PROVE [Lease!LNext]_leaseMap
    BY <2>3, TCPGrants DEF Lease!LNext
  <2> QED BY <2>1, <2>2, <2>3, OnlyRegistrationsFill
<1> QED BY <1>1, <1>2, CSInvHolds, PTL DEF Spec, ImplementsLease, Lease!LSpec
=============================================================================
