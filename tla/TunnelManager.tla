--------------------------- MODULE TunnelManager ---------------------------
(***************************************************************************)
(* The registry of internal/server/tunnel_manager.go: HTTP tunnels indexed *)
(* by subdomain, TCP tunnels by allocated port, each entry a pointer to a  *)
(* TunnelSession object.                                                   *)
(*                                                                         *)
(* Every method body between mu.Lock and mu.Unlock is one atomic step; the *)
(* parts of a method outside the lock (net.Listen in RegisterTCP, the      *)
(* Listener.Close after UnregisterTCP unlocks) are steps of their own, so  *)
(* other goroutines interleave with them.  KillTunnelByID closes the       *)
(* listener before the delete, but inside the same critical section; the   *)
(* only step that can see the gap is net.Listen, which commutes with the   *)
(* delete, so the method is one step here.                                 *)
(*                                                                         *)
(* Time is abstract: a reservation is "held" until ReservedUntil passes,   *)
(* then "expired".  A TunnelSession is private to the goroutine that       *)
(* builds it until it is inserted in a map, so the assignments the caller  *)
(* makes just before (ts.Subdomain, ts.Port) are part of the insertion.    *)
(***************************************************************************)
CONSTANTS Tunnels,      \* TunnelSession objects (pool that bounds requests)
          Sessions,     \* yamux sessions, one per client connection
          AllTokens,    \* auth tokens, anonymous ones included
          Subdomains,   \* the names ValidateSubdomain accepts
          Ports,        \* portMin .. portMax
          None          \* nil

ASSUME NoneIsNew ==
  /\ None \notin Tunnels /\ None \notin Sessions /\ None \notin AllTokens
  /\ None \notin Subdomains /\ None \notin Ports
  /\ None \notin {"http", "tcp", "other"}

ASSUME NamesAndPorts ==
  Subdomains \cap Ports = {} /\ Subdomains # {} /\ Ports # {}

VARIABLES httpTunnels,  \* subdomain -> tunnel or None
          tcpTunnels,   \* port -> tunnel or None
          token,        \* TunnelSession.Token, None when not yet built
          session,      \* TunnelSession.Session
          type,         \* TunnelSession.Type
          subdomain,    \* TunnelSession.Subdomain
          port,         \* TunnelSession.Port
          listener,     \* TunnelSession.Listener: "none", "open", "closed"
          reserved,     \* Reserved/ReservedUntil: "no", "held", "expired"
          closing,      \* tunnels UnregisterTCP removed, listener not yet closed
          closed        \* yamux sessions that have been closed

tmVars == <<httpTunnels, tcpTunnels, token, session, type, subdomain, port,
            listener, reserved, closing, closed>>

TunnelTypes == {"http", "tcp", "other"}

TMTypeOK ==
  /\ httpTunnels \in [Subdomains -> Tunnels \cup {None}]
  /\ tcpTunnels \in [Ports -> Tunnels \cup {None}]
  /\ token \in [Tunnels -> AllTokens \cup {None}]
  /\ session \in [Tunnels -> Sessions \cup {None}]
  /\ type \in [Tunnels -> TunnelTypes \cup {None}]
  /\ subdomain \in [Tunnels -> Subdomains \cup {None}]
  /\ port \in [Tunnels -> Ports \cup {None}]
  /\ listener \in [Tunnels -> {"none", "open", "closed"}]
  /\ reserved \in [Tunnels -> {"no", "held", "expired"}]
  /\ closing \subseteq Tunnels
  /\ closed \subseteq Sessions

(* NewTunnelManager: both maps empty.                                      *)
TMInit ==
  /\ httpTunnels = [s \in Subdomains |-> None]
  /\ tcpTunnels = [p \in Ports |-> None]
  /\ token = [x \in Tunnels |-> None]
  /\ session = [x \in Tunnels |-> None]
  /\ type = [x \in Tunnels |-> None]
  /\ subdomain = [x \in Tunnels |-> None]
  /\ port = [x \in Tunnels |-> None]
  /\ listener = [x \in Tunnels |-> "none"]
  /\ reserved = [x \in Tunnels |-> "no"]
  /\ closing = {}
  /\ closed = {}

InHTTP(x) == \E s \in Subdomains : httpTunnels[s] = x
InTCP(x) == \E p \in Ports : tcpTunnels[p] = x
Registered(x) == InHTTP(x) \/ InTCP(x)

(* SessionTunnels: what the registry holds for one yamux session.          *)
SessionTunnels(c) == {x \in Tunnels : session[x] = c /\ Registered(x)}

(* TunnelsForAnon: the unreserved HTTP tunnels and TCP tunnels of a token. *)
TunnelsForAnon(t) ==
  {x \in Tunnels : token[x] = t /\ (InTCP(x) \/ (InHTTP(x) /\ reserved[x] = "no"))}

(* The TunnelSession literal of handleTunnelRequest.                       *)
NewTunnel(x, c, t, k) ==
  /\ session[x] = None
  /\ session' = [session EXCEPT ![x] = c]
  /\ token' = [token EXCEPT ![x] = t]
  /\ type' = [type EXCEPT ![x] = k]
  /\ UNCHANGED <<httpTunnels, tcpTunnels, subdomain, port, listener, reserved,
                 closing, closed>>

---------------------------------------------------------------------------
(* Faulty variant: the token of the reservation is not compared.           *)
Reclaimable_AnyToken(s, t) ==
  httpTunnels[s] # None /\ reserved[httpTunnels[s]] = "held"

(* RegisterHTTP succeeds on a free name, or on a reservation of the same   *)
(* token whose deadline has not passed.                                    *)
Reclaimable(s, t) ==
  /\ httpTunnels[s] # None
  /\ reserved[httpTunnels[s]] = "held"
  /\ token[httpTunnels[s]] = t

Available(s, t) == httpTunnels[s] = None \/ Reclaimable(s, t)

RegisterHTTP(s, x) ==
  /\ Available(s, token[x])
  /\ httpTunnels' = [httpTunnels EXCEPT ![s] = x]
  /\ subdomain' = [subdomain EXCEPT ![x] = s]
  /\ UNCHANGED <<tcpTunnels, token, session, type, port, listener, reserved,
                 closing, closed>>

UnregisterHTTP(s) ==
  /\ httpTunnels' = [httpTunnels EXCEPT ![s] = None]
  /\ UNCHANGED <<tcpTunnels, token, session, type, subdomain, port, listener,
                 reserved, closing, closed>>

(* ReserveHTTP marks whatever tunnel the name holds now.                   *)
ReserveHTTP(s) ==
  /\ reserved' = IF httpTunnels[s] = None THEN reserved
                 ELSE [reserved EXCEPT ![httpTunnels[s]] = "held"]
  /\ UNCHANGED <<httpTunnels, tcpTunnels, token, session, type, subdomain,
                 port, listener, closing, closed>>

(* The clock passes ReservedUntil.                                         *)
ReservationExpires(x) ==
  /\ reserved[x] = "held"
  /\ reserved' = [reserved EXCEPT ![x] = "expired"]
  /\ UNCHANGED <<httpTunnels, tcpTunnels, token, session, type, subdomain,
                 port, listener, closing, closed>>

(* Faulty variant: the deadline is compared the wrong way round.           *)
IsExpired_Inverted(s) == httpTunnels[s] # None /\ reserved[httpTunnels[s]] = "held"

(* One tick of reservationReaper, under the lock.                          *)
IsExpired(s) == httpTunnels[s] # None /\ reserved[httpTunnels[s]] = "expired"

Reap ==
  /\ \E s \in Subdomains : IsExpired(s)
  /\ httpTunnels' = [s \in Subdomains |->
                       IF IsExpired(s) THEN None ELSE httpTunnels[s]]
  /\ UNCHANGED <<tcpTunnels, token, session, type, subdomain, port, listener,
                 reserved, closing, closed>>

---------------------------------------------------------------------------
(* RegisterTCP, after its first look at the map: net.Listen succeeds when  *)
(* no listener of this server is open on the port (another process may     *)
(* still hold it: the caller treats a failure as possible at any time).    *)
PortBusy(p) == \E y \in Tunnels : listener[y] = "open" /\ port[y] = p

Listen(x, p) ==
  /\ ~ PortBusy(p)
  /\ port' = [port EXCEPT ![x] = p]
  /\ listener' = [listener EXCEPT ![x] = "open"]
  /\ UNCHANGED <<httpTunnels, tcpTunnels, token, session, type, subdomain,
                 reserved, closing, closed>>

(* The second look, under the lock: insert, or give the port back.         *)
InsertTCP(x) ==
  /\ IF tcpTunnels[port[x]] = None
     THEN /\ tcpTunnels' = [tcpTunnels EXCEPT ![port[x]] = x]
          /\ UNCHANGED listener
     ELSE /\ listener' = [listener EXCEPT ![x] = "none"]
          /\ UNCHANGED tcpTunnels
  /\ UNCHANGED <<httpTunnels, token, session, type, subdomain, port, reserved,
                 closing, closed>>

(* UnregisterTCP deletes the entry under the lock and closes the listener  *)
(* of the tunnel it found after the unlock.                                *)
UnregisterTCP(p) ==
  /\ tcpTunnels' = [tcpTunnels EXCEPT ![p] = None]
  /\ closing' = IF tcpTunnels[p] = None THEN closing
                ELSE closing \cup {tcpTunnels[p]}
  /\ UNCHANGED <<httpTunnels, token, session, type, subdomain, port, listener,
                 reserved, closed>>

CloseListener(x) ==
  /\ listener' = [listener EXCEPT ![x] = "closed"]
  /\ closing' = closing \ {x}
  /\ UNCHANGED <<httpTunnels, tcpTunnels, token, session, type, subdomain,
                 port, reserved, closed>>

(* Faulty variants: the TCP entry is not deleted; the ID is not looked up. *)
KillTunnelByID_KeepsEntry(x) ==
  /\ Registered(x)
  /\ closed' = closed \cup {session[x]}
  /\ httpTunnels' = [s \in Subdomains |->
                       IF httpTunnels[s] = x THEN None ELSE httpTunnels[s]]
  /\ listener' = IF InTCP(x) THEN [listener EXCEPT ![x] = "closed"] ELSE listener
  /\ UNCHANGED <<tcpTunnels, token, session, type, subdomain, port, reserved, closing>>

(* KillTunnelByID: close session and listener and delete the entry, all    *)
(* under the lock.  An ID that is no longer registered changes nothing.    *)
KillTunnelByID(x) ==
  /\ Registered(x)
  /\ closed' = closed \cup {session[x]}
  /\ httpTunnels' = [s \in Subdomains |->
                       IF httpTunnels[s] = x THEN None ELSE httpTunnels[s]]
  /\ tcpTunnels' = [p \in Ports |->
                       IF tcpTunnels[p] = x THEN None ELSE tcpTunnels[p]]
  /\ listener' = IF InTCP(x) THEN [listener EXCEPT ![x] = "closed"] ELSE listener
  /\ UNCHANGED <<token, session, type, subdomain, port, reserved, closing>>

(* session.Close, by the server or because the peer is gone.               *)
CloseSession(c) ==
  /\ closed' = closed \cup {c}
  /\ UNCHANGED <<httpTunnels, tcpTunnels, token, session, type, subdomain,
                 port, listener, reserved, closing>>

---------------------------------------------------------------------------
(* The registry under arbitrary callers.  The only discipline asked of     *)
(* them is the one the code keeps: an object is inserted at most once, by  *)
(* the goroutine that built it, and only a listener that UnregisterTCP     *)
(* removed is closed by hand.                                              *)
Allocating(x) ==
  /\ type[x] = "tcp" /\ listener[x] = "open"
  /\ x \notin closing /\ ~ InTCP(x)

TMNext ==
  \/ \E x \in Tunnels, c \in Sessions, t \in AllTokens, k \in TunnelTypes :
       NewTunnel(x, c, t, k)
  \/ \E x \in Tunnels, s \in Subdomains :
       type[x] = "http" /\ subdomain[x] = None /\ RegisterHTTP(s, x)
  \/ \E s \in Subdomains : UnregisterHTTP(s) \/ ReserveHTTP(s)
  \/ \E x \in Tunnels : ReservationExpires(x)
  \/ Reap
  \/ \E x \in Tunnels, p \in Ports :
       type[x] = "tcp" /\ listener[x] = "none" /\ Listen(x, p)
  \/ \E x \in Tunnels : Allocating(x) /\ InsertTCP(x)
  \/ \E p \in Ports : UnregisterTCP(p)
  \/ \E x \in closing : CloseListener(x)
  \/ \E x \in Tunnels : KillTunnelByID(x)
  \/ \E c \in Sessions : CloseSession(c)

(* As a property of the server, TMSpec says that server.go uses the        *)
(* registry with that discipline whatever its goroutines interleave.       *)
TMSpec == TMInit /\ [][TMNext]_tmVars

---------------------------------------------------------------------------
(* Every entry points at a tunnel of the right type that records the key   *)
(* it is filed under, so a tunnel is in the registry at most once, and the *)
(* unregister-by-name and unregister-by-port of cleanupSession reach it.   *)
EntriesIndexed ==
  /\ \A s \in Subdomains : httpTunnels[s] # None =>
       type[httpTunnels[s]] = "http" /\ subdomain[httpTunnels[s]] = s
  /\ \A p \in Ports : tcpTunnels[p] # None =>
       type[tcpTunnels[p]] = "tcp" /\ port[tcpTunnels[p]] = p

(* A registered TCP tunnel always has a live listener on its own port:     *)
(* RegisterTCP inserts after net.Listen, UnregisterTCP and KillTunnelByID  *)
(* close no listener that is still reachable through the map.              *)
RegisteredPortsListen ==
  \A p \in Ports : tcpTunnels[p] # None =>
    listener[tcpTunnels[p]] = "open" /\ tcpTunnels[p] \notin closing

(* No two open listeners share a port, and the port an allocation has just *)
(* bound is free in the map: the re-check in RegisterTCP ("to avoid TOCTOU *)
(* race") never has to give a port back.                                   *)
BoundPortsExclusive ==
  /\ \A x, y \in Tunnels :
       listener[x] = "open" /\ listener[y] = "open" /\ port[x] = port[y] => x = y
  /\ \A x \in Tunnels : Allocating(x) => tcpTunnels[port[x]] = None

(* The registry as a whole is consistent, also inside the running server,  *)
(* where several goroutines are in the middle of its methods.              *)
RegistryInv == EntriesIndexed /\ RegisteredPortsListen /\ BoundPortsExclusive
=============================================================================
