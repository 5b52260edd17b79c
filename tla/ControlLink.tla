---------------------------- MODULE ControlLink ----------------------------
(***************************************************************************)
(* One connection from the moment its tunnel is granted until both ends    *)
(* have given it up: runWithHeartbeat and runHeartbeat of the client       *)
(* (internal/client/reconnect.go), ServeTunnel, and the heartbeat and idle *)
(* timer of the server's handleControlSession (internal/server/server.go). *)
(*                                                                         *)
(* Time passes in Tick steps.  A goroutine that can run does so before the *)
(* clock moves (its steps take no time on the scale of the timers), and    *)
(* while the path is up a message is delivered within MaxDelay.  When the  *)
(* path is down nothing is delivered; TCP delivers it when it is up again. *)
(*                                                                         *)
(* yamux and TCP are external: the session closes when an end closes it,   *)
(* when the peer's close arrives, or when keep-alives are lost on a path   *)
(* that is down.  What an end received before the close can still be read. *)
(***************************************************************************)
EXTENDS Naturals, Sequences, FiniteSets

CONSTANTS HeartbeatInterval,  \* heartbeatInterval
          MaxMisses,          \* maxHeartbeatMisses
          IdleTimeout,        \* sessionIdleTimeout
          MsgBuf,             \* capacity of msgCh (16)
          MaxDelay,           \* delivery time of a path that is up
          MaxQueued,          \* bound: request logs on their way to the client
          MaxFailures         \* bound: failures of the path

ASSUME TimesAssumption ==
  /\ {HeartbeatInterval, MaxMisses, IdleTimeout, MsgBuf} \subseteq Nat \ {0}
  /\ {MaxDelay, MaxQueued, MaxFailures} \subseteq Nat

(* The network is fast enough for the intervals the code has chosen.       *)
ASSUME PromptAssumption ==
  /\ 2 * MaxDelay < (MaxMisses - 1) * HeartbeatInterval
  /\ HeartbeatInterval + 2 * MaxDelay < IdleTimeout

VARIABLES
  \* client
  runner,     \* runWithHeartbeat and the Close after it: "select", "closing", "done"
  cancelled,  \* its context
  errCh,      \* number of values in errCh (capacity 2)
  hb,         \* runHeartbeat: "run", "done"
  hbTimer,    \* time since the ticker last fired
  misses,
  reader,     \* its decoding goroutine: "decode", "send", "done"
  hand,       \* what the goroutine is about to send on msgCh
  msgCh,
  serve,      \* ServeTunnel: "accept", "done"
  clientOpen, \* the client's end of the session
  recvBuf,    \* received on the control stream, not yet decoded
  \* server
  main,       \* handleControlSession: "select", "closing", "closed"
  loop,       \* its message loop: "decode", "ended"
  idle,       \* time since the idle timer was reset
  serverOpen,
  \* network
  path,       \* "up" or "down"
  toServer,   \* ages of the heartbeats on their way
  toClient,   \* messages on their way, with their ages
  \* history
  downFor,    \* how long the path has been down without a break
  disturbed,  \* the path has failed, or the user or a kill has ended the session
  failures    \* how often the path has failed

runVars == <<runner, cancelled, errCh>>
hbVars == <<hb, hbTimer, misses>>
readVars == <<reader, hand>>
srvVars == <<main, loop, idle, serverOpen>>
netVars == <<path, toServer, toClient>>
ghosts == <<downFor, disturbed, failures>>
vars == <<runVars, hbVars, readVars, msgCh, serve, clientOpen, recvBuf,
          srvVars, netVars, ghosts>>

Kinds == {"ack", "log"}
(* Cap of downFor: one more than either end may take to notice.            *)
DetectBound == 1 + (IF IdleTimeout > MaxMisses * HeartbeatInterval THEN IdleTimeout
                    ELSE MaxMisses * HeartbeatInterval)

TypeOK ==
  /\ runner \in {"select", "closing", "done"} /\ cancelled \in BOOLEAN
  /\ errCh \in 0 .. 2
  /\ hb \in {"run", "done"} /\ hbTimer \in 0 .. HeartbeatInterval
  /\ misses \in 0 .. MaxMisses
  /\ reader \in {"decode", "send", "done"} /\ hand \in Kinds \cup {"none", "err"}
  /\ msgCh \in Seq(Kinds \cup {"err"}) /\ Len(msgCh) <= MsgBuf
  /\ serve \in {"accept", "done"} /\ clientOpen \in BOOLEAN
  /\ recvBuf \in Seq(Kinds)
  /\ main \in {"select", "closing", "closed"} /\ loop \in {"decode", "ended"}
  /\ idle \in 0 .. IdleTimeout /\ serverOpen \in BOOLEAN
  /\ path \in {"up", "down"}
  /\ toServer \in Seq(0 .. MaxDelay)
  /\ toClient \in Seq([kind : Kinds, age : 0 .. MaxDelay])
  /\ downFor \in 0 .. DetectBound /\ disturbed \in BOOLEAN
  /\ failures \in 0 .. MaxFailures

(* The request that was granted has reset the idle timer; the client starts*)
(* its ticker when the answer arrives.                                     *)
Init ==
  /\ runner = "select" /\ cancelled = FALSE /\ errCh = 0
  /\ hb = "run" /\ hbTimer = 0 /\ misses = 0
  /\ reader = "decode" /\ hand = "none" /\ msgCh = <<>>
  /\ serve = "accept" /\ clientOpen = TRUE /\ recvBuf = <<>>
  /\ main = "select" /\ loop = "decode" /\ idle \in 0 .. MaxDelay /\ serverOpen = TRUE
  /\ path = "up" /\ toServer = <<>> /\ toClient = <<>>
  /\ downFor = 0 /\ disturbed = FALSE /\ failures = 0

---------------------------------------------------------------------------
(* Client: runHeartbeat and its decoding goroutine                         *)

(* Faulty variant: one miss more.                                          *)
GivesUp_Late(n) == n > MaxMisses

GivesUp(n) == n >= MaxMisses

(* runHeartbeat returns, its ticker is stopped and its count is gone; its  *)
(* wrapper sends the result on errCh.                                      *)
HbReturns == hb' = "done" /\ errCh' = errCh + 1 /\ misses' = 0 /\ hbTimer' = 0

(* case <-ticker.C: send a heartbeat and count it as missed until an ack   *)
(* says otherwise; a write on a closed session fails.                      *)
HbTick ==
  /\ hb = "run" /\ hbTimer = HeartbeatInterval
  /\ toServer' = IF clientOpen /\ serverOpen THEN Append(toServer, 0) ELSE toServer
  /\ IF clientOpen /\ ~ GivesUp(misses + 1)
     THEN misses' = misses + 1 /\ hbTimer' = 0 /\ UNCHANGED <<hb, errCh>>
     ELSE HbReturns
  /\ UNCHANGED <<runner, cancelled, readVars, msgCh, serve, clientOpen, recvBuf,
                 srvVars, path, toClient, ghosts>>

MissesAfter(m) == IF m = "ack" THEN 0 ELSE misses

(* case msg := <-msgCh                                                     *)
HbMessage ==
  /\ hb = "run" /\ msgCh # <<>>
  /\ msgCh' = Tail(msgCh)
  /\ IF Head(msgCh) = "err" THEN HbReturns
     ELSE misses' = MissesAfter(Head(msgCh)) /\ UNCHANGED <<hb, hbTimer, errCh>>
  /\ UNCHANGED <<runner, cancelled, readVars, serve, clientOpen, recvBuf,
                 srvVars, netVars, ghosts>>

(* case <-ctx.Done()                                                       *)
HbCancelled ==
  /\ hb = "run" /\ cancelled
  /\ HbReturns
  /\ UNCHANGED <<runner, cancelled, readVars, msgCh, serve, clientOpen, recvBuf,
                 srvVars, netVars, ghosts>>

(* The goroutine decodes what has been received, also after the session is *)
(* closed; then Decode fails.                                              *)
ReaderDecode ==
  /\ reader = "decode" /\ (recvBuf # <<>> \/ ~ clientOpen)
  /\ reader' = "send"
  /\ IF recvBuf # <<>> THEN hand' = Head(recvBuf) /\ recvBuf' = Tail(recvBuf)
     ELSE hand' = "err" /\ UNCHANGED recvBuf
  /\ UNCHANGED <<runVars, hbVars, msgCh, serve, clientOpen, srvVars, netVars, ghosts>>

(* msgCh <- ctrlMsg: blocks while the channel is full.                     *)
ReaderSend ==
  /\ reader = "send" /\ Len(msgCh) < MsgBuf
  /\ msgCh' = Append(msgCh, hand)
  /\ reader' = IF hand = "err" THEN "done" ELSE "decode"
  /\ hand' = "none"
  /\ UNCHANGED <<runVars, hbVars, serve, clientOpen, recvBuf, srvVars, netVars, ghosts>>

(* Faulty variant: errCh is unbuffered.                                    *)
ServeFails_Unbuffered ==
  /\ serve = "accept" /\ ~ clientOpen /\ errCh = 0 /\ runner = "select"
  /\ serve' = "done" /\ errCh' = errCh + 1
  /\ UNCHANGED <<runner, cancelled, hbVars, readVars, msgCh, clientOpen, recvBuf,
                 srvVars, netVars, ghosts>>

(* ServeTunnel: AcceptStream fails once the session is closed.             *)
ServeFails ==
  /\ serve = "accept" /\ ~ clientOpen
  /\ serve' = "done" /\ errCh' = errCh + 1
  /\ UNCHANGED <<runner, cancelled, hbVars, readVars, msgCh, clientOpen, recvBuf,
                 srvVars, netVars, ghosts>>

(* runWithHeartbeat takes the first result or the end of the context; its  *)
(* deferred cancel runs, and Run closes the client.                        *)
RunnerReturns ==
  /\ runner = "select" /\ runner' = "closing" /\ cancelled' = TRUE
  /\ \/ errCh > 0 /\ errCh' = errCh - 1
     \/ cancelled /\ UNCHANGED errCh
  /\ UNCHANGED <<hbVars, readVars, msgCh, serve, clientOpen, recvBuf, srvVars,
                 netVars, ghosts>>

(* Close: the client's end of the session and its connection.              *)
RunnerCloses ==
  /\ runner = "closing" /\ runner' = "done"
  /\ clientOpen' = FALSE /\ toClient' = <<>>
  /\ UNCHANGED <<cancelled, errCh, hbVars, readVars, msgCh, serve, recvBuf,
                 srvVars, path, toServer, ghosts>>

(* The user stops the client: Run's context is cancelled.                  *)
UserStops ==
  /\ runner = "select" /\ ~ cancelled
  /\ cancelled' = TRUE /\ disturbed' = TRUE
  /\ UNCHANGED <<runner, errCh, hbVars, readVars, msgCh, serve, clientOpen, recvBuf,
                 srvVars, netVars, downFor, failures>>

---------------------------------------------------------------------------
(* Server: message loop, select and deferred Close of handleControlSession *)

(* Faulty variant: the idle timer is not reset.                            *)
IdleAfterMessage_NoReset == idle

IdleAfterMessage == 0

(* A heartbeat arrives: the timer is reset and an ack is sent.             *)
ServerReceives ==
  /\ serverOpen /\ loop = "decode" /\ path = "up" /\ toServer # <<>>
  /\ toServer' = Tail(toServer)
  /\ idle' = IdleAfterMessage
  /\ toClient' = IF clientOpen THEN Append(toClient, [kind |-> "ack", age |-> 0])
                 ELSE toClient
  /\ UNCHANGED <<runVars, hbVars, readVars, msgCh, serve, clientOpen, recvBuf,
                 main, loop, serverOpen, path, ghosts>>

(* sendRequestLog, from the goroutine of a proxied request, on the same    *)
(* encoder as the acks.                                                    *)
Logs == Len(SelectSeq(toClient, LAMBDA m : m.kind = "log"))
        + Len(SelectSeq(recvBuf, LAMBDA m : m = "log"))

ServerSendsLog ==
  /\ serverOpen /\ clientOpen /\ Logs < MaxQueued
  /\ toClient' = Append(toClient, [kind |-> "log", age |-> 0])
  /\ UNCHANGED <<runVars, hbVars, readVars, msgCh, serve, clientOpen, recvBuf,
                 srvVars, path, toServer, ghosts>>

LoopFails ==
  /\ loop = "decode" /\ ~ serverOpen
  /\ loop' = "ended"
  /\ UNCHANGED <<runVars, hbVars, readVars, msgCh, serve, clientOpen, recvBuf,
                 main, idle, serverOpen, netVars, ghosts>>

(* The select: the loop has ended or the idle timer fires.                 *)
ServerGivesUp ==
  /\ main = "select" /\ (loop = "ended" \/ idle = IdleTimeout)
  /\ main' = "closing" /\ idle' = 0
  /\ UNCHANGED <<runVars, hbVars, readVars, msgCh, serve, clientOpen, recvBuf,
                 loop, serverOpen, netVars, ghosts>>

ServerCloses ==
  /\ main = "closing" /\ main' = "closed"
  /\ serverOpen' = FALSE /\ toServer' = <<>>
  /\ UNCHANGED <<runVars, hbVars, readVars, msgCh, serve, clientOpen, recvBuf,
                 loop, idle, path, toClient, ghosts>>

(* KillTunnelByID closes the session from outside.                         *)
ServerKills ==
  /\ serverOpen /\ serverOpen' = FALSE /\ toServer' = <<>>
  /\ disturbed' = TRUE
  /\ UNCHANGED <<runVars, hbVars, readVars, msgCh, serve, clientOpen, recvBuf,
                 main, loop, idle, path, toClient, downFor, failures>>

---------------------------------------------------------------------------
(* Network and yamux (external)                                            *)

Deliver ==
  /\ path = "up" /\ clientOpen /\ toClient # <<>>
  /\ recvBuf' = Append(recvBuf, Head(toClient).kind)
  /\ toClient' = Tail(toClient)
  /\ UNCHANGED <<runVars, hbVars, readVars, msgCh, serve, clientOpen, srvVars,
                 path, toServer, ghosts>>

(* The peer's close arrives behind everything it has sent.                 *)
ClientSeesClose ==
  /\ clientOpen /\ clientOpen' = FALSE
  /\ \/ path = "up" /\ ~ serverOpen /\ toClient = <<>>
     \/ path = "down"                       \* keep-alive lost
  /\ toClient' = <<>>
  /\ UNCHANGED <<runVars, hbVars, readVars, msgCh, serve, recvBuf, srvVars, path,
                 toServer, ghosts>>

ServerSeesClose ==
  /\ serverOpen /\ serverOpen' = FALSE
  /\ \/ path = "up" /\ ~ clientOpen /\ toServer = <<>>
     \/ path = "down"                       \* keep-alive lost
  /\ toServer' = <<>>
  /\ UNCHANGED <<runVars, hbVars, readVars, msgCh, serve, clientOpen, recvBuf,
                 main, loop, idle, path, toClient, ghosts>>

PathFails ==
  /\ path = "up" /\ failures < MaxFailures
  /\ path' = "down" /\ disturbed' = TRUE /\ failures' = failures + 1
  /\ UNCHANGED <<runVars, hbVars, readVars, msgCh, serve, clientOpen, recvBuf,
                 srvVars, toServer, toClient, downFor>>

PathRecovers ==
  /\ path = "down" /\ path' = "up" /\ downFor' = 0
  /\ UNCHANGED <<runVars, hbVars, readVars, msgCh, serve, clientOpen, recvBuf,
                 srvVars, toServer, toClient, disturbed, failures>>

---------------------------------------------------------------------------
(* Time                                                                    *)

(* No goroutine can run, no timer is due and no message is overdue.        *)
ClientWaits ==
  /\ hb = "run" => msgCh = <<>> /\ ~ cancelled /\ hbTimer < HeartbeatInterval
  /\ reader = "decode" => recvBuf = <<>> /\ clientOpen
  /\ reader = "send" => Len(msgCh) = MsgBuf
  /\ serve = "accept" => clientOpen
  /\ runner = "select" => errCh = 0 /\ ~ cancelled
  /\ runner # "closing"

ServerWaits ==
  /\ main = "select" => loop # "ended" /\ idle < IdleTimeout
  /\ main # "closing"
  /\ loop = "decode" => serverOpen

NothingOverdue ==
  path = "up" => /\ \A i \in 1 .. Len(toServer) : toServer[i] < MaxDelay
                 /\ \A i \in 1 .. Len(toClient) : toClient[i].age < MaxDelay

UpTo(n, bound) == IF n < bound THEN n + 1 ELSE n
Older(a) == UpTo(a, MaxDelay)

Tick ==
  /\ ClientWaits /\ ServerWaits /\ NothingOverdue
  /\ hbTimer' = IF hb = "run" THEN hbTimer + 1 ELSE hbTimer
  /\ idle' = IF main = "select" THEN idle + 1 ELSE idle
  /\ toServer' = [i \in 1 .. Len(toServer) |-> Older(toServer[i])]
  /\ toClient' = [i \in 1 .. Len(toClient) |->
                    [kind |-> toClient[i].kind, age |-> Older(toClient[i].age)]]
  /\ downFor' = IF path = "down" THEN UpTo(downFor, DetectBound) ELSE downFor
  /\ UNCHANGED <<runVars, hb, misses, readVars, msgCh, serve, clientOpen, recvBuf,
                 main, loop, serverOpen, path, disturbed, failures>>

---------------------------------------------------------------------------
HbStep == HbTick \/ HbMessage \/ HbCancelled
ReaderStep == ReaderDecode \/ ReaderSend
RunnerStep == RunnerReturns \/ RunnerCloses
ServerStep == LoopFails \/ ServerGivesUp \/ ServerCloses
Environment ==
  \/ UserStops \/ ServerKills \/ ServerSendsLog \/ Deliver
  \/ ClientSeesClose \/ ServerSeesClose \/ PathFails \/ PathRecovers

Next == \/ HbStep \/ ReaderStep \/ ServeFails \/ RunnerStep
        \/ ServerStep \/ ServerReceives \/ Environment \/ Tick

Spec == Init /\ [][Next]_vars

(* The scheduler runs every goroutine that can run, a path that stays up   *)
(* delivers, and time passes.  That a close, or the loss of the path, is   *)
(* noticed by yamux is not assumed.                                        *)
FairSpec ==
  /\ Spec
  /\ WF_vars(HbStep) /\ WF_vars(ReaderStep) /\ WF_vars(ServeFails)
  /\ WF_vars(RunnerStep) /\ WF_vars(ServerStep)
  /\ WF_vars(ServerReceives) /\ WF_vars(Deliver)
  /\ SF_vars(Tick)

---------------------------------------------------------------------------
(* A link whose path has always delivered in time is given up by neither   *)
(* end: an ack is back before the count reaches maxHeartbeatMisses, and a  *)
(* heartbeat is there before sessionIdleTimeout runs out, whatever request *)
(* logs share the stream.                                                  *)
HealthyLinkStays == ~ disturbed => hb = "run" /\ main = "select"

(* A path that stays down is noticed by both ends from their own timers,   *)
(* without yamux: by the client after maxHeartbeatMisses intervals, by the *)
(* server after sessionIdleTimeout.                                        *)
DeadPathIsNoticed ==
  /\ hb = "run" => downFor <= MaxMisses * HeartbeatInterval
  /\ main = "select" => downFor <= IdleTimeout

(* Once either end of the session is closed, both ends let go of it: every *)
(* goroutine ends, also when the close never reaches the other end.  The   *)
(* decoding goroutine may stay behind, blocked on a full msgCh that        *)
(* runHeartbeat has stopped reading.                                       *)
ReaderGone == reader = "done" \/ (reader = "send" /\ Len(msgCh) = MsgBuf)

BothEndsLetGo ==
  ~ clientOpen \/ ~ serverOpen ~>
    /\ runner = "done" /\ hb = "done" /\ serve = "done" /\ ReaderGone
    /\ main = "closed" /\ loop = "ended"
=============================================================================
