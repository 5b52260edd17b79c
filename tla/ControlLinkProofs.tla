------------------------- MODULE ControlLinkProofs -------------------------
(***************************************************************************)
(* Proofs about ControlLink, for all intervals, limits and delays: its     *)
(* types, that a dead path is noticed by both ends from their timers, and  *)
(* that a link which delivers in time is kept; and about Reconnector, the  *)
(* loop around it.                                                         *)
(***************************************************************************)
EXTENDS ControlLink, SequenceTheorems, TLAPS

(* The types, one part for each goroutine or place that keeps the state.   *)
(* A goroutine sends on errCh once, when it ends, and nothing else does.   *)
ResultsInv ==
  /\ runner \in {"select", "closing", "done"} /\ cancelled \in BOOLEAN
  /\ hb \in {"run", "done"} /\ serve \in {"accept", "done"}
  /\ errCh \in Nat
  /\ errCh <= (IF hb = "done" THEN 1 ELSE 0) + (IF serve = "done" THEN 1 ELSE 0)

(* While runHeartbeat runs, its count is below the limit.                  *)
HeartbeatInv ==
  /\ hbTimer \in 0 .. HeartbeatInterval
  /\ misses \in 0 .. MaxMisses
  /\ hb = "run" => misses < MaxMisses

ReaderInv ==
  /\ reader \in {"decode", "send", "done"} /\ hand \in Kinds \cup {"none", "err"}
  /\ reader = "send" <=> hand # "none"
  /\ msgCh \in Seq(Kinds \cup {"err"}) /\ Len(msgCh) <= MsgBuf
  /\ recvBuf \in Seq(Kinds)

ServerInv ==
  /\ main \in {"select", "closing", "closed"} /\ loop \in {"decode", "ended"}
  /\ idle \in 0 .. IdleTimeout

NetworkInv ==
  /\ clientOpen \in BOOLEAN /\ serverOpen \in BOOLEAN
  /\ toServer \in Seq(0 .. MaxDelay)
  /\ toClient \in Seq([kind : Kinds, age : 0 .. MaxDelay])

HistoryInv ==
  /\ path \in {"up", "down"}
  /\ downFor \in 0 .. DetectBound /\ disturbed \in BOOLEAN
  /\ failures \in 0 .. MaxFailures

TypeInv == /\ ResultsInv /\ HeartbeatInv /\ ReaderInv
           /\ ServerInv /\ NetworkInv /\ HistoryInv

(* The intervals are natural numbers, and so are products with them.       *)
LEMMA Products ==
  /\ MaxMisses * HeartbeatInterval \in Nat
  /\ DetectBound \in Nat
  /\ MaxMisses * HeartbeatInterval < DetectBound
  /\ IdleTimeout < DetectBound
BY TimesAssumption DEF DetectBound

(* Adding one up to a bound stays within it.                               *)
LEMMA UpToBounded ==
  ASSUME NEW b \in Nat, NEW n \in 0 .. b
  PROVE  UpTo(n, b) \in 0 .. b
BY DEF UpTo

(* What Tick does to the messages on their way keeps their types.          *)
LEMMA OlderMessages ==
  ASSUME NetworkInv
  PROVE  /\ [i \in 1 .. Len(toServer) |-> Older(toServer[i])] \in Seq(0 .. MaxDelay)
         /\ [i \in 1 .. Len(toClient) |->
               [kind |-> toClient[i].kind, age |-> Older(toClient[i].age)]]
              \in Seq([kind : Kinds, age : 0 .. MaxDelay])
<1>1. MaxDelay \in Nat
  BY TimesAssumption
<1>2. \A a \in 0 .. MaxDelay : Older(a) \in 0 .. MaxDelay
  BY <1>1, UpToBounded DEF Older
<1>3. Len(toServer) \in Nat /\ \A i \in 1 .. Len(toServer) : toServer[i] \in 0 .. MaxDelay
  BY LenProperties DEF NetworkInv
<1>4. Len(toClient) \in Nat
      /\ \A i \in 1 .. Len(toClient) : toClient[i] \in [kind : Kinds, age : 0 .. MaxDelay]
  BY LenProperties DEF NetworkInv
<1>5. \A S : \A n \in Nat : [1 .. n -> S] \subseteq Seq(S)
  BY SeqDef, Zenon
<1>6. [i \in 1 .. Len(toServer) |-> Older(toServer[i])]
        \in [1 .. Len(toServer) -> 0 .. MaxDelay]
  BY <1>2, <1>3
<1>7. [i \in 1 .. Len(toClient) |->
         [kind |-> toClient[i].kind, age |-> Older(toClient[i].age)]]
        \in [1 .. Len(toClient) -> [kind : Kinds, age : 0 .. MaxDelay]]
  BY <1>2, <1>4
<1> QED
  BY <1>3, <1>4, <1>5, <1>6, <1>7

LEMMA TypeInvImplies == TypeInv => TypeOK
BY DEF TypeInv, TypeOK, ResultsInv, HeartbeatInv, ReaderInv, ServerInv, NetworkInv,
       HistoryInv

LEMMA TypeInvInit == Init => TypeInv
<1> SUFFICES ASSUME Init PROVE TypeInv
  OBVIOUS
<1>0. cancelled \in BOOLEAN /\ disturbed \in BOOLEAN
  BY Zenon DEF Init
<1>1. ResultsInv
  BY <1>0 DEF Init, ResultsInv
<1>2. HeartbeatInv /\ ServerInv
  BY TimesAssumption, PromptAssumption DEF Init, HeartbeatInv, ServerInv
<1>3. ReaderInv /\ NetworkInv
  BY TimesAssumption DEF Init, ReaderInv, NetworkInv
<1>4. HistoryInv
  BY <1>0, TimesAssumption, Products DEF Init, HistoryInv
<1> QED
  BY <1>1, <1>2, <1>3, <1>4 DEF TypeInv

LEMMA ResultsStep == ResultsInv /\ [Next]_vars => ResultsInv'
<1> SUFFICES ASSUME ResultsInv, [Next]_vars PROVE ResultsInv'
  OBVIOUS
<1>1. CASE HbTick
  BY <1>1 DEF HbTick, HbReturns, ResultsInv
<1>2. CASE HbMessage
  BY <1>2 DEF HbMessage, HbReturns, ResultsInv
<1>3. CASE HbCancelled
  BY <1>3 DEF HbCancelled, HbReturns, ResultsInv
<1>4. CASE ServeFails
  BY <1>4 DEF ServeFails, hbVars, ResultsInv
<1>5. CASE RunnerReturns
  BY <1>5 DEF RunnerReturns, hbVars, ResultsInv
<1>6. CASE RunnerCloses
  BY <1>6 DEF RunnerCloses, hbVars, ResultsInv
<1>7. CASE UserStops
  BY <1>7 DEF UserStops, hbVars, ResultsInv
<1>8. CASE UNCHANGED <<runner, cancelled, errCh, hb, serve>>
  BY <1>8 DEF ResultsInv
<1> QED
  BY <1>1, <1>2, <1>3, <1>4, <1>5, <1>6, <1>7, <1>8
  DEF Next, HbStep, ReaderStep, RunnerStep, ServerStep, Environment, ReaderDecode,
      ReaderSend, LoopFails, ServerGivesUp, ServerCloses, ServerReceives, ServerKills,
      ServerSendsLog, Deliver, ClientSeesClose, ServerSeesClose, PathFails,
      PathRecovers, Tick, vars, runVars, hbVars

LEMMA HeartbeatStep == TypeInv /\ [Next]_vars => HeartbeatInv'
<1> SUFFICES ASSUME HeartbeatInv, ResultsInv, [Next]_vars PROVE HeartbeatInv'
  BY DEF TypeInv
<1> USE TimesAssumption
<1>1. CASE HbTick
  BY <1>1 DEF HbTick, HbReturns, GivesUp, HeartbeatInv
<1>2. CASE HbMessage
  BY <1>2 DEF HbMessage, HbReturns, MissesAfter, HeartbeatInv
<1>3. CASE HbCancelled
  BY <1>3 DEF HbCancelled, HbReturns, HeartbeatInv
<1>4. CASE Tick
  BY <1>4 DEF Tick, ClientWaits, HeartbeatInv
<1>5. CASE UNCHANGED hbVars
  BY <1>5 DEF hbVars, HeartbeatInv
<1> QED
  BY <1>1, <1>2, <1>3, <1>4, <1>5
  DEF Next, HbStep, ReaderStep, RunnerStep, ServerStep, Environment, ReaderDecode,
      ReaderSend, ServeFails, RunnerReturns, RunnerCloses, LoopFails, ServerGivesUp,
      ServerCloses, ServerReceives, UserStops, ServerKills, ServerSendsLog, Deliver,
      ClientSeesClose, ServerSeesClose, PathFails, PathRecovers, vars

LEMMA ReaderInvStep == TypeInv /\ [Next]_vars => ReaderInv'
<1> SUFFICES ASSUME ReaderInv, NetworkInv, [Next]_vars PROVE ReaderInv'
  BY DEF TypeInv
<1>1. CASE HbMessage
  <2>1. Tail(msgCh) \in Seq(Kinds \cup {"err"}) /\ Len(Tail(msgCh)) <= MsgBuf
    BY <1>1, TimesAssumption DEF HbMessage, ReaderInv
  <2> QED
    BY <1>1, <2>1 DEF HbMessage, ReaderInv, readVars
<1>2. CASE ReaderDecode
  <2>1. CASE recvBuf # <<>>
    <3>1. Head(recvBuf) \in Kinds /\ Tail(recvBuf) \in Seq(Kinds)
      BY <2>1 DEF ReaderInv
    <3> QED
      BY <1>2, <2>1, <3>1 DEF ReaderDecode, ReaderInv, Kinds
  <2>2. CASE recvBuf = <<>>
    BY <1>2, <2>2 DEF ReaderDecode, ReaderInv
  <2> QED
    BY <2>1, <2>2
<1>3. CASE ReaderSend
  <2>1. hand \in Kinds \cup {"err"}
    BY <1>3 DEF ReaderSend, ReaderInv
  <2>2. /\ Append(msgCh, hand) \in Seq(Kinds \cup {"err"})
        /\ Len(Append(msgCh, hand)) <= MsgBuf
    BY <1>3, <2>1, TimesAssumption DEF ReaderSend, ReaderInv
  <2> QED
    BY <1>3, <2>2 DEF ReaderSend, ReaderInv
<1>4. CASE Deliver
  <2>1. Head(toClient) \in [kind : Kinds, age : 0 .. MaxDelay]
    BY <1>4, HeadTailProperties DEF Deliver, NetworkInv
  <2>2. Head(toClient).kind \in Kinds
    BY <2>1
  <2>3. Append(recvBuf, Head(toClient).kind) \in Seq(Kinds)
    BY <2>2 DEF ReaderInv
  <2> QED
    BY <1>4, <2>3 DEF Deliver, ReaderInv, readVars
<1>5. CASE UNCHANGED <<reader, hand, msgCh, recvBuf>>
  BY <1>5 DEF ReaderInv
<1> QED
  BY <1>1, <1>2, <1>3, <1>4, <1>5
  DEF Next, HbStep, ReaderStep, RunnerStep, ServerStep, Environment, HbTick,
      HbCancelled, ServeFails, RunnerReturns, RunnerCloses, LoopFails, ServerGivesUp,
      ServerCloses, ServerReceives, UserStops, ServerKills, ServerSendsLog,
      ClientSeesClose, ServerSeesClose, PathFails, PathRecovers, Tick, readVars, vars

LEMMA ServerInvStep == TypeInv /\ [Next]_vars => ServerInv'
<1> SUFFICES ASSUME ServerInv, [Next]_vars PROVE ServerInv'
  BY DEF TypeInv
<1> USE TimesAssumption
<1>1. CASE LoopFails
  BY <1>1 DEF LoopFails, ServerInv
<1>2. CASE ServerGivesUp
  BY <1>2 DEF ServerGivesUp, ServerInv
<1>3. CASE ServerCloses
  BY <1>3 DEF ServerCloses, ServerInv
<1>4. CASE ServerReceives
  BY <1>4 DEF ServerReceives, IdleAfterMessage, ServerInv
<1>5. CASE Tick
  BY <1>5 DEF Tick, ServerWaits, ServerInv
<1>6. CASE UNCHANGED <<main, loop, idle>>
  BY <1>6 DEF ServerInv
<1> QED
  BY <1>1, <1>2, <1>3, <1>4, <1>5, <1>6
  DEF Next, HbStep, ReaderStep, RunnerStep, ServerStep, Environment, HbTick,
      HbMessage, HbCancelled, ReaderDecode, ReaderSend, ServeFails, RunnerReturns,
      RunnerCloses, UserStops, ServerKills, ServerSendsLog, Deliver, ClientSeesClose,
      ServerSeesClose, PathFails, PathRecovers, srvVars, vars

LEMMA NetworkStep == TypeInv /\ [Next]_vars => NetworkInv'
<1> SUFFICES ASSUME NetworkInv, [Next]_vars PROVE NetworkInv'
  BY DEF TypeInv
<1> DEFINE Ages == 0 .. MaxDelay
           Messages == [kind : Kinds, age : 0 .. MaxDelay]
<1>1. 0 \in Ages /\ \A k \in Kinds : [kind |-> k, age |-> 0] \in Messages
  BY TimesAssumption
<1>2. Append(toServer, 0) \in Seq(Ages)
  BY <1>1 DEF NetworkInv
<1>3. \A k \in Kinds : Append(toClient, [kind |-> k, age |-> 0]) \in Seq(Messages)
  BY <1>1, AppendProperties DEF NetworkInv
<1>4. toServer # <<>> => Tail(toServer) \in Seq(Ages)
  BY DEF NetworkInv
<1>5. toClient # <<>> => Tail(toClient) \in Seq(Messages)
  BY HeadTailProperties DEF NetworkInv
<1>6. <<>> \in Seq(Ages) /\ <<>> \in Seq(Messages)
  OBVIOUS
<1>7. CASE HbTick
  BY <1>2, <1>7 DEF HbTick, NetworkInv, srvVars
<1>8. CASE ServerReceives
  BY <1>3, <1>4, <1>8 DEF ServerReceives, NetworkInv, Kinds
<1>9. CASE ServerSendsLog
  BY <1>3, <1>9 DEF ServerSendsLog, NetworkInv, Kinds, srvVars
<1>10. CASE Deliver
  BY <1>5, <1>10 DEF Deliver, NetworkInv, srvVars
<1>11. CASE RunnerCloses \/ ServerCloses \/ ServerKills \/ ClientSeesClose \/ ServerSeesClose
  <2>1. clientOpen' \in BOOLEAN /\ serverOpen' \in BOOLEAN
    BY <1>11, Zenon DEF RunnerCloses, ServerCloses, ServerKills, ClientSeesClose,
                        ServerSeesClose, NetworkInv, srvVars
  <2>2. toServer' \in Seq(Ages) /\ toClient' \in Seq(Messages)
    BY <1>6, <1>11, Zenon DEF RunnerCloses, ServerCloses, ServerKills, ClientSeesClose,
                              ServerSeesClose, NetworkInv
  <2> QED
    BY <2>1, <2>2 DEF NetworkInv
<1>12. CASE Tick
  BY <1>12, OlderMessages DEF Tick, NetworkInv
<1>13. CASE UNCHANGED <<clientOpen, serverOpen, toServer, toClient>>
  BY <1>13 DEF NetworkInv
<1> HIDE DEF Ages, Messages
<1> QED
  BY <1>7, <1>8, <1>9, <1>10, <1>11, <1>12, <1>13
  DEF Next, HbStep, ReaderStep, RunnerStep, ServerStep, Environment, HbMessage,
      HbCancelled, ReaderDecode, ReaderSend, ServeFails, RunnerReturns, LoopFails,
      ServerGivesUp, UserStops, PathFails, PathRecovers, netVars, srvVars, vars

LEMMA HistoryStep == TypeInv /\ [Next]_vars => HistoryInv'
<1> SUFFICES ASSUME HistoryInv, [Next]_vars PROVE HistoryInv'
  BY DEF TypeInv
<1>1. MaxFailures \in Nat /\ DetectBound \in Nat
  BY TimesAssumption, Products
<1>2. CASE UserStops \/ ServerKills
  <2>1. disturbed' \in BOOLEAN
    BY <1>2, Zenon DEF UserStops, ServerKills
  <2> QED
    BY <1>2, <2>1 DEF UserStops, ServerKills, HistoryInv, netVars
<1>3. CASE PathFails
  <2>1. disturbed' \in BOOLEAN
    BY <1>3, Zenon DEF PathFails
  <2> QED
    BY <1>1, <1>3, <2>1 DEF PathFails, HistoryInv
<1>4. CASE PathRecovers
  BY <1>1, <1>4 DEF PathRecovers, HistoryInv
<1>5. CASE Tick
  BY <1>1, <1>5, UpToBounded DEF Tick, HistoryInv
<1>6. CASE UNCHANGED <<path, ghosts>>
  BY <1>6 DEF HistoryInv, ghosts
<1> QED
  BY <1>2, <1>3, <1>4, <1>5, <1>6
  DEF Next, HbStep, ReaderStep, RunnerStep, ServerStep, Environment, HbTick,
      HbMessage, HbCancelled, ReaderDecode, ReaderSend, ServeFails, RunnerReturns,
      RunnerCloses, LoopFails, ServerGivesUp, ServerCloses, ServerReceives,
      ServerSendsLog, Deliver, ClientSeesClose, ServerSeesClose, netVars, vars

LEMMA TypeInvStep == TypeInv /\ [Next]_vars => TypeInv'
<1>1. TypeInv /\ [Next]_vars => ResultsInv'
  BY ResultsStep DEF TypeInv
<1> QED
  BY <1>1, HeartbeatStep, ReaderInvStep, ServerInvStep, NetworkStep, HistoryStep
  DEF TypeInv

(* The link keeps its types for all intervals: errCh never holds more than *)
(* its two results, msgCh never more than its capacity, and the timers and *)
(* the miss count stay within their limits.                                *)
THEOREM LinkTypes == Spec => []TypeOK
  BY TypeInvInit, TypeInvStep, TypeInvImplies, PTL DEF Spec

---------------------------------------------------------------------------
(* A dead path is noticed.  While the path is down nothing new arrives,    *)
(* and time has only passed once everything that had arrived was read: no  *)
(* ack is left to reset the count, so the count and the ticker measure how *)
(* long the path has been down.  The idle timer does so directly.          *)

(* The history of the path: the time counted is that of a path now down.   *)
DownInv == downFor > 0 => path = "down"

(* Nothing between the network and runHeartbeat is an ack.                 *)
NoAckLeft == /\ recvBuf = <<>> /\ hand \in {"none", "err"}
             /\ \A i \in 1 .. Len(msgCh) : msgCh[i] = "err"

(* The client's timers cover the outage.                                   *)
ClientCounts ==
  downFor > 0 /\ hb = "run" =>
    NoAckLeft /\ downFor <= misses * HeartbeatInterval + hbTimer

(* The server's idle timer covers the outage.                              *)
ServerCounts == downFor > 0 /\ main = "select" => downFor <= idle

(* The decoding goroutine fails only when nothing is left to decode.       *)
DecodeInv == reader = "done" \/ hand = "err" => ~ clientOpen /\ recvBuf = <<>>

OutageInv == TypeInv /\ DownInv /\ DecodeInv /\ ClientCounts /\ ServerCounts

LEMMA DownStep == TypeInv /\ DownInv /\ [Next]_vars => DownInv'
<1> SUFFICES ASSUME HistoryInv, DownInv, [Next]_vars PROVE DownInv'
  BY DEF TypeInv
<1>1. CASE PathFails
  BY <1>1 DEF PathFails, DownInv
<1>2. CASE PathRecovers
  BY <1>2 DEF PathRecovers, DownInv
<1>3. CASE Tick
  BY <1>3 DEF Tick, DownInv
<1>4. CASE UNCHANGED <<path, downFor>>
  BY <1>4 DEF DownInv
<1> QED
  BY <1>1, <1>2, <1>3, <1>4
  DEF Next, HbStep, ReaderStep, RunnerStep, ServerStep, Environment, HbTick,
      HbMessage, HbCancelled, ReaderDecode, ReaderSend, ServeFails, RunnerReturns,
      RunnerCloses, LoopFails, ServerGivesUp, ServerCloses, ServerReceives, UserStops,
      ServerKills, ServerSendsLog, Deliver, ClientSeesClose, ServerSeesClose, netVars,
      ghosts, vars

LEMMA ServerCountsStep == OutageInv /\ [Next]_vars => ServerCounts'
<1> SUFFICES ASSUME ServerInv, HistoryInv, DownInv, ServerCounts, [Next]_vars
             PROVE  ServerCounts'
  BY DEF OutageInv, TypeInv
<1> USE TimesAssumption, Products
<1>1. CASE ServerGivesUp
  BY <1>1 DEF ServerGivesUp, ServerCounts
<1>2. CASE ServerCloses
  BY <1>2 DEF ServerCloses, ServerCounts
<1>3. CASE ServerReceives
  BY <1>3 DEF ServerReceives, DownInv, HistoryInv, ServerCounts, ghosts
<1>4. CASE PathRecovers
  BY <1>4 DEF PathRecovers, ServerCounts
<1>5. CASE Tick
  BY <1>5 DEF Tick, UpTo, ServerInv, HistoryInv, ServerCounts
<1>6. CASE UNCHANGED <<main, idle, downFor>>
  BY <1>6 DEF ServerCounts
<1> QED
  BY <1>1, <1>2, <1>3, <1>4, <1>5, <1>6
  DEF Next, HbStep, ReaderStep, RunnerStep, ServerStep, Environment, HbTick,
      HbMessage, HbCancelled, ReaderDecode, ReaderSend, ServeFails, RunnerReturns,
      RunnerCloses, LoopFails, UserStops, ServerKills, ServerSendsLog, Deliver,
      ClientSeesClose, ServerSeesClose, PathFails, srvVars, ghosts, vars

LEMMA DecodeStep == OutageInv /\ [Next]_vars => DecodeInv'
<1> SUFFICES ASSUME ReaderInv, DecodeInv, [Next]_vars PROVE DecodeInv'
  BY DEF OutageInv, TypeInv
<1>1. CASE ReaderDecode
  <2>1. recvBuf # <<>> => Head(recvBuf) \in Kinds
    BY DEF ReaderInv
  <2> QED
    BY <1>1, <2>1 DEF ReaderDecode, DecodeInv, Kinds
<1>2. CASE ReaderSend
  BY <1>2 DEF ReaderSend, DecodeInv
<1>3. CASE Deliver
  BY <1>3 DEF Deliver, DecodeInv, readVars
<1>4. CASE RunnerCloses \/ ClientSeesClose
  BY <1>4 DEF RunnerCloses, ClientSeesClose, DecodeInv, readVars
<1>5. CASE UNCHANGED <<reader, hand, clientOpen, recvBuf>>
  BY <1>5 DEF DecodeInv
<1> QED
  BY <1>1, <1>2, <1>3, <1>4, <1>5
  DEF Next, HbStep, ReaderStep, RunnerStep, ServerStep, Environment, HbTick,
      HbMessage, HbCancelled, ServeFails, RunnerReturns, LoopFails, ServerGivesUp,
      ServerCloses, ServerReceives, UserStops, ServerKills, ServerSendsLog,
      ServerSeesClose, PathFails, PathRecovers, Tick, readVars, vars

(* One more miss stands for one more interval.                             *)
LEMMA OneMoreInterval ==
  ASSUME NEW n \in Nat
  PROVE  /\ n * HeartbeatInterval \in Nat
         /\ (n + 1) * HeartbeatInterval = n * HeartbeatInterval + HeartbeatInterval
BY TimesAssumption

(* Any count below the limit stands for less time than the limit.          *)
LEMMA FewerIntervals ==
  ASSUME NEW n \in Nat, n < MaxMisses
  PROVE  n * HeartbeatInterval + HeartbeatInterval <= MaxMisses * HeartbeatInterval
<1>1. PICK k \in Nat : MaxMisses = n + 1 + k
  <2>1. MaxMisses - n - 1 \in Nat /\ MaxMisses = n + 1 + (MaxMisses - n - 1)
    BY TimesAssumption
  <2> QED
    BY <2>1
<1>2. k * HeartbeatInterval \in Nat
  BY TimesAssumption
<1>3. (n + 1 + k) * HeartbeatInterval
        = n * HeartbeatInterval + HeartbeatInterval + k * HeartbeatInterval
  BY TimesAssumption
<1> QED
  BY <1>1, <1>2, <1>3, OneMoreInterval, TimesAssumption

LEMMA ClientCountsStep == OutageInv /\ [Next]_vars => ClientCounts'
<1> SUFFICES ASSUME OutageInv, [Next]_vars, downFor' > 0, hb' = "run"
             PROVE  NoAckLeft' /\ downFor' <= misses' * HeartbeatInterval' + hbTimer'
  BY DEF ClientCounts
<1>1. CASE HbTick
  <2>1. /\ downFor' = downFor /\ hb = "run" /\ hbTimer = HeartbeatInterval
        /\ misses' = misses + 1 /\ hbTimer' = 0
        /\ UNCHANGED <<recvBuf, hand, msgCh>>
    BY <1>1 DEF HbTick, HbReturns, readVars, ghosts
  <2>2. NoAckLeft /\ downFor <= misses * HeartbeatInterval + HeartbeatInterval
    BY <2>1 DEF OutageInv, ClientCounts
  <2>3. (misses + 1) * HeartbeatInterval = misses * HeartbeatInterval + HeartbeatInterval
        /\ misses * HeartbeatInterval \in Nat
    BY OneMoreInterval DEF OutageInv, TypeInv, HeartbeatInv
  <2> QED
    BY <2>1, <2>2, <2>3, TimesAssumption DEF NoAckLeft
<1>2. CASE HbMessage
  <2>1. downFor > 0 /\ hb = "run" /\ msgCh # <<>> /\ Head(msgCh) # "err"
    BY <1>2 DEF HbMessage, HbReturns, ghosts
  <2>2. \A i \in 1 .. Len(msgCh) : msgCh[i] = "err"
    BY <2>1 DEF OutageInv, ClientCounts, NoAckLeft
  <2> QED
    BY <2>1, <2>2 DEF OutageInv, TypeInv, ReaderInv
<1>3. CASE HbCancelled
  BY <1>3 DEF HbCancelled, HbReturns
<1>4. CASE ReaderDecode
  <2>1. downFor > 0 /\ hb = "run" /\ downFor' = downFor /\ UNCHANGED <<msgCh, misses, hbTimer>>
    BY <1>4 DEF ReaderDecode, hbVars, ghosts
  <2>2. NoAckLeft /\ downFor <= misses * HeartbeatInterval + hbTimer
    BY <2>1 DEF OutageInv, ClientCounts
  <2>3. hand' = "err" /\ recvBuf' = <<>>
    BY <1>4, <2>2 DEF ReaderDecode, NoAckLeft
  <2> QED
    BY <2>1, <2>2, <2>3 DEF NoAckLeft
<1>5. CASE ReaderSend
  <2>1. downFor > 0 /\ hb = "run" /\ downFor' = downFor
        /\ UNCHANGED <<recvBuf, misses, hbTimer>>
    BY <1>5 DEF ReaderSend, hbVars, ghosts
  <2>2. NoAckLeft /\ downFor <= misses * HeartbeatInterval + hbTimer
    BY <2>1 DEF OutageInv, ClientCounts
  <2>3. hand = "err" /\ hand' = "none" /\ msgCh' = Append(msgCh, "err")
    BY <1>5, <2>2 DEF ReaderSend, NoAckLeft, OutageInv, TypeInv, ReaderInv
  <2>4. \A i \in 1 .. Len(msgCh') : msgCh'[i] = "err"
    BY <2>2, <2>3 DEF NoAckLeft, OutageInv, TypeInv, ReaderInv
  <2> QED
    BY <2>1, <2>2, <2>3, <2>4 DEF NoAckLeft
<1>6. CASE Deliver
  BY <1>6 DEF Deliver, OutageInv, DownInv, ghosts
<1>7. CASE PathRecovers
  BY <1>7 DEF PathRecovers
<1>8. CASE Tick
  <2>1. /\ hb = "run" /\ msgCh = <<>> /\ hbTimer' = hbTimer + 1
        /\ UNCHANGED <<recvBuf, hand, msgCh, misses>>
    BY <1>8 DEF Tick, ClientWaits, readVars
  <2>2. reader # "send"
    BY <1>8, <2>1, TimesAssumption DEF Tick, ClientWaits
  <2>3. recvBuf = <<>> /\ hand = "none"
    BY <1>8, <2>2 DEF Tick, ClientWaits, OutageInv, DecodeInv, TypeInv, ReaderInv
  <2>4. NoAckLeft'
    BY <2>1, <2>3 DEF NoAckLeft
  <2>5. /\ downFor \in Nat /\ hbTimer \in Nat
        /\ misses * HeartbeatInterval \in Nat
    BY OneMoreInterval, Products, TimesAssumption
    DEF OutageInv, TypeInv, HistoryInv, HeartbeatInv
  <2>6. downFor <= misses * HeartbeatInterval + hbTimer
    BY <2>1, <2>5 DEF OutageInv, ClientCounts
  <2>7. downFor' <= downFor + 1
    BY <1>8, <2>5 DEF Tick, UpTo
  <2>8. downFor' \in Nat
    BY <1>8, <2>5 DEF Tick, UpTo
  <2> QED
    BY <2>1, <2>4, <2>5, <2>6, <2>7, <2>8
<1>9. CASE UNCHANGED <<downFor, hb, hbTimer, misses, recvBuf, hand, msgCh>>
  BY <1>9 DEF OutageInv, ClientCounts, NoAckLeft
<1> QED
  BY <1>1, <1>2, <1>3, <1>4, <1>5, <1>6, <1>7, <1>8, <1>9
  DEF Next, HbStep, ReaderStep, RunnerStep, ServerStep, Environment, ServeFails,
      RunnerReturns, RunnerCloses, LoopFails, ServerGivesUp, ServerCloses,
      ServerReceives, UserStops, ServerKills, ServerSendsLog, ClientSeesClose,
      ServerSeesClose, PathFails, hbVars, readVars, ghosts, vars

LEMMA OutageInit == Init => OutageInv
<1> SUFFICES ASSUME Init PROVE OutageInv
  OBVIOUS
<1>1. downFor = 0 /\ reader = "decode" /\ hand = "none"
  BY DEF Init
<1> QED
  BY <1>1, TypeInvInit DEF OutageInv, DownInv, DecodeInv, ClientCounts, ServerCounts

LEMMA OutageImplies == OutageInv => DeadPathIsNoticed
<1> SUFFICES ASSUME OutageInv PROVE DeadPathIsNoticed
  OBVIOUS
<1>1. /\ downFor \in Nat /\ hbTimer \in 0 .. HeartbeatInterval
      /\ misses \in Nat /\ idle \in 0 .. IdleTimeout
      /\ hb = "run" => misses < MaxMisses
  BY Products, TimesAssumption
  DEF OutageInv, TypeInv, HeartbeatInv, HistoryInv, ServerInv
<1>2. ASSUME hb = "run" PROVE downFor <= MaxMisses * HeartbeatInterval
  <2>1. misses * HeartbeatInterval + HeartbeatInterval <= MaxMisses * HeartbeatInterval
    BY <1>1, <1>2, FewerIntervals
  <2>2. misses * HeartbeatInterval \in Nat /\ MaxMisses * HeartbeatInterval \in Nat
    BY <1>1, OneMoreInterval, Products
  <2>3. CASE downFor > 0
    <3>1. downFor <= misses * HeartbeatInterval + hbTimer
      BY <1>2, <2>3 DEF OutageInv, ClientCounts
    <3> QED
      BY <1>1, <2>1, <2>2, <3>1, TimesAssumption
  <2>4. CASE downFor = 0
    BY <2>2, <2>4
  <2> QED
    BY <1>1, <2>3, <2>4
<1>3. ASSUME main = "select" PROVE downFor <= IdleTimeout
  BY <1>1, <1>3, TimesAssumption DEF OutageInv, ServerCounts
<1> QED
  BY <1>2, <1>3 DEF DeadPathIsNoticed

LEMMA OutageStep == OutageInv /\ [Next]_vars => OutageInv'
<1>1. OutageInv /\ [Next]_vars => TypeInv' /\ DownInv'
  BY TypeInvStep, DownStep DEF OutageInv
<1> QED
  BY <1>1, DecodeStep, ServerCountsStep, ClientCountsStep DEF OutageInv

(* However the intervals, the limits and the delivery times are chosen,    *)
(* a path that stays down is noticed by runHeartbeat within                *)
(* maxHeartbeatMisses intervals and by handleControlSession within         *)
(* sessionIdleTimeout, without help from yamux's keep-alives.              *)
THEOREM OutagesAreNoticed == Spec => []DeadPathIsNoticed
  BY OutageInit, OutageStep, OutageImplies, PTL DEF Spec

---------------------------------------------------------------------------
(* A healthy link stays.  While nothing has disturbed it, no goroutine has *)
(* ended; the idle timer is behind the heartbeat that is on its way or the *)
(* ticker that will send the next one; and the answer to the oldest        *)
(* heartbeat that was counted as missed is on its way, at most as late as  *)
(* two deliveries take.                                                    *)

NothingEnded ==
  /\ hb = "run" /\ main = "select" /\ runner = "select" /\ serve = "accept"
  /\ errCh = 0 /\ ~ cancelled /\ clientOpen /\ serverOpen /\ loop = "decode"
  /\ path = "up" /\ reader # "done" /\ hand # "err"
  /\ \A i \in 1 .. Len(msgCh) : msgCh[i] # "err"

HeartbeatDue ==
  IF toServer = <<>> THEN idle <= hbTimer + MaxDelay
  ELSE idle <= HeartbeatInterval + toServer[1] + MaxDelay

(* The time since the oldest heartbeat that is counted as missed.          *)
Waited == (misses - 1) * HeartbeatInterval + hbTimer

Has(s, x) == \E i \in 1 .. Len(s) : s[i] = x
AckReceived == Has(msgCh, "ack") \/ hand = "ack" \/ Has(recvBuf, "ack")
AckSent(t) == \E i \in 1 .. Len(toClient) :
                toClient[i].kind = "ack" /\ t <= MaxDelay + toClient[i].age
HeartbeatSent(t) == \E i \in 1 .. Len(toServer) : t <= toServer[i]
AnswerComes(t) == (AckReceived /\ t <= 2 * MaxDelay) \/ AckSent(t) \/ HeartbeatSent(t)

Healthy == NothingEnded /\ HeartbeatDue /\ (misses > 0 => AnswerComes(Waited))
HealthInv == ~ disturbed => Healthy

LEMMA AppendedParts ==
  ASSUME NEW S, NEW s \in Seq(S), NEW x \in S
  PROVE  /\ Append(s, x) \in Seq(S) /\ Len(Append(s, x)) = Len(s) + 1 /\ Len(s) \in Nat
         /\ Append(s, x)[Len(s) + 1] = x
         /\ \A i \in 1 .. Len(s) : Append(s, x)[i] = s[i]
BY AppendProperties, LenProperties

LEMMA TailParts ==
  ASSUME NEW S, NEW s \in Seq(S), s # <<>>
  PROVE  /\ Tail(s) \in Seq(S) /\ Len(Tail(s)) = Len(s) - 1 /\ Len(s) \in Nat \ {0}
         /\ Head(s) = s[1] /\ \A i \in 1 .. Len(s) - 1 : Tail(s)[i] = s[i + 1]
BY HeadTailProperties, LenProperties, EmptySeq

LEMMA HasAppended ==
  ASSUME NEW S, NEW s \in Seq(S), NEW x \in S
  PROVE  Has(Append(s, x), x) /\ \A y : Has(s, y) => Has(Append(s, x), y)
<1> DEFINE q == Append(s, x)
<1>1. /\ Len(q) = Len(s) + 1 /\ Len(s) \in Nat /\ q[Len(s) + 1] = x
      /\ \A i \in 1 .. Len(s) : q[i] = s[i]
  BY AppendedParts
<1> HIDE DEF q
<1>2. Len(s) + 1 \in 1 .. Len(q) /\ \A i \in 1 .. Len(s) : i \in 1 .. Len(q)
  BY <1>1
<1>3. Has(q, x) /\ \A y : Has(s, y) => Has(q, y)
  BY <1>1, <1>2 DEF Has
<1> QED BY <1>3 DEF q

LEMMA HasTail ==
  ASSUME NEW S, NEW s \in Seq(S), s # <<>>, NEW y, Has(s, y), Head(s) # y
  PROVE  Has(Tail(s), y)
<1> DEFINE q == Tail(s)
<1>1. /\ Len(q) = Len(s) - 1 /\ Len(s) \in Nat \ {0} /\ Head(s) = s[1]
      /\ \A i \in 1 .. Len(s) - 1 : q[i] = s[i + 1]
  BY TailParts
<1> HIDE DEF q
<1>2. PICK i \in 1 .. Len(s) : s[i] = y
  BY DEF Has
<1>3. i # 1
  BY <1>1, <1>2
<1>4. i - 1 \in 1 .. Len(s) - 1 /\ (i - 1) + 1 = i
  BY <1>1, <1>3
<1>5. q[i - 1] = y /\ i - 1 \in 1 .. Len(q)
  BY <1>1, <1>2, <1>4
<1>6. Has(q, y)
  BY <1>5 DEF Has
<1> QED BY <1>6 DEF q

(* What is on its way has an age within the delivery time.                 *)
LEMMA MessageAges ==
  ASSUME NetworkInv
  PROVE  /\ Len(toServer) \in Nat /\ Len(toClient) \in Nat
         /\ \A i \in 1 .. Len(toServer) : toServer[i] \in 0 .. MaxDelay
         /\ \A i \in 1 .. Len(toClient) : toClient[i].age \in 0 .. MaxDelay
<1>1. Len(toServer) \in Nat /\ \A i \in 1 .. Len(toServer) : toServer[i] \in 0 .. MaxDelay
  BY LenProperties DEF NetworkInv
<1>2. Len(toClient) \in Nat
      /\ \A i \in 1 .. Len(toClient) : toClient[i] \in [kind : Kinds, age : 0 .. MaxDelay]
  BY LenProperties DEF NetworkInv
<1> QED BY <1>1, <1>2

(* The bound that PromptAssumption gives for the count: an answer that is  *)
(* on its way comes before the last allowed miss.                          *)
LEMMA AnswerInTime ==
  ASSUME TypeInv, misses > 0, AnswerComes(Waited)
  PROVE  Waited <= 2 * MaxDelay
<1>0. /\ \A i \in 1 .. Len(toServer) : toServer[i] \in 0 .. MaxDelay
      /\ \A i \in 1 .. Len(toClient) : toClient[i].age \in 0 .. MaxDelay
  BY MessageAges DEF TypeInv
<1>1. MaxDelay \in Nat /\ HeartbeatInterval \in Nat \ {0} /\ misses \in Nat \ {0}
      /\ hbTimer \in Nat
  BY TimesAssumption DEF TypeInv, HeartbeatInv
<1>2. misses - 1 \in Nat
  BY <1>1
<1>3. (misses - 1) * HeartbeatInterval \in Nat
  BY <1>2, OneMoreInterval
<1> DEFINE t == Waited
<1>4. t \in Nat
  BY <1>1, <1>3 DEF Waited
<1> HIDE DEF t
<1>5. ASSUME NEW i \in 1 .. Len(toClient), t <= MaxDelay + toClient[i].age
      PROVE  t <= 2 * MaxDelay
  <2>1. toClient[i].age \in 0 .. MaxDelay
    BY <1>0
  <2> QED BY <1>1, <1>4, <1>5, <2>1
<1>6. ASSUME NEW i \in 1 .. Len(toServer), t <= toServer[i]
      PROVE  t <= 2 * MaxDelay
  <2>1. toServer[i] \in 0 .. MaxDelay
    BY <1>0
  <2> QED BY <1>1, <1>4, <1>6, <2>1
<1>7. AnswerComes(t)
  BY DEF t
<1>8. t <= 2 * MaxDelay
  BY <1>5, <1>6, <1>7 DEF AnswerComes, AckSent, HeartbeatSent
<1> QED BY <1>8 DEF t

(* The ticker fires: the count stays below the limit.                      *)
LEMMA CountStaysLow ==
  ASSUME TypeInv, misses > 0 => Waited <= 2 * MaxDelay, hbTimer = HeartbeatInterval
  PROVE  misses + 1 < MaxMisses
<1>1. MaxDelay \in Nat /\ HeartbeatInterval \in Nat \ {0} /\ misses \in Nat
      /\ MaxMisses \in Nat \ {0}
  BY TimesAssumption DEF TypeInv, HeartbeatInv
<1>2. SUFFICES ASSUME misses >= MaxMisses - 1 PROVE FALSE
  BY <1>1
<1>3. misses * HeartbeatInterval <= 2 * MaxDelay
  <2>1. CASE misses > 0
    <3>1. misses - 1 \in Nat
      BY <1>1, <2>1
    <3>2. ((misses - 1) + 1) * HeartbeatInterval
            = (misses - 1) * HeartbeatInterval + HeartbeatInterval
      BY <3>1, OneMoreInterval
    <3>3. (misses - 1) + 1 = misses
      BY <1>1
    <3> QED BY <2>1, <3>2, <3>3 DEF Waited
  <2>2. CASE misses = 0
    <3>1. 0 * HeartbeatInterval = 0
      BY <1>1
    <3> QED BY <1>1, <2>2, <3>1
  <2> QED BY <1>1, <2>1, <2>2
<1>4. PICK k \in Nat : misses = (MaxMisses - 1) + k
  <2>1. misses - (MaxMisses - 1) \in Nat
        /\ misses = (MaxMisses - 1) + (misses - (MaxMisses - 1))
    BY <1>1, <1>2
  <2> QED BY <2>1
<1>5. misses * HeartbeatInterval = (MaxMisses - 1) * HeartbeatInterval + k * HeartbeatInterval
  <2>1. ((MaxMisses - 1) + k) * HeartbeatInterval
          = (MaxMisses - 1) * HeartbeatInterval + k * HeartbeatInterval
    BY <1>1
  <2> QED BY <1>4, <2>1
<1>6. k * HeartbeatInterval \in Nat /\ (MaxMisses - 1) * HeartbeatInterval \in Nat
      /\ misses * HeartbeatInterval \in Nat
  <2>1. MaxMisses - 1 \in Nat
    BY <1>1
  <2> QED BY <1>1, <1>4, <2>1, OneMoreInterval
<1> QED BY <1>1, <1>3, <1>5, <1>6, PromptAssumption

LEMMA HealthInit == Init => HealthInv
<1> SUFFICES ASSUME Init PROVE Healthy
  BY DEF HealthInv
<1>1. Len(msgCh) = 0 /\ misses = 0 /\ toServer = <<>> /\ hbTimer = 0
      /\ idle \in 0 .. MaxDelay
  BY DEF Init
<1>2. NothingEnded
  BY <1>1 DEF Init, NothingEnded
<1>3. HeartbeatDue
  BY <1>1, TimesAssumption DEF HeartbeatDue
<1> QED BY <1>1, <1>2, <1>3 DEF Healthy

(* The answer comes nearer, one hop at a time.                             *)
LEMMA AnswerPastReceive ==
  ASSUME NEW t \in Nat, TypeInv, NothingEnded, AnswerComes(t), ServerReceives
  PROVE  AnswerComes(t)'
<1> DEFINE m == [kind |-> "ack", age |-> 0]
           S == [kind : Kinds, age : 0 .. MaxDelay]
           A == 0 .. MaxDelay
           sent == Append(toClient, m)
           rest == Tail(toServer)
<1>1. MaxDelay \in Nat
  BY TimesAssumption
<1>2. m \in S /\ m.kind = "ack" /\ m.age = 0
  BY <1>1 DEF Kinds
<1>3. /\ toServer # <<>> /\ toServer \in Seq(A) /\ toClient \in Seq(S)
      /\ toServer' = rest /\ toClient' = sent
      /\ UNCHANGED <<msgCh, hand, recvBuf>>
  BY DEF ServerReceives, NothingEnded, TypeInv, NetworkInv, readVars
<1>4. \A i \in 1 .. Len(toServer) : toServer[i] \in 0 .. MaxDelay
  BY MessageAges DEF TypeInv
<1> HIDE DEF m, S, A
<1>5. /\ Len(sent) = Len(toClient) + 1 /\ Len(toClient) \in Nat
      /\ sent[Len(toClient) + 1] = m /\ \A i \in 1 .. Len(toClient) : sent[i] = toClient[i]
  BY <1>2, <1>3, AppendedParts
<1>6. /\ Len(rest) = Len(toServer) - 1 /\ Len(toServer) \in Nat \ {0}
      /\ \A i \in 1 .. Len(toServer) - 1 : rest[i] = toServer[i + 1]
  BY <1>3, TailParts
<1> HIDE DEF sent, rest
<1>7. CASE AckReceived /\ t <= 2 * MaxDelay
  BY <1>3, <1>7 DEF AnswerComes, AckReceived
<1>8. CASE AckSent(t)
  <2>1. PICK i \in 1 .. Len(toClient) :
          toClient[i].kind = "ack" /\ t <= MaxDelay + toClient[i].age
    BY <1>8 DEF AckSent
  <2>2. i \in 1 .. Len(sent) /\ sent[i] = toClient[i]
    BY <1>5
  <2>3. AckSent(t)'
    BY <1>3, <2>1, <2>2 DEF AckSent
  <2> QED BY <2>3 DEF AnswerComes
<1>9. CASE HeartbeatSent(t)
  <2>1. PICK i \in 1 .. Len(toServer) : t <= toServer[i]
    BY <1>9 DEF HeartbeatSent
  <2>2. CASE i = 1
    <3>1. t <= MaxDelay + 0
      BY <1>1, <1>4, <2>1
    <3>2. Len(toClient) + 1 \in 1 .. Len(sent)
      BY <1>5
    <3>3. AckSent(t)'
      BY <1>2, <1>3, <1>5, <3>1, <3>2 DEF AckSent
    <3> QED BY <3>3 DEF AnswerComes
  <2>3. CASE i # 1
    <3>1. i - 1 \in 1 .. Len(toServer) - 1 /\ (i - 1) + 1 = i
      BY <1>6, <2>3
    <3>2. i - 1 \in 1 .. Len(rest) /\ t <= rest[i - 1]
      BY <1>6, <2>1, <3>1
    <3>3. HeartbeatSent(t)'
      BY <1>3, <3>2 DEF HeartbeatSent
    <3> QED BY <3>3 DEF AnswerComes
  <2> QED BY <2>2, <2>3
<1> QED BY <1>7, <1>8, <1>9 DEF AnswerComes

LEMMA AnswerPastDelivery ==
  ASSUME NEW t \in Nat, TypeInv, AnswerComes(t), Deliver
  PROVE  AnswerComes(t)'
<1> DEFINE S == [kind : Kinds, age : 0 .. MaxDelay]
           k == Head(toClient).kind
           got == Append(recvBuf, k)
           rest == Tail(toClient)
<1>1. MaxDelay \in Nat
  BY TimesAssumption
<1>2. /\ toClient # <<>> /\ toClient \in Seq(S) /\ recvBuf \in Seq(Kinds)
      /\ toClient' = rest /\ recvBuf' = got
      /\ UNCHANGED <<msgCh, hand, toServer>>
  BY DEF Deliver, TypeInv, NetworkInv, ReaderInv, readVars
<1>3. \A i \in 1 .. Len(toClient) : toClient[i].age \in 0 .. MaxDelay
  BY MessageAges DEF TypeInv
<1>4. Head(toClient) \in S
  BY <1>2, HeadTailProperties
<1>5. k \in Kinds
  BY <1>4
<1> HIDE DEF S
<1>6. /\ Len(rest) = Len(toClient) - 1 /\ Len(toClient) \in Nat \ {0}
      /\ Head(toClient) = toClient[1]
      /\ \A i \in 1 .. Len(toClient) - 1 : rest[i] = toClient[i + 1]
  BY <1>2, TailParts
<1>7. k = toClient[1].kind
  BY <1>6
<1> HIDE DEF k
<1>8. Has(got, k) /\ \A y : Has(recvBuf, y) => Has(got, y)
  BY <1>2, <1>5, HasAppended
<1> HIDE DEF got, rest
<1>9. CASE AckReceived /\ t <= 2 * MaxDelay
  BY <1>2, <1>8, <1>9 DEF AnswerComes, AckReceived, Has
<1>10. CASE AckSent(t)
  <2>1. PICK i \in 1 .. Len(toClient) :
          toClient[i].kind = "ack" /\ t <= MaxDelay + toClient[i].age
    BY <1>10 DEF AckSent
  <2>2. CASE i = 1
    <3>1. t <= 2 * MaxDelay
      BY <1>1, <1>3, <2>1
    <3>2. Has(got, "ack")
      BY <1>7, <1>8, <2>1, <2>2
    <3>3. AckReceived'
      BY <1>2, <3>2 DEF AckReceived, Has
    <3> QED BY <3>1, <3>3 DEF AnswerComes
  <2>3. CASE i # 1
    <3>1. i - 1 \in 1 .. Len(toClient) - 1 /\ (i - 1) + 1 = i
      BY <1>6, <2>3
    <3>2. i - 1 \in 1 .. Len(rest) /\ rest[i - 1] = toClient[i]
      BY <1>6, <3>1
    <3>3. AckSent(t)'
      BY <1>2, <2>1, <3>2 DEF AckSent
    <3> QED BY <3>3 DEF AnswerComes
  <2> QED BY <2>2, <2>3
<1>11. CASE HeartbeatSent(t)
  BY <1>2, <1>11 DEF AnswerComes, HeartbeatSent
<1> QED BY <1>9, <1>10, <1>11 DEF AnswerComes

LEMMA AnswerPastLog ==
  ASSUME NEW t \in Nat, TypeInv, AnswerComes(t), ServerSendsLog
  PROVE  AnswerComes(t)'
<1> DEFINE m == [kind |-> "log", age |-> 0]
           S == [kind : Kinds, age : 0 .. MaxDelay]
           sent == Append(toClient, m)
<1>1. m \in S
  BY TimesAssumption DEF Kinds
<1>2. /\ toClient \in Seq(S) /\ toClient' = sent
      /\ UNCHANGED <<msgCh, hand, recvBuf, toServer>>
  BY DEF ServerSendsLog, TypeInv, NetworkInv, readVars
<1> HIDE DEF m, S
<1>3. /\ Len(sent) = Len(toClient) + 1 /\ Len(toClient) \in Nat
      /\ \A i \in 1 .. Len(toClient) : sent[i] = toClient[i]
  BY <1>1, <1>2, AppendedParts
<1> HIDE DEF sent
<1>4. AckSent(t) => AckSent(t)'
  <2>1. \A i \in 1 .. Len(toClient) : i \in 1 .. Len(sent) /\ sent[i] = toClient[i]
    BY <1>3
  <2> QED BY <1>2, <2>1 DEF AckSent
<1>5. (AckReceived <=> AckReceived') /\ (HeartbeatSent(t) <=> HeartbeatSent(t)')
  BY <1>2 DEF AckReceived, HeartbeatSent
<1> QED BY <1>4, <1>5 DEF AnswerComes

(* The decoding goroutine hands the ack on.                                *)
LEMMA AnswerPastReader ==
  ASSUME NEW t \in Nat, TypeInv, NothingEnded, AnswerComes(t), ReaderStep
  PROVE  AnswerComes(t)'
<1>1. UNCHANGED <<toServer, toClient>>
  BY DEF ReaderStep, ReaderDecode, ReaderSend, netVars
<1>2. (AckSent(t) <=> AckSent(t)') /\ (HeartbeatSent(t) <=> HeartbeatSent(t)')
  BY <1>1 DEF AckSent, HeartbeatSent
<1>3. ASSUME AckReceived PROVE AckReceived'
  <2>1. CASE ReaderDecode
    <3>1. /\ hand = "none" /\ recvBuf \in Seq(Kinds) /\ recvBuf # <<>>
          /\ hand' = Head(recvBuf) /\ recvBuf' = Tail(recvBuf) /\ msgCh' = msgCh
      BY <2>1 DEF ReaderDecode, NothingEnded, TypeInv, ReaderInv
    <3>2. Has(recvBuf, "ack") /\ Head(recvBuf) # "ack" => Has(Tail(recvBuf), "ack")
      BY <3>1, HasTail
    <3>3. Has(msgCh, "ack") \/ Has(recvBuf, "ack")
      BY <1>3, <3>1 DEF AckReceived
    <3> QED BY <3>1, <3>2, <3>3 DEF AckReceived, Has
  <2>2. CASE ReaderSend
    <3> DEFINE C == Kinds \cup {"err"}
               q == Append(msgCh, hand)
    <3>1. /\ hand \in C /\ msgCh \in Seq(C) /\ msgCh' = q /\ recvBuf' = recvBuf
      BY <2>2 DEF ReaderSend, TypeInv, ReaderInv
    <3> HIDE DEF C
    <3>2. Has(q, hand) /\ \A y : Has(msgCh, y) => Has(q, y)
      BY <3>1, HasAppended
    <3> HIDE DEF q
    <3>3. Has(q, "ack") \/ Has(recvBuf, "ack")
      BY <1>3, <3>2 DEF AckReceived
    <3> QED BY <3>1, <3>3 DEF AckReceived, Has
  <2> QED BY <2>1, <2>2 DEF ReaderStep
<1> QED BY <1>2, <1>3 DEF AnswerComes

(* A message that is not the ack leaves it in the channel.                 *)
LEMMA AnswerPastMessage ==
  ASSUME NEW t \in Nat, TypeInv, AnswerComes(t), HbMessage, Head(msgCh) # "ack"
  PROVE  AnswerComes(t)'
<1>1. UNCHANGED <<toServer, toClient, hand, recvBuf>> /\ msgCh' = Tail(msgCh)
      /\ msgCh # <<>> /\ msgCh \in Seq(Kinds \cup {"err"})
  BY DEF HbMessage, netVars, readVars, TypeInv, ReaderInv
<1>2. (AckSent(t) <=> AckSent(t)') /\ (HeartbeatSent(t) <=> HeartbeatSent(t)')
  BY <1>1 DEF AckSent, HeartbeatSent
<1>3. Has(msgCh, "ack") => Has(Tail(msgCh), "ack")
  BY <1>1, HasTail
<1>4. AckReceived => AckReceived'
  BY <1>1, <1>3 DEF AckReceived, Has
<1> QED BY <1>2, <1>4 DEF AnswerComes

(* Time passes only when no ack is left to read and nothing is overdue, so *)
(* what is on its way grows older with the waiting.                        *)
LEMMA AnswerPastTick ==
  ASSUME NEW t \in Nat, TypeInv, NothingEnded, AnswerComes(t), Tick
  PROVE  AnswerComes(t + 1)'
<1> DEFINE older == [i \in 1 .. Len(toServer) |-> Older(toServer[i])]
           aged == [i \in 1 .. Len(toClient) |->
                      [kind |-> toClient[i].kind, age |-> Older(toClient[i].age)]]
<1>1. MaxDelay \in Nat
  BY TimesAssumption
<1>2. /\ Len(toServer) \in Nat /\ Len(toClient) \in Nat
      /\ \A i \in 1 .. Len(toServer) : toServer[i] \in 0 .. MaxDelay
      /\ \A i \in 1 .. Len(toClient) : toClient[i].age \in 0 .. MaxDelay
  BY MessageAges DEF TypeInv
<1>3. /\ \A i \in 1 .. Len(toServer) : toServer[i] < MaxDelay
      /\ \A i \in 1 .. Len(toClient) : toClient[i].age < MaxDelay
      /\ toServer' = older /\ toClient' = aged
  BY DEF Tick, NothingOverdue, NothingEnded
<1>4. ~ AckReceived
  <2>1. msgCh = <<>>
    BY DEF Tick, ClientWaits, NothingEnded
  <2>2. reader = "decode"
    BY <2>1, TimesAssumption DEF Tick, ClientWaits, NothingEnded, TypeInv, ReaderInv
  <2>3. recvBuf = <<>> /\ hand = "none"
    BY <2>2 DEF Tick, ClientWaits, TypeInv, ReaderInv
  <2>4. Len(msgCh) = 0 /\ Len(recvBuf) = 0
    BY <2>1, <2>3
  <2> QED BY <2>3, <2>4 DEF AckReceived, Has
<1>5. Len(older) = Len(toServer) /\ Len(aged) = Len(toClient)
  BY <1>2
<1>6. \A i \in 1 .. Len(toServer) : older[i] = toServer[i] + 1
  BY <1>3 DEF Older, UpTo
<1>7. \A i \in 1 .. Len(toClient) :
        aged[i].kind = toClient[i].kind /\ aged[i].age = toClient[i].age + 1
  BY <1>3 DEF Older, UpTo
<1> HIDE DEF older, aged
<1>8. CASE AckSent(t)
  <2>1. PICK i \in 1 .. Len(toClient) :
          toClient[i].kind = "ack" /\ t <= MaxDelay + toClient[i].age
    BY <1>8 DEF AckSent
  <2>2. aged[i].kind = "ack" /\ t + 1 <= MaxDelay + aged[i].age
    BY <1>1, <1>2, <1>7, <2>1
  <2>3. AckSent(t + 1)'
    BY <1>3, <1>5, <2>2 DEF AckSent
  <2> QED BY <2>3 DEF AnswerComes
<1>9. CASE HeartbeatSent(t)
  <2>1. PICK i \in 1 .. Len(toServer) : t <= toServer[i]
    BY <1>9 DEF HeartbeatSent
  <2>2. t + 1 <= older[i]
    BY <1>2, <1>6, <2>1
  <2>3. HeartbeatSent(t + 1)'
    BY <1>3, <1>5, <2>2 DEF HeartbeatSent
  <2> QED BY <2>3 DEF AnswerComes
<1> QED BY <1>4, <1>8, <1>9 DEF AnswerComes

(* The time waited is a natural number.                                    *)
LEMMA WaitedNatural ==
  ASSUME TypeInv, misses > 0
  PROVE  Waited \in Nat /\ (misses - 1) * HeartbeatInterval \in Nat
<1>1. HeartbeatInterval \in Nat \ {0} /\ misses - 1 \in Nat /\ hbTimer \in Nat
  BY TimesAssumption DEF TypeInv, HeartbeatInv
<1>2. (misses - 1) * HeartbeatInterval \in Nat
  BY <1>1, OneMoreInterval
<1> QED BY <1>1, <1>2 DEF Waited

(* The ticker fires: the heartbeat is sent, and the time waited goes on, or*)
(* begins with this heartbeat.                                             *)
LEMMA HealthyHeartbeat ==
  ASSUME TypeInv, Healthy, HbTick
  PROVE  Healthy'
<1> DEFINE A == 0 .. MaxDelay
           q == Append(toServer, 0)
<1>1. MaxDelay \in Nat /\ HeartbeatInterval \in Nat \ {0} /\ misses \in Nat
      /\ hbTimer = HeartbeatInterval
  BY TimesAssumption DEF TypeInv, HeartbeatInv, HbTick
<1>2. misses + 1 < MaxMisses
  BY <1>1, AnswerInTime, CountStaysLow DEF Healthy
<1>3. ~ GivesUp(misses + 1)
  BY <1>1, <1>2, TimesAssumption DEF GivesUp
<1>4. /\ toServer' = q /\ misses' = misses + 1 /\ hbTimer' = 0
      /\ UNCHANGED <<hb, errCh, runner, cancelled, reader, hand, msgCh, serve, clientOpen,
                     recvBuf, main, loop, idle, serverOpen, path, toClient>>
  BY <1>3 DEF HbTick, Healthy, NothingEnded, readVars, srvVars
<1>5. 0 \in A /\ toServer \in Seq(A)
  BY <1>1 DEF TypeInv, NetworkInv
<1>6. idle \in Nat
  BY TimesAssumption DEF TypeInv, ServerInv
<1>7. \A i \in 1 .. Len(toServer) : toServer[i] \in 0 .. MaxDelay
  BY MessageAges DEF TypeInv
<1> HIDE DEF A
<1>8. /\ q \in Seq(A) /\ Len(q) = Len(toServer) + 1 /\ Len(toServer) \in Nat
      /\ q[Len(toServer) + 1] = 0 /\ \A i \in 1 .. Len(toServer) : q[i] = toServer[i]
  BY <1>5, AppendedParts
<1>9. toServer = <<>> <=> Len(toServer) = 0
  BY <1>5, EmptySeq
<1>10. q # <<>>
  BY <1>8, EmptySeq
<1> HIDE DEF q
<1>11. NothingEnded'
  BY <1>4 DEF Healthy, NothingEnded
<1>12. HeartbeatDue'
  <2>1. idle <= HeartbeatInterval + q[1] + MaxDelay
    <3>1. CASE toServer = <<>>
      BY <1>1, <1>6, <1>8, <1>9, <3>1 DEF Healthy, HeartbeatDue
    <3>2. CASE toServer # <<>>
      <4>1. 1 \in 1 .. Len(toServer)
        BY <1>8, <1>9, <3>2
      <4> QED BY <1>8, <3>2, <4>1 DEF Healthy, HeartbeatDue
    <3> QED BY <3>1, <3>2
  <2> QED BY <1>4, <1>10, <2>1 DEF HeartbeatDue
<1>13. AnswerComes(Waited)'
  <2>1. CASE misses = 0
    <3>1. Waited' = 0
      BY <1>1, <1>4, <2>1 DEF Waited
    <3>2. Len(toServer) + 1 \in 1 .. Len(q) /\ 0 <= q[Len(toServer) + 1]
      BY <1>8
    <3>3. HeartbeatSent(Waited)'
      BY <1>4, <3>1, <3>2 DEF HeartbeatSent
    <3> QED BY <3>3 DEF AnswerComes
  <2>2. CASE misses > 0
    <3>1. Waited' = Waited
      <4>1. misses - 1 \in Nat /\ (misses - 1) + 1 = misses
        BY <1>1, <2>2
      <4>2. misses * HeartbeatInterval = (misses - 1) * HeartbeatInterval + HeartbeatInterval
            /\ misses * HeartbeatInterval \in Nat
        BY <1>1, <4>1, OneMoreInterval
      <4>3. (misses + 1) - 1 = misses
        BY <1>1
      <4> QED BY <1>1, <1>4, <4>2, <4>3 DEF Waited
    <3>2. PICK t \in Nat : t = Waited
      BY <2>2, WaitedNatural
    <3>3. AnswerComes(t)
      BY <2>2, <3>2 DEF Healthy
    <3>4. HeartbeatSent(t) => HeartbeatSent(t)'
      <4>1. \A i \in 1 .. Len(toServer) : i \in 1 .. Len(q) /\ q[i] = toServer[i]
        BY <1>8
      <4> QED BY <1>4, <4>1 DEF HeartbeatSent
    <3>5. AnswerComes(t)'
      BY <1>4, <3>3, <3>4 DEF AnswerComes, AckReceived, AckSent
    <3> QED BY <3>1, <3>2, <3>5 DEF AnswerComes, AckSent, HeartbeatSent
  <2> QED BY <1>1, <2>1, <2>2
<1> QED BY <1>11, <1>12, <1>13 DEF Healthy

(* The server's idle timer does not run out.                               *)
LEMMA IdleStaysLow ==
  ASSUME TypeInv, HeartbeatDue
  PROVE  idle < IdleTimeout
<1>1. MaxDelay \in Nat /\ HeartbeatInterval \in Nat /\ IdleTimeout \in Nat
      /\ hbTimer \in 0 .. HeartbeatInterval /\ idle \in Nat
  BY TimesAssumption DEF TypeInv, HeartbeatInv, ServerInv
<1>2. CASE toServer = <<>>
  BY <1>1, <1>2, PromptAssumption DEF HeartbeatDue
<1>3. CASE toServer # <<>>
  <2>1. Len(toServer) # 0 /\ Len(toServer) \in Nat
    BY <1>3, EmptySeq, LenProperties DEF TypeInv, NetworkInv
  <2>2. toServer[1] \in 0 .. MaxDelay
    <3>1. 1 \in 1 .. Len(toServer)
      BY <2>1
    <3> QED BY <3>1, MessageAges DEF TypeInv
  <2> QED BY <1>1, <1>3, <2>2, PromptAssumption DEF HeartbeatDue
<1> QED BY <1>2, <1>3

LEMMA HealthyTick ==
  ASSUME TypeInv, Healthy, Tick
  PROVE  Healthy'
<1> DEFINE older == [i \in 1 .. Len(toServer) |-> Older(toServer[i])]
<1>1. /\ hbTimer' = hbTimer + 1 /\ idle' = idle + 1 /\ toServer' = older
      /\ UNCHANGED <<runner, cancelled, errCh, hb, misses, reader, hand, msgCh, serve,
                     clientOpen, recvBuf, main, loop, serverOpen, path>>
  BY DEF Tick, Healthy, NothingEnded, runVars, readVars
<1>2. MaxDelay \in Nat /\ HeartbeatInterval \in Nat /\ hbTimer \in Nat /\ idle \in Nat
      /\ misses \in Nat
  BY TimesAssumption DEF TypeInv, HeartbeatInv, ServerInv
<1>3. NothingEnded'
  BY <1>1 DEF Healthy, NothingEnded
<1>4. HeartbeatDue'
  <2>1. toServer \in Seq(0 .. MaxDelay) /\ older \in Seq(0 .. MaxDelay)
        /\ Len(toServer) \in Nat
    BY OlderMessages, MessageAges DEF TypeInv, NetworkInv
  <2>2. Len(older) = Len(toServer)
    BY <2>1
  <2>3. /\ toServer = <<>> <=> Len(toServer) = 0
        /\ older = <<>> <=> Len(toServer) = 0
    BY <2>1, <2>2, EmptySeq
  <2>4. ASSUME toServer # <<>> PROVE older[1] = toServer[1] + 1 /\ toServer[1] \in Nat
    <3>1. 1 \in 1 .. Len(toServer)
      BY <2>1, <2>3, <2>4
    <3>2. toServer[1] < MaxDelay
      BY <3>1 DEF Tick, NothingOverdue, Healthy, NothingEnded
    <3>3. toServer[1] \in Nat
      BY <1>2, <3>1, MessageAges DEF TypeInv
    <3> QED BY <3>1, <3>2, <3>3 DEF Older, UpTo
  <2> HIDE DEF older
  <2>5. CASE toServer = <<>>
    BY <1>1, <1>2, <2>3, <2>5 DEF Healthy, HeartbeatDue
  <2>6. CASE toServer # <<>>
    <3>1. idle <= HeartbeatInterval + toServer[1] + MaxDelay
      BY <2>6 DEF Healthy, HeartbeatDue
    <3>2. idle + 1 <= HeartbeatInterval + older[1] + MaxDelay
      BY <1>2, <2>4, <2>6, <3>1
    <3> QED BY <1>1, <2>3, <2>6, <3>2 DEF HeartbeatDue
  <2> QED BY <2>5, <2>6
<1>5. ASSUME misses > 0 PROVE AnswerComes(Waited)'
  <2>1. PICK t \in Nat : t = Waited
    BY <1>5, WaitedNatural
  <2>2. AnswerComes(t)
    BY <1>5, <2>1 DEF Healthy
  <2>3. AnswerComes(t + 1)'
    BY <2>2, AnswerPastTick DEF Healthy
  <2>4. Waited' = t + 1
    <3>1. (misses - 1) * HeartbeatInterval \in Nat
      BY <1>5, WaitedNatural
    <3> QED BY <1>1, <1>2, <2>1, <3>1 DEF Waited
  <2> QED BY <2>3, <2>4 DEF AnswerComes, AckSent, HeartbeatSent
<1> QED BY <1>1, <1>3, <1>4, <1>5 DEF Healthy

(* While the count stands, an answer that still comes is the same answer.  *)
LEMMA SameAnswer ==
  ASSUME TypeInv, Healthy, UNCHANGED <<misses, hbTimer>>,
         \A t \in Nat : AnswerComes(t) => AnswerComes(t)'
  PROVE  misses' > 0 => AnswerComes(Waited)'
<1> SUFFICES ASSUME misses > 0 PROVE AnswerComes(Waited)'
  OBVIOUS
<1>1. PICK t \in Nat : t = Waited
  BY WaitedNatural
<1>2. AnswerComes(t)
  BY <1>1 DEF Healthy
<1>3. AnswerComes(t)'
  BY <1>2
<1>4. Waited' = t
  BY <1>1 DEF Waited
<1> QED BY <1>3, <1>4 DEF AnswerComes, AckSent, HeartbeatSent

LEMMA HealthyMessage ==
  ASSUME TypeInv, Healthy, HbMessage
  PROVE  Healthy'
<1> DEFINE C == Kinds \cup {"err"}
           rest == Tail(msgCh)
<1>1. msgCh # <<>> /\ msgCh \in Seq(C) /\ msgCh' = rest
  BY DEF HbMessage, TypeInv, ReaderInv
<1> HIDE DEF C
<1>2. /\ Len(rest) = Len(msgCh) - 1 /\ Len(msgCh) \in Nat \ {0} /\ Head(msgCh) = msgCh[1]
      /\ \A i \in 1 .. Len(msgCh) - 1 : rest[i] = msgCh[i + 1]
  BY <1>1, TailParts
<1> HIDE DEF rest
<1>3. \A i \in 1 .. Len(msgCh) : msgCh[i] # "err"
  BY DEF Healthy, NothingEnded
<1>4. Head(msgCh) # "err" /\ \A i \in 1 .. Len(rest) : rest[i] # "err"
  <2>1. 1 \in 1 .. Len(msgCh) /\ \A i \in 1 .. Len(rest) : i + 1 \in 1 .. Len(msgCh)
    BY <1>2
  <2> QED BY <1>2, <1>3, <2>1
<1>5. /\ misses' = MissesAfter(Head(msgCh))
      /\ UNCHANGED <<runner, cancelled, errCh, hb, hbTimer, reader, hand, serve,
                     clientOpen, recvBuf, main, loop, idle, serverOpen, path, toServer,
                     toClient>>
  BY <1>4 DEF HbMessage, readVars, srvVars, netVars
<1>6. NothingEnded'
  BY <1>1, <1>4, <1>5 DEF Healthy, NothingEnded
<1>7. HeartbeatDue'
  BY <1>5 DEF Healthy, HeartbeatDue
<1>8. misses' > 0 => AnswerComes(Waited)'
  <2>1. CASE Head(msgCh) = "ack"
    BY <1>5, <2>1 DEF MissesAfter
  <2>2. CASE Head(msgCh) # "ack"
    <3>1. UNCHANGED <<misses, hbTimer>>
      BY <1>5, <2>2 DEF MissesAfter
    <3>2. \A t \in Nat : AnswerComes(t) => AnswerComes(t)'
      BY <2>2, AnswerPastMessage
    <3> QED BY <3>1, <3>2, SameAnswer
  <2> QED BY <2>1, <2>2
<1> QED BY <1>6, <1>7, <1>8 DEF Healthy

LEMMA HealthyReader ==
  ASSUME TypeInv, Healthy, ReaderStep
  PROVE  Healthy'
<1>1. UNCHANGED <<runner, cancelled, errCh, hb, hbTimer, misses, serve, clientOpen, main,
                  loop, idle, serverOpen, path, toServer, toClient>>
  BY DEF ReaderStep, ReaderDecode, ReaderSend, runVars, hbVars, srvVars, netVars
<1>2. reader' # "done" /\ hand' # "err" /\ \A i \in 1 .. Len(msgCh') : msgCh'[i] # "err"
  <2>1. CASE ReaderDecode
    <3>1. recvBuf # <<>> /\ Head(recvBuf) \in Kinds
      BY <2>1 DEF ReaderDecode, Healthy, NothingEnded, TypeInv, ReaderInv
    <3> QED BY <2>1, <3>1 DEF ReaderDecode, Healthy, NothingEnded, Kinds
  <2>2. CASE ReaderSend
    <3> DEFINE C == Kinds \cup {"err"}
               q == Append(msgCh, hand)
    <3>1. /\ hand \in C /\ hand # "err" /\ msgCh \in Seq(C) /\ msgCh' = q
          /\ hand' = "none" /\ reader' = "decode"
      BY <2>2 DEF ReaderSend, TypeInv, ReaderInv, Healthy, NothingEnded
    <3> HIDE DEF C
    <3>2. /\ Len(q) = Len(msgCh) + 1 /\ Len(msgCh) \in Nat /\ q[Len(msgCh) + 1] = hand
          /\ \A i \in 1 .. Len(msgCh) : q[i] = msgCh[i]
      BY <3>1, AppendedParts
    <3> HIDE DEF q
    <3>3. \A i \in 1 .. Len(msgCh) : msgCh[i] # "err"
      BY DEF Healthy, NothingEnded
    <3>4. \A i \in 1 .. Len(q) : i \in 1 .. Len(msgCh) \/ i = Len(msgCh) + 1
      BY <3>2
    <3>5. \A i \in 1 .. Len(q) : q[i] # "err"
      BY <3>1, <3>2, <3>3, <3>4
    <3> QED BY <3>1, <3>5
  <2> QED BY <2>1, <2>2 DEF ReaderStep
<1>3. NothingEnded'
  BY <1>1, <1>2 DEF Healthy, NothingEnded
<1>4. HeartbeatDue'
  BY <1>1 DEF Healthy, HeartbeatDue
<1>5. \A t \in Nat : AnswerComes(t) => AnswerComes(t)'
  BY AnswerPastReader DEF Healthy
<1> QED BY <1>1, <1>3, <1>4, <1>5, SameAnswer DEF Healthy

(* A heartbeat arrives, a log is sent, a message is delivered.             *)
LEMMA HealthyNetwork ==
  ASSUME TypeInv, Healthy, ServerReceives \/ ServerSendsLog \/ Deliver
  PROVE  Healthy'
<1>1. UNCHANGED <<runner, cancelled, errCh, hb, hbTimer, misses, reader, hand, msgCh,
                  serve, clientOpen, main, loop, serverOpen, path>>
  BY DEF ServerReceives, ServerSendsLog, Deliver, runVars, hbVars, readVars, srvVars
<1>2. NothingEnded'
  BY <1>1 DEF Healthy, NothingEnded
<1>3. HeartbeatDue'
  <2>1. CASE ServerReceives
    <3> DEFINE A == 0 .. MaxDelay
               rest == Tail(toServer)
    <3>1. /\ toServer # <<>> /\ toServer \in Seq(A) /\ toServer' = rest /\ idle' = 0
          /\ hbTimer' = hbTimer
      BY <2>1 DEF ServerReceives, IdleAfterMessage, TypeInv, NetworkInv, hbVars
    <3>2. rest \in Seq(A)
      BY <3>1, HeadTailProperties
    <3>3. rest # <<>> => rest[1] \in A
      <4>1. rest # <<>> => Len(rest) # 0
        BY <3>2, EmptySeq
      <4>2. Len(rest) \in Nat /\ \A i \in 1 .. Len(rest) : rest[i] \in A
        BY <3>2, ElementOfSeq, LenProperties
      <4>3. Len(rest) # 0 => 1 \in 1 .. Len(rest)
        <5> HIDE DEF rest
        <5> QED BY <4>2
      <4> HIDE DEF rest, A
      <4> QED BY <4>1, <4>2, <4>3
    <3>4. MaxDelay \in Nat /\ HeartbeatInterval \in Nat /\ hbTimer \in Nat
      BY TimesAssumption DEF TypeInv, HeartbeatInv
    <3> HIDE DEF rest
    <3> QED BY <3>1, <3>3, <3>4 DEF HeartbeatDue
  <2>2. CASE ServerSendsLog \/ Deliver
    <3>1. UNCHANGED <<toServer, idle, hbTimer>>
      BY <2>2 DEF ServerSendsLog, Deliver, srvVars, hbVars
    <3> QED BY <3>1 DEF Healthy, HeartbeatDue
  <2> QED BY <2>1, <2>2
<1>4. \A t \in Nat : AnswerComes(t) => AnswerComes(t)'
  BY AnswerPastReceive, AnswerPastLog, AnswerPastDelivery DEF Healthy
<1> QED BY <1>1, <1>2, <1>3, <1>4, SameAnswer DEF Healthy

LEMMA HealthStep == TypeInv /\ HealthInv /\ [Next]_vars => HealthInv'
<1> SUFFICES ASSUME TypeInv, HealthInv, [Next]_vars, ~ disturbed' PROVE Healthy'
  BY DEF HealthInv
<1>0. ~ disturbed
  BY DEF Next, HbStep, ReaderStep, RunnerStep, ServerStep, Environment, HbTick,
      HbMessage, HbCancelled, ReaderDecode, ReaderSend, ServeFails, RunnerReturns,
      RunnerCloses, LoopFails, ServerGivesUp, ServerCloses, ServerReceives, UserStops,
      ServerKills, ServerSendsLog, Deliver, ClientSeesClose, ServerSeesClose, PathFails,
      PathRecovers, Tick, ghosts, vars
<1>1. Healthy
  BY <1>0 DEF HealthInv
<1>2. NothingEnded /\ idle < IdleTimeout
  BY <1>1, IdleStaysLow DEF Healthy
<1>3. CASE HbTick
  BY <1>1, <1>3, HealthyHeartbeat
<1>4. CASE HbMessage
  BY <1>1, <1>4, HealthyMessage
<1>5. CASE ReaderStep
  BY <1>1, <1>5, HealthyReader
<1>6. CASE ServerReceives \/ ServerSendsLog \/ Deliver
  BY <1>1, <1>6, HealthyNetwork
<1>7. CASE Tick
  BY <1>1, <1>7, HealthyTick
<1>8. ~ HbCancelled /\ ~ ServeFails /\ ~ RunnerStep
  <2>1. ~ (errCh > 0)
    BY <1>2 DEF NothingEnded
  <2>2. runner # "closing"
    BY <1>2 DEF NothingEnded
  <2> QED
    BY <1>2, <2>1, <2>2, Zenon DEF HbCancelled, ServeFails, RunnerStep, RunnerReturns,
                                   RunnerCloses, NothingEnded
<1>9. ~ ServerStep
  <2>1. main # "closing" /\ loop # "ended" /\ idle # IdleTimeout
    BY <1>2, TimesAssumption DEF NothingEnded, TypeInv, ServerInv
  <2> QED
    BY <1>2, <2>1, Zenon DEF ServerStep, LoopFails, ServerGivesUp, ServerCloses,
                             NothingEnded
<1>10. ~ ClientSeesClose /\ ~ ServerSeesClose /\ ~ PathRecovers
  BY <1>2 DEF ClientSeesClose, ServerSeesClose, PathRecovers, NothingEnded
<1>11. ~ UserStops /\ ~ ServerKills /\ ~ PathFails
  BY DEF UserStops, ServerKills, PathFails
<1>12. CASE UNCHANGED vars
  <2>1. UNCHANGED <<runner, cancelled, errCh, hb, hbTimer, misses, reader, hand, msgCh,
                    serve, clientOpen, recvBuf, main, loop, idle, serverOpen, path,
                    toServer, toClient>>
    BY <1>12 DEF vars, runVars, hbVars, readVars, srvVars, netVars
  <2>2. NothingEnded' /\ HeartbeatDue'
    BY <1>1, <2>1 DEF Healthy, NothingEnded, HeartbeatDue
  <2>3. \A t \in Nat : AnswerComes(t) => AnswerComes(t)'
    BY <2>1 DEF AnswerComes, AckReceived, AckSent, HeartbeatSent
  <2> QED BY <1>1, <2>1, <2>2, <2>3, SameAnswer DEF Healthy
<1> QED
  BY <1>3, <1>4, <1>5, <1>6, <1>7, <1>8, <1>9, <1>10, <1>11, <1>12
  DEF Next, HbStep, Environment

(* For all intervals and delivery times for which two deliveries fit in    *)
(* the misses the client allows, and an interval and two deliveries in     *)
(* sessionIdleTimeout: while the path is up and nobody ends the session,   *)
(* neither runHeartbeat nor handleControlSession gives it up.              *)
THEOREM HealthyLinksStay == Spec => []HealthyLinkStays
<1>1. HealthInv => HealthyLinkStays
  BY DEF HealthInv, Healthy, NothingEnded, HealthyLinkStays
<1> QED
  BY <1>1, TypeInvInit, TypeInvStep, HealthInit, HealthStep, PTL DEF Spec

---------------------------------------------------------------------------
(* The loop around the link, Reconnector.Run: its delays stay between      *)
(* baseBackoff and maxBackoff, a session that serves has a connection, and *)
(* a name is kept by a session that will still clean it up, for any pool   *)
(* of connections and names.                                               *)
CONSTANTS Conns, Names, Types, MaxTunnels, BaseBackoff, MaxBackoff,
          None, Other, Dead, AnyName
VARIABLES pc, conn, type, subdomain, backoff,
          srv, req, charged, count, link, holder, reserved, snap
Run == INSTANCE Reconnector

LEMMA NextBackoffType ==
  ASSUME Run!ConstantsFit, NEW b \in BaseBackoff .. MaxBackoff
  PROVE  Run!NextBackoff(b) \in BaseBackoff .. MaxBackoff
BY DEF Run!ConstantsFit, Run!NextBackoff

(* In the places where Run uses its Client it has one.                     *)
HasConn == pc \in {"request", "serve"} => conn \in Conns

(* An unused connection has no request waiting or being handled.           *)
UnusedIsQuiet == \A c \in Conns : srv[c] = "none" => req[c] = None /\ c \notin charged

RCInv == Run!TypeOK /\ HasConn /\ UnusedIsQuiet

LEMMA RCInitInv ==
  ASSUME Run!ConstantsFit
  PROVE  Run!Init => RCInv
BY DEF Run!ConstantsFit, Run!Init, RCInv, Run!TypeOK, HasConn, UnusedIsQuiet

LEMMA RCNextInv ==
  ASSUME Run!ConstantsFit
  PROVE  RCInv /\ [Run!Next]_(Run!vars) => RCInv'
<1> SUFFICES ASSUME RCInv, [Run!Next]_(Run!vars) PROVE RCInv'
  OBVIOUS
<1> USE DEF RCInv, Run!TypeOK, HasConn, UnusedIsQuiet, Run!serverVars,
            Run!clientVars, Run!loopVars, Run!registryVars
<1>1. ASSUME NEW c \in Conns, Run!Connect(c) PROVE RCInv'
  BY <1>1 DEF Run!Connect
<1>2. CASE Run!ConnectFails
  BY <1>2 DEF Run!ConnectFails
<1>3. CASE Run!Wait
  BY <1>3, NextBackoffType DEF Run!Wait
<1>4. ASSUME NEW n \in Names, Run!Granted(n) PROVE RCInv'
  BY <1>4 DEF Run!ConstantsFit, Run!Granted, Run!Assign, Run!EndRequest
<1>5. CASE Run!Refused
  BY <1>5 DEF Run!Refused, Run!CloseClient
<1>6. CASE Run!Lost
  BY <1>6 DEF Run!Lost, Run!CloseClient
<1>7. CASE Run!Stop
  BY <1>7 DEF Run!Stop, Run!CloseClient
<1>8. ASSUME NEW c \in Conns, Run!Handle(c) PROVE RCInv'
  <2>1. CASE Run!Charge(c)
    BY <2>1 DEF Run!ConstantsFit, Run!Charge
  <2>2. CASE Run!Refuse(c)
    BY <2>2 DEF Run!Refuse
  <2>3. CASE Run!RefundRequest(c)
    BY <2>3 DEF Run!ConstantsFit, Run!RefundRequest, Run!DecrementTunnels, Run!EndRequest
  <2>4. ASSUME NEW n \in Names, Run!GrantLost(c, n) PROVE RCInv'
    BY <2>4 DEF Run!GrantLost, Run!Assign, Run!EndRequest
  <2> QED BY <1>8, <2>1, <2>2, <2>3, <2>4 DEF Run!Handle
<1>9. ASSUME NEW c \in Conns, Run!Cleanup(c) PROVE RCInv'
  <2>1. CASE Run!ServerNotices(c)
    BY <2>1 DEF Run!ServerNotices
  <2>2. CASE Run!ServerIdles(c)
    BY <2>2 DEF Run!ServerIdles, Run!HeldBy
  <2>3. CASE Run!Snapshot(c)
    BY <2>3 DEF Run!Snapshot, Run!HeldBy
  <2>4. CASE Run!CleanupDone(c)
    BY <2>4 DEF Run!CleanupDone
  <2>5. CASE Run!LoopEnds(c)
    BY <2>5 DEF Run!LoopEnds
  <2>6. ASSUME NEW n \in Names, Run!Unregister(c, n) PROVE RCInv'
    BY <2>6 DEF Run!ConstantsFit, Run!Unregister, Run!Free, Run!DecrementTunnels
  <2> QED BY <1>9, <2>1, <2>2, <2>3, <2>4, <2>5, <2>6 DEF Run!Cleanup
<1>10. CASE Run!PathFails
  BY <1>10 DEF Run!PathFails
<1>11. ASSUME NEW n \in Names, Run!Kill(n) PROVE RCInv'
  BY <1>11 DEF Run!Kill, Run!Free
<1>12. ASSUME NEW n \in Names, Run!Reap(n) \/ Run!OtherTakes(n) \/ Run!OtherReleases(n)
       PROVE  RCInv'
  BY <1>12 DEF Run!Reap, Run!OtherTakes, Run!OtherReleases, Run!Free
<1>13. CASE UNCHANGED Run!vars
  BY <1>13 DEF Run!vars
<1> QED
  BY <1>1, <1>2, <1>3, <1>4, <1>5, <1>6, <1>7, <1>8, <1>9, <1>10, <1>11, <1>12, <1>13
  DEF Run!Next

(* Type correctness of Reconnector.Run: its delay stays within its limits  *)
(* however often connecting fails, and every name the server keeps is held *)
(* by a connection of the pool, by another client, or was left to a closed *)
(* session.                                                                *)
THEOREM ReconnectorTypes ==
  ASSUME Run!ConstantsFit
  PROVE  Run!Spec => []Run!TypeOK
<1>1. RCInv => Run!TypeOK
  BY DEF RCInv
<1> QED BY <1>1, RCInitInv, RCNextInv, PTL DEF Run!Spec

---------------------------------------------------------------------------
(* What NamesReturn rests on: a session keeps a name only while the        *)
(* clean-up that will give it back is still to come or has it on its list, *)
(* and not when the session is through or its connection used again.       *)
HeldUntilCleaned ==
  \A c \in Conns, n \in Names :
    holder[n] = c => srv[c] \in {"live", "closing"} \/ (srv[c] = "clean" /\ n \in snap[c])

LEMMA HeldInit ==
  ASSUME Run!ConstantsFit
  PROVE  Run!Init => HeldUntilCleaned
BY DEF Run!ConstantsFit, Run!Init, HeldUntilCleaned

LEMMA HeldStep ==
  ASSUME Run!ConstantsFit
  PROVE  RCInv /\ HeldUntilCleaned /\ [Run!Next]_(Run!vars) => HeldUntilCleaned'
<1> SUFFICES ASSUME RCInv, HeldUntilCleaned, [Run!Next]_(Run!vars)
             PROVE  HeldUntilCleaned'
  OBVIOUS
<1> USE DEF RCInv, Run!TypeOK, HeldUntilCleaned
<1>u. ASSUME UNCHANGED <<srv, snap, holder>> PROVE HeldUntilCleaned'
  BY <1>u
<1>f. ASSUME NEW n \in Names, Run!Free(n), UNCHANGED <<srv, snap>>
      PROVE  HeldUntilCleaned'
  BY <1>f DEF Run!ConstantsFit, Run!Free
<1>a. ASSUME NEW c \in Conns, NEW n \in Names, Run!Assign(c, n)
      PROVE  HeldUntilCleaned'
  <2>1. CASE srv[c] \in {"clean", "ended"}
    BY <1>a, <2>1 DEF Run!ConstantsFit, Run!Assign
  <2>2. CASE srv[c] \in {"live", "closing"}
    BY <1>a, <2>2 DEF Run!Assign
  <2> QED BY <1>a, <2>1, <2>2 DEF Run!Assign, UnusedIsQuiet
<1>1. ASSUME NEW c \in Conns, Run!Connect(c) PROVE HeldUntilCleaned'
  BY <1>1 DEF Run!Connect, Run!registryVars
<1>2. CASE Run!ConnectFails \/ Run!Wait \/ Run!Refused \/ Run!Lost \/ Run!Stop \/ Run!PathFails
  BY <1>2, <1>u DEF Run!ConnectFails, Run!Wait, Run!Refused, Run!Lost, Run!Stop,
                    Run!PathFails, Run!serverVars, Run!registryVars
<1>3. ASSUME NEW n \in Names, Run!Granted(n) PROVE HeldUntilCleaned'
  BY <1>3, <1>a DEF Run!Granted, HasConn
<1>4. ASSUME NEW c \in Conns, Run!Handle(c) PROVE HeldUntilCleaned'
  BY <1>4, <1>a, <1>u DEF Run!Handle, Run!Charge, Run!Refuse, Run!RefundRequest,
                          Run!GrantLost, Run!registryVars
<1>5. ASSUME NEW c \in Conns, Run!Cleanup(c) PROVE HeldUntilCleaned'
  <2>1. CASE Run!ServerNotices(c)
    BY <2>1 DEF Run!ServerNotices, Run!registryVars
  <2>2. CASE Run!ServerIdles(c)
    BY <2>2 DEF Run!ServerIdles
  <2>3. CASE Run!Snapshot(c)
    BY <2>3 DEF Run!Snapshot, Run!HeldBy, Run!registryVars
  <2>4. CASE Run!CleanupDone(c)
    BY <2>4 DEF Run!CleanupDone, Run!registryVars
  <2>5. CASE Run!LoopEnds(c)
    BY <2>5 DEF Run!LoopEnds, Run!registryVars
  <2>6. ASSUME NEW n \in Names, Run!Unregister(c, n) PROVE HeldUntilCleaned'
    BY <2>6 DEF Run!ConstantsFit, Run!Unregister, Run!Free
  <2> QED BY <1>5, <2>1, <2>2, <2>3, <2>4, <2>5, <2>6 DEF Run!Cleanup
<1>6. ASSUME NEW n \in Names, Run!Kill(n) PROVE HeldUntilCleaned'
  BY <1>6 DEF Run!ConstantsFit, Run!Kill, Run!Free
<1>7. ASSUME NEW n \in Names, Run!Reap(n) \/ Run!OtherReleases(n)
      PROVE  HeldUntilCleaned'
  BY <1>7, <1>f DEF Run!Reap, Run!OtherReleases
<1>8. ASSUME NEW n \in Names, Run!OtherTakes(n) PROVE HeldUntilCleaned'
  BY <1>8 DEF Run!ConstantsFit, Run!OtherTakes
<1>9. CASE UNCHANGED Run!vars
  BY <1>9, <1>u DEF Run!vars, Run!serverVars, Run!registryVars
<1> QED
  BY <1>1, <1>2, <1>3, <1>4, <1>5, <1>6, <1>7, <1>8, <1>9 DEF Run!Next

(* For any number of connections, names and tunnels, and however the idle  *)
(* branch, the message loop, kills, the reaper and other clients meet: no  *)
(* name stays with a session whose clean-up is over, except the ones a     *)
(* late registration has put down to Dead.                                 *)
THEOREM NamesAreHeldUntilCleaned ==
  ASSUME Run!ConstantsFit
  PROVE  Run!Spec => []HeldUntilCleaned
BY RCInitInv, RCNextInv, HeldInit, HeldStep, PTL DEF Run!Spec
=============================================================================
