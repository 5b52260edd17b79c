-------------------------- MODULE HTTPProxyProofs --------------------------
(***************************************************************************)
(* Proofs about the goroutines of proxied requests: the request log and    *)
(* its event streams (RequestLog), the shared encoder of a control stream  *)
(* (ControlStream) and their composition (HTTPProxy), for any number of    *)
(* requests, tunnels, connections and viewers and any size of the ring,    *)
(* the channels and the window.                                            *)
(***************************************************************************)
EXTENDS HTTPProxy, SequenceTheorems, FiniteSetTheorems, WellFoundedInduction, TLAPS

---------------------------------------------------------------------------
(* The request log.                                                        *)

(* A family of channels: none holds more than its capacity.                *)
ChansOK(c) ==
  c \in [Streams -> Seq(Entries)] /\ \A h \in Streams : Len(c[h]) <= ChanSize

(* What the variables of the log hold, with the channels and histories as  *)
(* functions on the streams.                                               *)
LogShape ==
  /\ entries \in [0..MaxLogEntries - 1 -> Entries \cup {None}]
  /\ pos \in 0..MaxLogEntries - 1 /\ full \in BOOLEAN
  /\ adding \in [Entries -> {"no", "stored", "sending", "added"}]
  /\ todo \in [Entries -> SUBSET Streams] /\ subs \subseteq Streams
  /\ ChansOK(src) /\ ChansOK(dst)
  /\ shown \in [Streams -> Seq(Entries)] /\ offered \in [Streams -> Seq(Entries)]
  /\ closed \subseteq Channels /\ dropped \subseteq Streams
  /\ fwd \in [Streams -> Entries \cup {None, "recv", "done"}]
  /\ sse \in [Streams -> {"idle", "serving", "leaving", "unsubscribed", "done"}]
  /\ panicked \in BOOLEAN

LEMMA LogShapeTypes == LogShape => LogTypeOK
BY DEF LogShape, LogTypeOK, ChansOK

(* A step of the request log: Add of an entry, or a step of a stream.      *)
LogNext ==
  \/ \E e \in Entries : Store(e) \/ AddStep(e)
  \/ \E h \in Streams : StreamStep(h)

LEMMA LogInitShape == LogInit => LogShape
<1> SUFFICES ASSUME LogInit PROVE LogShape
  OBVIOUS
<1> USE DEF LogInit
<1>1. entries \in [0..MaxLogEntries - 1 -> Entries \cup {None}]
      /\ pos \in 0..MaxLogEntries - 1
  BY LogAssumption
<1>2. <<>> \in Seq(Entries) /\ Len(<<>>) <= ChanSize
  BY LogAssumption
<1>3. ChansOK(src) /\ ChansOK(dst)
  <2>1. ChansOK([h \in Streams |-> <<>>])
    BY <1>2 DEF ChansOK
  <2> QED BY <2>1
<1>4. shown \in [Streams -> Seq(Entries)] /\ offered \in [Streams -> Seq(Entries)]
  BY <1>2
<1>5. /\ adding \in [Entries -> {"no", "stored", "sending", "added"}]
      /\ todo \in [Entries -> SUBSET Streams] /\ subs \subseteq Streams
      /\ closed \subseteq Channels /\ dropped \subseteq Streams
      /\ fwd \in [Streams -> Entries \cup {None, "recv", "done"}]
      /\ sse \in [Streams -> {"idle", "serving", "leaving", "unsubscribed", "done"}]
  OBVIOUS
<1>6. panicked \in BOOLEAN /\ full \in BOOLEAN
  OBVIOUS
<1> QED BY <1>1, <1>3, <1>4, <1>5, <1>6 DEF LogShape

LEMMA RingIndex ==
  ASSUME NEW p \in 0..MaxLogEntries - 1
  PROVE  (p + 1) % MaxLogEntries \in 0..MaxLogEntries - 1
BY LogAssumption

(* select with a default: an entry goes into a channel with room, or not.  *)
LEMMA ChannelSend ==
  ASSUME NEW c, ChansOK(c), NEW h \in Streams, NEW e \in Entries,
         NEW d, IF Len(c[h]) < ChanSize THEN d = [c EXCEPT ![h] = Append(@, e)]
                                        ELSE d = c
  PROVE  ChansOK(d)
<1>1. ChanSize \in Nat
  BY LogAssumption
<1>2. CASE Len(c[h]) < ChanSize
  <2>1. c[h] \in Seq(Entries)
    BY DEF ChansOK
  <2>2. Append(c[h], e) \in Seq(Entries) /\ Len(Append(c[h], e)) = Len(c[h]) + 1
    BY <2>1, AppendProperties
  <2>3. d = [c EXCEPT ![h] = Append(c[h], e)]
    BY <1>2
  <2>4. Len(c[h]) \in Nat
    BY <2>1, LenProperties
  <2> QED BY <1>1, <1>2, <2>2, <2>3, <2>4 DEF ChansOK
<1>3. CASE ~(Len(c[h]) < ChanSize)
  BY <1>3
<1> QED BY <1>2, <1>3

(* A receive takes the first entry out of a channel.                       *)
LEMMA ChannelReceive ==
  ASSUME NEW c, ChansOK(c), NEW h \in Streams, c[h] # <<>>
  PROVE  Head(c[h]) \in Entries /\ ChansOK([c EXCEPT ![h] = Tail(@)])
<1>1. c[h] \in Seq(Entries)
  BY DEF ChansOK
<1>2. /\ Head(c[h]) \in Entries /\ Tail(c[h]) \in Seq(Entries)
      /\ Len(Tail(c[h])) = Len(c[h]) - 1 /\ Len(c[h]) \in Nat
  BY <1>1, HeadTailProperties, LenProperties
<1>3. ChanSize \in Nat
  BY LogAssumption
<1> QED BY <1>2, <1>3 DEF ChansOK

LEMMA LogNextShape == LogShape /\ [LogNext]_logVars => LogShape'
<1> SUFFICES ASSUME LogShape, [LogNext]_logVars PROVE LogShape'
  OBVIOUS
<1> USE DEF LogShape, ringVars, addVars, chanVars
<1>1. ASSUME NEW e \in Entries, Store(e) PROVE LogShape'
  <2>1. full' \in BOOLEAN
    BY <1>1 DEF Store
  <2>2. pos' \in 0..MaxLogEntries - 1
    BY <1>1, RingIndex DEF Store
  <2> QED BY <1>1, <2>1, <2>2 DEF Store
<1>2. ASSUME NEW e \in Entries, FanOut(e) PROVE LogShape'
  BY <1>2 DEF FanOut
<1>3. ASSUME NEW e \in Entries, FanOutSend(e) PROVE LogShape'
  <2> PICK h \in todo[e] :
         /\ todo' = [todo EXCEPT ![e] = @ \ {h}]
         /\ adding' = [adding EXCEPT ![e] = IF todo[e] = {h} THEN "added" ELSE @]
         /\ offered' = [offered EXCEPT ![h] = Append(@, e)]
         /\ IF Len(src[h]) < ChanSize
            THEN src' = [src EXCEPT ![h] = Append(@, e)] /\ UNCHANGED dropped
            ELSE dropped' = dropped \cup {h} /\ UNCHANGED src
         /\ panicked' = (panicked \/ <<"src", h>> \in closed)
    BY <1>3 DEF FanOutSend
  <2>1. panicked' \in BOOLEAN
    OBVIOUS
  <2>2. h \in Streams
    OBVIOUS
  <2>3. ChansOK(src')
    BY <2>2, ChannelSend
  <2>4. offered' \in [Streams -> Seq(Entries)] /\ dropped' \subseteq Streams
    BY <2>2
  <2>5. /\ adding' \in [Entries -> {"no", "stored", "sending", "added"}]
        /\ todo' \in [Entries -> SUBSET Streams]
    OBVIOUS
  <2>6. UNCHANGED <<ringVars, subs, dst, closed, fwd, sse, shown>>
    BY <1>3 DEF FanOutSend
  <2> QED BY <2>1, <2>3, <2>4, <2>5, <2>6
<1>4. ASSUME NEW h \in Streams, Subscribe(h) PROVE LogShape'
  BY <1>4 DEF Subscribe
<1>5. ASSUME NEW h \in Streams, ShowEntry(h) PROVE LogShape'
  <2>1. Head(dst[h]) \in Entries /\ ChansOK(dst')
    BY <1>5, ChannelReceive DEF ShowEntry
  <2>2. shown' \in [Streams -> Seq(Entries)]
    BY <1>5, <2>1 DEF ShowEntry
  <2> QED BY <1>5, <2>1, <2>2 DEF ShowEntry
<1>6. ASSUME NEW h \in Streams, ViewerLeaves(h) \/ Unsubscribe(h) PROVE LogShape'
  BY <1>6 DEF ViewerLeaves, Unsubscribe
<1>7. ASSUME NEW h \in Streams, CloseSrc(h) PROVE LogShape'
  <2>1. panicked' \in BOOLEAN
    BY <1>7 DEF CloseSrc, Close
  <2> QED BY <1>7, <2>1 DEF CloseSrc, Close, Channels
<1>8. ASSUME NEW h \in Streams, Forward(h) PROVE LogShape'
  <2>1. Head(src[h]) \in Entries /\ ChansOK(src')
    BY <1>8, ChannelReceive DEF Forward
  <2> QED BY <1>8, <2>1 DEF Forward
<1>9. ASSUME NEW h \in Streams, ForwardSend(h) PROVE LogShape'
  <2>1. panicked' \in BOOLEAN
    BY <1>9 DEF ForwardSend
  <2>2. ChansOK(dst')
    BY <1>9, ChannelSend DEF ForwardSend
  <2> QED BY <1>9, <2>1, <2>2 DEF ForwardSend
<1>10. ASSUME NEW h \in Streams, ForwardEnds(h) PROVE LogShape'
  <2>1. panicked' \in BOOLEAN
    BY <1>10 DEF ForwardEnds, Close
  <2> QED BY <1>10, <2>1 DEF ForwardEnds, Close, Channels
<1>11. CASE UNCHANGED logVars
  BY <1>11 DEF logVars
<1> QED
  BY <1>1, <1>2, <1>3, <1>4, <1>5, <1>6, <1>7, <1>8, <1>9, <1>10, <1>11
  DEF LogNext, AddStep, StreamStep, LeaveStep, ForwardStep

---------------------------------------------------------------------------
(* No send on a closed channel, no second close.                           *)

(* A stream that is subscribed is being served or has not yet left, its    *)
(* goroutine has started, and the loop of Add visits subscribed streams    *)
(* only: Unsubscribe waits until no loop runs.                             *)
LoopsVisitSubscribed ==
  /\ \A e \in Entries : todo[e] \subseteq subs
  /\ \A e \in Entries : todo[e] # {} => adding[e] = "sending"
  /\ \A h \in subs : sse[h] \in {"serving", "leaving"}

(* src is closed as the last step of the handler, dst as the last step of  *)
(* the forwarding goroutine.                                               *)
ClosedLast ==
  /\ \A h \in Streams : <<"src", h>> \in closed => sse[h] = "done"
  /\ \A h \in Streams : <<"dst", h>> \in closed => fwd[h] = "done"
  /\ \A h \in Streams : sse[h] = "idle" => fwd[h] = None

ChannelInv == NoPanic /\ LoopsVisitSubscribed /\ ClosedLast

LEMMA LogInitChannels == LogInit => ChannelInv
BY DEF LogInit, ChannelInv, NoPanic, LoopsVisitSubscribed, ClosedLast

LEMMA LogNextChannels == LogShape /\ ChannelInv /\ [LogNext]_logVars => ChannelInv'
<1> SUFFICES ASSUME LogShape, ChannelInv, [LogNext]_logVars PROVE ChannelInv'
  OBVIOUS
<1>0. /\ adding \in [Entries -> {"no", "stored", "sending", "added"}]
      /\ todo \in [Entries -> SUBSET Streams] /\ subs \subseteq Streams
      /\ fwd \in [Streams -> Entries \cup {None, "recv", "done"}]
      /\ sse \in [Streams -> {"idle", "serving", "leaving", "unsubscribed", "done"}]
  BY DEF LogShape
<1>a. Entries \cap {None, "recv", "done"} = {}
  BY LogAssumption DEF None
<1> USE <1>0
<1> USE DEF ChannelInv, NoPanic, LoopsVisitSubscribed, ClosedLast,
            ringVars, addVars, chanVars
<1>1. ASSUME NEW e \in Entries, Store(e) PROVE ChannelInv'
  BY <1>1 DEF Store
<1>2. ASSUME NEW e \in Entries, FanOut(e) PROVE ChannelInv'
  BY <1>2 DEF FanOut
<1>3. ASSUME NEW e \in Entries, FanOutSend(e) PROVE ChannelInv'
  <2> PICK h \in todo[e] :
         /\ todo' = [todo EXCEPT ![e] = @ \ {h}]
         /\ adding' = [adding EXCEPT ![e] = IF todo[e] = {h} THEN "added" ELSE @]
         /\ panicked' = (panicked \/ <<"src", h>> \in closed)
    BY <1>3 DEF FanOutSend
  <2>1. UNCHANGED <<subs, closed, fwd, sse>>
    BY <1>3 DEF FanOutSend
  <2>2. sse[h] # "done"
    OBVIOUS
  <2>3. NoPanic'
    BY <2>2
  <2>4. LoopsVisitSubscribed'
    BY <2>1
  <2> QED BY <2>1, <2>3, <2>4
<1>4. ASSUME NEW h \in Streams, Subscribe(h) PROVE ChannelInv'
  BY <1>4 DEF Subscribe, None
<1>5. ASSUME NEW h \in Streams, ShowEntry(h) PROVE ChannelInv'
  BY <1>5 DEF ShowEntry
<1>6. ASSUME NEW h \in Streams, ViewerLeaves(h) PROVE ChannelInv'
  BY <1>6 DEF ViewerLeaves
<1>7. ASSUME NEW h \in Streams, Unsubscribe(h) PROVE ChannelInv'
  <2>1. \A e \in Entries : todo[e] = {}
    BY <1>7 DEF Unsubscribe, NoReader
  <2> QED BY <1>7, <2>1 DEF Unsubscribe
<1>8. ASSUME NEW h \in Streams, CloseSrc(h) PROVE ChannelInv'
  <2>1. NoPanic'
    BY <1>8 DEF CloseSrc, Close
  <2>2. h \notin subs
    BY <1>8 DEF CloseSrc
  <2> QED BY <1>8, <2>1, <2>2 DEF CloseSrc, Close
<1>9. ASSUME NEW h \in Streams, Forward(h) PROVE ChannelInv'
  BY <1>9, <1>a DEF Forward, None
<1>10. ASSUME NEW h \in Streams, ForwardSend(h) PROVE ChannelInv'
  <2>1. NoPanic'
    BY <1>10, <1>a DEF ForwardSend
  <2> QED BY <1>10, <1>a, <2>1 DEF ForwardSend, None
<1>11. ASSUME NEW h \in Streams, ForwardEnds(h) PROVE ChannelInv'
  <2>1. NoPanic'
    BY <1>11 DEF ForwardEnds, Close
  <2> QED BY <1>11, <2>1 DEF ForwardEnds, Close, None
<1>12. CASE UNCHANGED logVars
  BY <1>12 DEF logVars
<1> QED
  BY <1>1, <1>2, <1>3, <1>4, <1>5, <1>6, <1>7, <1>8, <1>9, <1>10, <1>11, <1>12
  DEF LogNext, AddStep, StreamStep, LeaveStep, ForwardStep

---------------------------------------------------------------------------
(* Frames on a stream.                                                     *)

(* The message whose payload must follow the first i units of w, when the  *)
(* decoder has already read the header d.                                  *)
Awaited(w, d, i) ==
  IF i = 0 THEN d
  ELSE IF w[i][1] = "head" /\ w[i][2] \notin Empty THEN w[i][2] ELSE Nothing

(* Every unit is the payload that is due, or a header where none is.       *)
WellFramed(w, d) ==
  \A i \in 1..Len(w) :
    IF Awaited(w, d, i - 1) = Nothing THEN w[i][1] = "head"
    ELSE w[i] = <<"body", Awaited(w, d, i - 1)>>

StreamUnits == {"head", "body"} \X Messages

LEMMA MessageNames ==
  /\ Nothing \notin Messages
  /\ "resp" \in Messages /\ "ack" \in Messages /\ Entries \subseteq Messages
  /\ "resp" \notin Empty /\ "ack" \in Empty /\ Entries \cap Empty = {}
  /\ "resp" \notin Entries
BY ProxyAssumption DEF Nothing

(* EncodeHeader and EncodeBody keep a stream well framed if a header is    *)
(* written where none is awaited and the payload where it is.              *)
LEMMA FramedAppend ==
  ASSUME NEW w \in Seq(StreamUnits), NEW d, NEW u \in StreamUnits,
         WellFramed(w, d),
         IF Awaited(w, d, Len(w)) = Nothing THEN u[1] = "head"
         ELSE u = <<"body", Awaited(w, d, Len(w))>>
  PROVE  /\ WellFramed(Append(w, u), d)
         /\ Awaited(Append(w, u), d, Len(w) + 1) =
              IF u[1] = "head" /\ u[2] \notin Empty THEN u[2] ELSE Nothing
<1> DEFINE x == Append(w, u)
<1>1. /\ Len(w) \in Nat /\ Len(x) = Len(w) + 1 /\ x[Len(w) + 1] = u
      /\ \A i \in 1..Len(w) : x[i] = w[i]
  BY AppendProperties, LenProperties
<1> HIDE DEF x
<1>2. \A i \in 0..Len(w) : Awaited(x, d, i) = Awaited(w, d, i)
  BY <1>1 DEF Awaited
<1>3. ASSUME NEW i \in 1..Len(x)
      PROVE  IF Awaited(x, d, i - 1) = Nothing THEN x[i][1] = "head"
             ELSE x[i] = <<"body", Awaited(x, d, i - 1)>>
  <2>1. CASE i = Len(w) + 1
    <3>1. i - 1 = Len(w)
      BY <1>1, <2>1
    <3> QED BY <1>1, <1>2, <2>1, <3>1
  <2>2. CASE i \in 1..Len(w)
    <3>1. i - 1 \in 0..Len(w)
      BY <1>1, <2>2
    <3> QED BY <1>1, <1>2, <2>2, <3>1 DEF WellFramed
  <2> QED BY <1>1, <2>1, <2>2
<1>4. WellFramed(x, d)
  BY <1>3 DEF WellFramed
<1>5. Awaited(x, d, Len(w) + 1) =
        IF u[1] = "head" /\ u[2] \notin Empty THEN u[2] ELSE Nothing
  BY <1>1 DEF Awaited
<1> QED BY <1>4, <1>5 DEF x

(* The decoder takes the unit that is due, and the rest stays well framed  *)
(* with what it then awaits.                                               *)
LEMMA FramedTail ==
  ASSUME NEW w \in Seq(StreamUnits), NEW d, w # <<>>, WellFramed(w, d)
  PROVE  /\ IF d = Nothing THEN Head(w)[1] = "head" ELSE Head(w) = <<"body", d>>
         /\ WellFramed(Tail(w), Awaited(w, d, 1))
         /\ Awaited(Tail(w), Awaited(w, d, 1), Len(Tail(w))) = Awaited(w, d, Len(w))
<1> DEFINE x == Tail(w)
<1>1. /\ Len(w) \in Nat \ {0} /\ Len(x) = Len(w) - 1 /\ Head(w) = w[1]
      /\ \A i \in 1..Len(x) : x[i] = w[i + 1]
  BY HeadTailProperties, LenProperties, EmptySeq
<1> HIDE DEF x
<1> DEFINE n == Awaited(w, d, 1)
<1>2. \A i \in 0..Len(x) : Awaited(x, n, i) = Awaited(w, d, i + 1)
  BY <1>1 DEF Awaited
<1>3. IF d = Nothing THEN Head(w)[1] = "head" ELSE Head(w) = <<"body", d>>
  <2>1. 1 \in 1..Len(w) /\ Awaited(w, d, 0) = d /\ 1 - 1 = 0
    BY <1>1 DEF Awaited
  <2> QED BY <1>1, <2>1 DEF WellFramed
<1> HIDE DEF n
<1>4. ASSUME NEW i \in 1..Len(x)
      PROVE  IF Awaited(x, n, i - 1) = Nothing THEN x[i][1] = "head"
             ELSE x[i] = <<"body", Awaited(x, n, i - 1)>>
  <2>1. i + 1 \in 1..Len(w) /\ (i + 1) - 1 = i /\ i - 1 \in 0..Len(x) /\ (i - 1) + 1 = i
    BY <1>1
  <2>2. Awaited(x, n, i - 1) = Awaited(w, d, i)
    BY <1>2, <2>1
  <2>3. IF Awaited(w, d, i) = Nothing THEN w[i + 1][1] = "head"
        ELSE w[i + 1] = <<"body", Awaited(w, d, i)>>
    BY <2>1 DEF WellFramed
  <2> QED BY <1>1, <2>2, <2>3
<1>5. WellFramed(x, n)
  BY <1>4 DEF WellFramed
<1>6. Awaited(x, n, Len(x)) = Awaited(w, d, Len(w))
  BY <1>1, <1>2
<1> QED BY <1>3, <1>5, <1>6 DEF x, n

---------------------------------------------------------------------------
(* The shared encoder.                                                     *)

(* What the variables of the streams, the requests and the message loops   *)
(* hold.                                                                   *)
StreamShape ==
  /\ up \in [Conns -> BOOLEAN] /\ mu \in [Conns -> BOOLEAN]
  /\ wire \in [Conns -> Seq(StreamUnits)]
  /\ \A t \in Conns : Len(wire[t]) <= Window
  /\ decHead \in [Conns -> Messages \cup {Nothing}]
  /\ decBad \in [Conns -> BOOLEAN]

ProxyShape ==
  /\ req \in [Entries -> {"idle", "refused", "trip", "aborted", "encode",
                          "payload", "store", "logged"}]
  /\ loop \in [Conns -> {"request", "respond", "payload", "ready", "done"}]
  /\ acks \in [Conns -> 0..MaxAcks]
  /\ registered \subseteq Tunnels

(* Only a tunnel with a control stream has a request that writes to one.   *)
WritersConnected ==
  \A e \in Entries : req[e] \in {"encode", "payload"} => TunnelOf[e] \in Conns

(* The messages whose header is written and whose payload is not, by the   *)
(* goroutine that writes them.                                             *)
Writers(t) ==
  {m \in Messages :
     \/ m = "resp" /\ loop[t] = "payload"
     \/ m \in Entries /\ TunnelOf[m] = t /\ req[m] = "payload"}

(* With the frames of W half written: W is at most one message, the mutex  *)
(* is held exactly then, and while the session is open the units on the    *)
(* stream are frames, of which only that one's payload is missing.         *)
EncoderOK(t, W) ==
  /\ (W # {}) <=> mu[t]
  /\ \A m, n \in W : m = n
  /\ ~decBad[t]
  /\ up[t] => /\ WellFramed(wire[t], decHead[t])
              /\ W = {} => Awaited(wire[t], decHead[t], Len(wire[t])) = Nothing
              /\ \A m \in W : Awaited(wire[t], decHead[t], Len(wire[t])) = m

LEMMA WriteKeepsShape ==
  ASSUME StreamShape, NEW t \in Conns, NEW u \in StreamUnits, Write(t, u)
  PROVE  /\ wire' \in [Conns -> Seq(StreamUnits)]
         /\ \A s \in Conns : Len(wire'[s]) <= Window
         /\ wire'[t] = Append(wire[t], u) /\ Len(wire'[t]) = Len(wire[t]) + 1
         /\ \A s \in Conns \ {t} : wire'[s] = wire[s]
<1>1. /\ Append(wire[t], u) \in Seq(StreamUnits)
      /\ Len(Append(wire[t], u)) = Len(wire[t]) + 1 /\ Len(wire[t]) \in Nat
  BY AppendProperties, LenProperties DEF StreamShape
<1>2. Window \in Nat
  BY WindowAssumption
<1> QED BY <1>1, <1>2 DEF Write, StreamShape

LEMMA ReadKeepsShape ==
  ASSUME StreamShape, NEW t \in Conns, wire[t] # <<>>,
         wire' = [wire EXCEPT ![t] = Tail(@)]
  PROVE  /\ wire' \in [Conns -> Seq(StreamUnits)]
         /\ \A s \in Conns : Len(wire'[s]) <= Window
         /\ wire'[t] = Tail(wire[t]) /\ Head(wire[t]) \in StreamUnits
         /\ \A s \in Conns \ {t} : wire'[s] = wire[s]
<1>1. /\ Tail(wire[t]) \in Seq(StreamUnits) /\ Head(wire[t]) \in StreamUnits
      /\ Len(Tail(wire[t])) = Len(wire[t]) - 1 /\ Len(wire[t]) \in Nat
  BY HeadTailProperties, LenProperties DEF StreamShape
<1>2. Window \in Nat
  BY WindowAssumption
<1> QED BY <1>1, <1>2 DEF StreamShape

(* Encode: header.  The mutex was free, so no frame was half written.      *)
LEMMA HeaderStep ==
  ASSUME StreamShape, NEW t \in Conns, NEW m \in Messages, EncodeHeader(t, m),
         NEW W, EncoderOK(t, W)
  PROVE  /\ StreamShape' /\ W = {}
         /\ EncoderOK(t, IF m \in Empty THEN {} ELSE {m})'
<1> DEFINE u == <<"head", m>>
<1>1. u \in StreamUnits /\ Write(t, u) /\ u[1] = "head" /\ u[2] = m
  BY DEF StreamUnits, EncodeHeader
<1>2. /\ wire' \in [Conns -> Seq(StreamUnits)]
      /\ \A s \in Conns : Len(wire'[s]) <= Window
      /\ wire'[t] = Append(wire[t], u) /\ Len(wire'[t]) = Len(wire[t]) + 1
  BY <1>1, WriteKeepsShape
<1>3. mu' \in [Conns -> BOOLEAN]
  BY DEF EncodeHeader, StreamShape
<1>4. StreamShape'
  BY <1>2, <1>3 DEF StreamShape, EncodeHeader
<1>5. W = {}
  BY DEF EncodeHeader, EncoderOK
<1>6. /\ up[t] /\ up'[t]
      /\ wire[t] \in Seq(StreamUnits) /\ WellFramed(wire[t], decHead[t])
      /\ Awaited(wire[t], decHead[t], Len(wire[t])) = Nothing
      /\ decHead' = decHead /\ decBad' = decBad
  BY <1>1, <1>5 DEF EncoderOK, EncodeHeader, Write, StreamShape
<1> HIDE DEF u
<1>7. /\ WellFramed(wire'[t], decHead'[t])
      /\ Awaited(wire'[t], decHead'[t], Len(wire'[t])) =
           IF u[1] = "head" /\ u[2] \notin Empty THEN u[2] ELSE Nothing
  <2>1. /\ WellFramed(Append(wire[t], u), decHead[t])
        /\ Awaited(Append(wire[t], u), decHead[t], Len(wire[t]) + 1) =
             IF u[1] = "head" /\ u[2] \notin Empty THEN u[2] ELSE Nothing
    BY <1>1, <1>6, FramedAppend
  <2> QED BY <1>2, <1>6, <2>1
<1>8. mu'[t] = (m \notin Empty)
  BY DEF EncodeHeader, StreamShape
<1>9. ~decBad'[t]
  BY <1>6 DEF EncoderOK
<1> QED BY <1>1, <1>4, <1>5, <1>7, <1>8, <1>9 DEF EncoderOK

(* Encode: payload, by the goroutine that has written the header.          *)
LEMMA BodyStep ==
  ASSUME StreamShape, NEW t \in Conns, NEW m \in Messages, EncodeBody(t, m),
         EncoderOK(t, {m})
  PROVE  StreamShape' /\ EncoderOK(t, {})'
<1> DEFINE u == <<"body", m>>
<1>1. u \in StreamUnits /\ Write(t, u) /\ u[1] # "head"
  BY DEF StreamUnits, EncodeBody
<1>2. /\ wire' \in [Conns -> Seq(StreamUnits)]
      /\ \A s \in Conns : Len(wire'[s]) <= Window
      /\ wire'[t] = Append(wire[t], u) /\ Len(wire'[t]) = Len(wire[t]) + 1
  BY <1>1, WriteKeepsShape
<1>3. mu' \in [Conns -> BOOLEAN] /\ mu'[t] = FALSE
  BY DEF EncodeBody, StreamShape
<1>4. StreamShape'
  BY <1>2, <1>3 DEF StreamShape, EncodeBody
<1>5. /\ up[t] /\ wire[t] \in Seq(StreamUnits) /\ WellFramed(wire[t], decHead[t])
      /\ Awaited(wire[t], decHead[t], Len(wire[t])) = m
      /\ decHead' = decHead /\ decBad' = decBad
  BY <1>1 DEF EncoderOK, EncodeBody, Write, StreamShape
<1>6. m # Nothing
  BY MessageNames
<1>7. IF Awaited(wire[t], decHead[t], Len(wire[t])) = Nothing THEN u[1] = "head"
      ELSE u = <<"body", Awaited(wire[t], decHead[t], Len(wire[t]))>>
  BY <1>5, <1>6
<1> HIDE DEF u
<1>8. /\ WellFramed(wire'[t], decHead'[t])
      /\ Awaited(wire'[t], decHead'[t], Len(wire'[t])) = Nothing
  <2>1. /\ WellFramed(Append(wire[t], u), decHead[t])
        /\ Awaited(Append(wire[t], u), decHead[t], Len(wire[t]) + 1) =
             IF u[1] = "head" /\ u[2] \notin Empty THEN u[2] ELSE Nothing
    BY <1>1, <1>5, <1>7, FramedAppend
  <2> QED BY <1>1, <1>2, <1>5, <2>1
<1>9. ~decBad'[t]
  BY <1>5 DEF EncoderOK
<1> QED BY <1>3, <1>4, <1>8, <1>9 DEF EncoderOK

(* Encode fails: the session is closed, and the deferred unlock runs.      *)
LEMMA FailStep ==
  ASSUME StreamShape, NEW t \in Conns, NEW holds \in BOOLEAN, EncodeFails(t, holds),
         NEW W, EncoderOK(t, W)
  PROVE  StreamShape' /\ (~holds => W = {}) /\ EncoderOK(t, {})'
<1>1. mu' \in [Conns -> BOOLEAN] /\ mu'[t] = FALSE /\ ~up'[t]
  BY DEF EncodeFails, StreamShape
<1>2. StreamShape'
  BY <1>1 DEF StreamShape, EncodeFails
<1>3. ~holds => W = {}
  BY DEF EncodeFails, EncoderOK
<1>4. ~decBad'[t]
  BY DEF EncodeFails, EncoderOK
<1> QED BY <1>1, <1>2, <1>3, <1>4 DEF EncoderOK

(* The decoder finds what it expects.                                      *)
LEMMA DecodeStep ==
  ASSUME StreamShape, NEW t \in Conns, DecodeHeader(t) \/ DecodeBody(t),
         NEW W, EncoderOK(t, W)
  PROVE  StreamShape' /\ EncoderOK(t, W)'
<1> DEFINE d == decHead[t]
           u == Head(wire[t])
<1>1. /\ up[t] /\ wire[t] # <<>> /\ wire' = [wire EXCEPT ![t] = Tail(@)]
      /\ up' = up /\ mu' = mu
  BY DEF DecodeHeader, DecodeBody
<1>2. /\ wire' \in [Conns -> Seq(StreamUnits)]
      /\ \A s \in Conns : Len(wire'[s]) <= Window
      /\ wire'[t] = Tail(wire[t]) /\ u \in StreamUnits
  BY <1>1, ReadKeepsShape
<1>3. wire[t] \in Seq(StreamUnits) /\ WellFramed(wire[t], d)
  BY <1>1 DEF EncoderOK, StreamShape
<1>4. /\ IF d = Nothing THEN u[1] = "head" ELSE u = <<"body", d>>
      /\ WellFramed(wire'[t], Awaited(wire[t], d, 1))
      /\ Awaited(wire'[t], Awaited(wire[t], d, 1), Len(wire'[t])) =
           Awaited(wire[t], d, Len(wire[t]))
  BY <1>1, <1>2, <1>3, FramedTail
<1>5. u = wire[t][1]
  BY <1>1, <1>3
<1>6. decHead'[t] = Awaited(wire[t], d, 1) /\ ~decBad'[t]
  <2>1. CASE DecodeHeader(t)
    <3>1. d = Nothing /\ u[1] = "head"
      BY <1>4, <2>1 DEF DecodeHeader
    <3>2. decHead'[t] = IF u[2] \in Empty THEN Nothing ELSE u[2]
      BY <2>1 DEF DecodeHeader, StreamShape
    <3>3. decBad'[t] = (decBad[t] \/ u[1] # "head")
      BY <2>1 DEF DecodeHeader, StreamShape
    <3>4. ~decBad'[t]
      BY <3>1, <3>3 DEF EncoderOK
    <3> QED BY <1>5, <3>1, <3>2, <3>4 DEF Awaited
  <2>2. CASE DecodeBody(t)
    <3>1. d # Nothing /\ u = <<"body", d>>
      BY <1>4, <2>2 DEF DecodeBody
    <3>2. decHead'[t] = Nothing
      BY <2>2 DEF DecodeBody, StreamShape
    <3>3. decBad'[t] = (decBad[t] \/ u # <<"body", d>>)
      BY <2>2 DEF DecodeBody, StreamShape
    <3>4. ~decBad'[t]
      BY <3>1, <3>3 DEF EncoderOK
    <3>5. Awaited(wire[t], d, 1) = Nothing
      BY <1>5, <3>1 DEF Awaited
    <3> QED BY <3>2, <3>4, <3>5
  <2> QED BY <2>1, <2>2
<1>7. decBad' \in [Conns -> BOOLEAN]
  BY DEF DecodeHeader, DecodeBody, StreamShape
<1>8. decHead' \in [Conns -> Messages \cup {Nothing}]
  BY <1>2 DEF DecodeHeader, DecodeBody, StreamShape, StreamUnits
<1>9. StreamShape'
  BY <1>1, <1>2, <1>7, <1>8 DEF StreamShape
<1> HIDE DEF d, u
<1>10. /\ WellFramed(wire'[t], decHead'[t])
       /\ Awaited(wire'[t], decHead'[t], Len(wire'[t])) =
            Awaited(wire[t], decHead[t], Len(wire[t]))
  BY <1>4, <1>6 DEF d
<1> QED BY <1>1, <1>6, <1>9, <1>10 DEF EncoderOK

LEMMA CloseStep ==
  ASSUME StreamShape, NEW t \in Conns, SessionCloses(t), NEW W, EncoderOK(t, W)
  PROVE  StreamShape' /\ EncoderOK(t, W)'
<1>1. up' \in [Conns -> BOOLEAN] /\ ~up'[t]
  BY DEF SessionCloses, StreamShape
<1>2. <<>> \in Seq(StreamUnits) /\ Len(<<>>) <= Window
  BY WindowAssumption
<1>3. wire' \in [Conns -> Seq(StreamUnits)] /\ \A s \in Conns : Len(wire'[s]) <= Window
  BY <1>2 DEF SessionCloses, StreamShape
<1>4. StreamShape'
  BY <1>1, <1>3 DEF SessionCloses, StreamShape
<1> QED BY <1>1, <1>4 DEF EncoderOK, SessionCloses

(* A step on one stream leaves the others alone.                           *)
LEMMA OtherStreams ==
  ASSUME StreamShape, NEW t \in Conns, NEW s \in Conns \ {t}, NEW W, EncoderOK(s, W),
         \/ \E m \in Messages : EncodeHeader(t, m) \/ EncodeBody(t, m)
         \/ \E holds \in BOOLEAN : EncodeFails(t, holds)
         \/ DecodeHeader(t) \/ DecodeBody(t) \/ SessionCloses(t)
  PROVE  EncoderOK(s, W)'
<1>1. /\ up'[s] = up[s] /\ mu'[s] = mu[s] /\ wire'[s] = wire[s]
      /\ decHead'[s] = decHead[s] /\ decBad'[s] = decBad[s]
  BY DEF EncodeHeader, EncodeBody, EncodeFails, DecodeHeader, DecodeBody,
         SessionCloses, Write, StreamShape
<1> QED BY <1>1 DEF EncoderOK

---------------------------------------------------------------------------
(* The composition.                                                        *)

EncodersOK == \A t \in Conns : EncoderOK(t, Writers(t))
WriterInv == StreamShape /\ ProxyShape /\ WritersConnected /\ EncodersOK

LEMMA WriterInit == Init => WriterInv
<1> SUFFICES ASSUME Init PROVE WriterInv
  OBVIOUS
<1> USE DEF Init, StreamInit
<1>1. <<>> \in Seq(StreamUnits) /\ Len(<<>>) = 0 /\ 0 <= Window
  BY WindowAssumption
<1>2. StreamShape
  <2>1. up \in [Conns -> BOOLEAN] /\ mu \in [Conns -> BOOLEAN]
        /\ decBad \in [Conns -> BOOLEAN]
    OBVIOUS
  <2> QED BY <1>1, <2>1 DEF StreamShape
<1>3. ProxyShape /\ WritersConnected
  BY ProxyAssumption DEF ProxyShape, WritersConnected
<1>4. ASSUME NEW t \in Conns PROVE EncoderOK(t, Writers(t))
  <2>1. Writers(t) = {}
    BY <1>4 DEF Writers
  <2>2. WellFramed(<<>>, Nothing) /\ Awaited(<<>>, Nothing, 0) = Nothing
    BY DEF WellFramed, Awaited
  <2>3. ~mu[t] /\ ~decBad[t] /\ wire[t] = <<>> /\ decHead[t] = Nothing
    BY <1>4
  <2> QED BY <1>1, <2>1, <2>2, <2>3 DEF EncoderOK
<1> QED BY <1>2, <1>3, <1>4 DEF WriterInv, EncodersOK

LEMMA EncodersOKNext ==
  ASSUME \A s \in Conns : \A V : V = Writers(s)' => EncoderOK(s, V)'
  PROVE  EncodersOK'
BY DEF EncodersOK, EncoderOK

(* A step that neither touches the streams nor begins or ends a frame.     *)
LEMMA SameWritersNext ==
  ASSUME WriterInv, UNCHANGED streamVars,
         \A s \in Conns : Writers(s)' = Writers(s)
  PROVE  StreamShape' /\ EncodersOK'
<1>1. StreamShape'
  BY DEF WriterInv, StreamShape, streamVars
<1>2. ASSUME NEW s \in Conns, NEW V, V = Writers(s)' PROVE EncoderOK(s, V)'
  <2>1. EncoderOK(s, V)
    BY <1>2 DEF WriterInv, EncodersOK
  <2> QED BY <2>1 DEF EncoderOK, streamVars
<1> QED BY <1>1, <1>2, EncodersOKNext

(* A write of the header of m on the stream t.                             *)
LEMMA HeaderNext ==
  ASSUME WriterInv, NEW t \in Conns, NEW m \in Messages, EncodeHeader(t, m),
         Writers(t)' = Writers(t) \cup (IF m \in Empty THEN {} ELSE {m}),
         \A s \in Conns \ {t} : Writers(s)' = Writers(s)
  PROVE  StreamShape' /\ EncodersOK'
<1>1. StreamShape /\ EncoderOK(t, Writers(t))
  BY DEF WriterInv, EncodersOK
<1>2. StreamShape' /\ Writers(t) = {} /\ EncoderOK(t, IF m \in Empty THEN {} ELSE {m})'
  BY <1>1, HeaderStep
<1>3. ASSUME NEW s \in Conns, NEW V, V = Writers(s)' PROVE EncoderOK(s, V)'
  <2>1. CASE s = t
    <3>1. V = IF m \in Empty THEN {} ELSE {m}
      BY <1>2, <1>3, <2>1
    <3> QED BY <1>2, <2>1, <3>1
  <2>2. CASE s # t
    <3>1. EncoderOK(s, V)
      BY <1>3, <2>2 DEF WriterInv, EncodersOK
    <3> QED BY <1>1, <2>2, <3>1, OtherStreams
  <2> QED BY <2>1, <2>2
<1> QED BY <1>2, <1>3, EncodersOKNext

(* The frame that the goroutine of m has begun on the stream t ends.       *)
LEMMA BodyNext ==
  ASSUME WriterInv, NEW t \in Conns, NEW m \in Writers(t),
         EncodeBody(t, m) \/ EncodeFails(t, TRUE),
         Writers(t)' = Writers(t) \ {m},
         \A s \in Conns \ {t} : Writers(s)' = Writers(s)
  PROVE  StreamShape' /\ EncodersOK'
<1>1. StreamShape /\ EncoderOK(t, Writers(t)) /\ m \in Messages
  BY DEF WriterInv, EncodersOK, Writers
<1>2. Writers(t) = {m}
  BY <1>1 DEF EncoderOK
<1>3. EncoderOK(t, {m})
  BY <1>1, <1>2
<1>4. StreamShape' /\ EncoderOK(t, {})'
  BY <1>1, <1>3, BodyStep, FailStep
<1>5. ASSUME NEW s \in Conns, NEW V, V = Writers(s)' PROVE EncoderOK(s, V)'
  <2>1. CASE s = t
    <3>1. V = {}
      BY <1>2, <1>5, <2>1
    <3> QED BY <1>4, <2>1, <3>1
  <2>2. CASE s # t
    <3>1. EncoderOK(s, V)
      BY <1>5, <2>2 DEF WriterInv, EncodersOK
    <3> QED BY <1>1, <2>2, <3>1, OtherStreams
  <2> QED BY <2>1, <2>2
<1> QED BY <1>4, <1>5, EncodersOKNext

(* A goroutine that has not begun a frame finds the session closed.        *)
LEMMA NotBegunNext ==
  ASSUME WriterInv, NEW t \in Conns, EncodeFails(t, FALSE),
         \A s \in Conns : Writers(s)' = Writers(s)
  PROVE  StreamShape' /\ EncodersOK'
<1>1. StreamShape /\ EncoderOK(t, Writers(t))
  BY DEF WriterInv, EncodersOK
<1>2. StreamShape' /\ Writers(t) = {} /\ EncoderOK(t, {})'
  BY <1>1, FailStep
<1>3. ASSUME NEW s \in Conns, NEW V, V = Writers(s)' PROVE EncoderOK(s, V)'
  <2>1. CASE s = t
    <3>1. V = {}
      BY <1>2, <1>3, <2>1
    <3> QED BY <1>2, <2>1, <3>1
  <2>2. CASE s # t
    <3>1. EncoderOK(s, V)
      BY <1>3, <2>2 DEF WriterInv, EncodersOK
    <3> QED BY <1>1, <2>2, <3>1, OtherStreams
  <2> QED BY <2>1, <2>2
<1> QED BY <1>2, <1>3, EncodersOKNext

(* The client decodes, or either end closes the session.                   *)
LEMMA ClientNext ==
  ASSUME WriterInv, NEW t \in Conns,
         DecodeHeader(t) \/ DecodeBody(t) \/ SessionCloses(t),
         \A s \in Conns : Writers(s)' = Writers(s)
  PROVE  StreamShape' /\ EncodersOK'
<1>1. StreamShape /\ EncoderOK(t, Writers(t))
  BY DEF WriterInv, EncodersOK
<1>2. PICK W : W = Writers(t)
  OBVIOUS
<1>3. StreamShape' /\ EncoderOK(t, W)'
  BY <1>1, <1>2, DecodeStep, CloseStep
<1>4. ASSUME NEW s \in Conns, NEW V, V = Writers(s)' PROVE EncoderOK(s, V)'
  <2>1. CASE s = t
    <3>1. V = W
      BY <1>2, <1>4, <2>1
    <3> QED BY <1>3, <2>1, <3>1
  <2>2. CASE s # t
    <3>1. EncoderOK(s, V)
      BY <1>4, <2>2 DEF WriterInv, EncodersOK
    <3> QED BY <1>1, <2>2, <3>1, OtherStreams
  <2> QED BY <2>1, <2>2
<1> QED BY <1>3, <1>4, EncodersOKNext

LEMMA WriterNext == WriterInv /\ [Next]_vars => WriterInv'
<1> SUFFICES ASSUME WriterInv, [Next]_vars PROVE WriterInv'
  OBVIOUS
<1>0. ProxyShape /\ WritersConnected
  BY DEF WriterInv
<1> USE <1>0 DEF ProxyShape, WritersConnected
<1>a. /\ "resp" \in Messages /\ "ack" \in Messages /\ Entries \subseteq Messages
      /\ "resp" \notin Empty /\ "ack" \in Empty /\ Entries \cap Empty = {}
      /\ "resp" \notin Entries
  BY MessageNames
<1>b. TunnelOf \in [Entries -> Tunnels] /\ Conns \subseteq Tunnels /\ MaxAcks \in Nat
  BY LogAssumption, ProxyAssumption
<1>1. ASSUME NEW e \in Entries, Lookup(e) \/ Exchanged(e) \/ Aborted(e) PROVE WriterInv'
  <2>1. \A s \in Conns : Writers(s)' = Writers(s)
    BY <1>1 DEF Lookup, Exchanged, Aborted, Goes, Writers
  <2>2. StreamShape' /\ EncodersOK'
    BY <1>1, <2>1, SameWritersNext DEF Lookup, Exchanged, Aborted
  <2>3. ProxyShape' /\ WritersConnected'
    BY <1>1 DEF Lookup, Exchanged, Aborted, Goes
  <2> QED BY <2>2, <2>3 DEF WriterInv
<1>2. ASSUME NEW e \in Entries, SendLogHeader(e) PROVE WriterInv'
  <2>1. TunnelOf[e] \in Conns /\ e \in Messages /\ e \notin Empty
    BY <1>2, <1>a DEF SendLogHeader, Goes
  <2>2. /\ Writers(TunnelOf[e])' = Writers(TunnelOf[e]) \cup {e}
        /\ \A s \in Conns \ {TunnelOf[e]} : Writers(s)' = Writers(s)
    BY <1>2, <1>a, <2>1 DEF SendLogHeader, Goes, Writers
  <2>3. StreamShape' /\ EncodersOK'
    BY <1>2, <2>1, <2>2, HeaderNext DEF SendLogHeader
  <2>4. ProxyShape' /\ WritersConnected'
    BY <1>2, <2>1 DEF SendLogHeader, Goes
  <2> QED BY <2>3, <2>4 DEF WriterInv
<1>3. ASSUME NEW e \in Entries, req[e] = "payload", Goes(e, "payload", "store"),
             UNCHANGED <<loop, acks, registered>>,
             EncodeBody(TunnelOf[e], e) \/ EncodeFails(TunnelOf[e], TRUE)
      PROVE  WriterInv'
  <2>1. TunnelOf[e] \in Conns /\ e \in Writers(TunnelOf[e])
    BY <1>3, <1>a DEF Writers
  <2>2. /\ Writers(TunnelOf[e])' = Writers(TunnelOf[e]) \ {e}
        /\ \A s \in Conns \ {TunnelOf[e]} : Writers(s)' = Writers(s)
    BY <1>3, <1>a, <2>1 DEF Goes, Writers
  <2>3. StreamShape' /\ EncodersOK'
    BY <1>3, <2>1, <2>2, BodyNext
  <2>4. ProxyShape' /\ WritersConnected'
    BY <1>3 DEF Goes
  <2> QED BY <2>3, <2>4 DEF WriterInv
<1>4. ASSUME NEW e \in Entries, Goes(e, "encode", "store"),
             UNCHANGED <<loop, acks, registered>>, EncodeFails(TunnelOf[e], FALSE)
      PROVE  WriterInv'
  <2>1. TunnelOf[e] \in Conns
    BY <1>4 DEF Goes
  <2>2. \A s \in Conns : Writers(s)' = Writers(s)
    BY <1>4 DEF Goes, Writers
  <2>3. StreamShape' /\ EncodersOK'
    BY <1>4, <2>1, <2>2, NotBegunNext
  <2>4. ProxyShape' /\ WritersConnected'
    BY <1>4 DEF Goes
  <2> QED BY <2>3, <2>4 DEF WriterInv
<1>5. ASSUME NEW e \in Entries, RequestStep(e) PROVE WriterInv'
  <2>1. CASE SendLogBody(e)
    BY <2>1, <1>3 DEF SendLogBody, Goes
  <2>2. CASE SendLogFails(e)
    BY <2>2, <1>3, <1>4 DEF SendLogFails, Goes
  <2>3. CASE Record(e)
    <3>1. \A s \in Conns : Writers(s)' = Writers(s)
      BY <2>3 DEF Record, Goes, Writers
    <3>2. StreamShape' /\ EncodersOK'
      BY <2>3, <3>1, SameWritersNext DEF Record
    <3>3. ProxyShape' /\ WritersConnected'
      BY <2>3 DEF Record, Goes
    <3> QED BY <3>2, <3>3 DEF WriterInv
  <2> QED BY <1>2, <1>5, <2>1, <2>2, <2>3 DEF RequestStep
<1>6. ASSUME NEW t \in Conns, Register(t) PROVE WriterInv'
  <2>1. \A s \in Conns : Writers(s)' = Writers(s)
    BY <1>6 DEF Register, LoopGoes, Writers
  <2>2. StreamShape' /\ EncodersOK'
    BY <1>6, <2>1, SameWritersNext DEF Register
  <2>3. ProxyShape' /\ WritersConnected'
    BY <1>6, <1>b DEF Register, LoopGoes
  <2> QED BY <2>2, <2>3 DEF WriterInv
<1>7. ASSUME NEW t \in Conns, Respond(t) PROVE WriterInv'
  <2>1. CASE LoopGoes(t, "respond", "payload") /\ EncodeHeader(t, "resp")
    <3>1. /\ Writers(t)' = Writers(t) \cup {"resp"}
          /\ \A s \in Conns \ {t} : Writers(s)' = Writers(s)
      BY <1>7, <2>1, <1>a DEF Respond, LoopGoes, Writers
    <3> QED BY <1>7, <2>1, <3>1, <1>a, HeaderNext DEF Respond, LoopGoes, WriterInv
  <2>2. CASE LoopGoes(t, "payload", "ready") /\ EncodeBody(t, "resp")
    <3>1. /\ Writers(t)' = Writers(t) \ {"resp"} /\ "resp" \in Writers(t)
          /\ \A s \in Conns \ {t} : Writers(s)' = Writers(s)
      BY <1>7, <2>2, <1>a DEF Respond, LoopGoes, Writers
    <3> QED BY <1>7, <2>2, <3>1, BodyNext DEF Respond, LoopGoes, WriterInv
  <2> QED BY <1>7, <2>1, <2>2 DEF Respond
<1>8. ASSUME NEW t \in Conns, Ack(t) PROVE WriterInv'
  <2>1. \A s \in Conns : Writers(s)' = Writers(s)
    BY <1>8 DEF Ack, Writers
  <2>2. StreamShape' /\ EncodersOK'
    BY <1>8, <2>1, <1>a, HeaderNext DEF Ack
  <2>3. ProxyShape' /\ WritersConnected'
    BY <1>8, <1>b DEF Ack
  <2> QED BY <2>2, <2>3 DEF WriterInv
<1>9. ASSUME NEW t \in Conns, LoopEnds(t) PROVE WriterInv'
  <2>1. ProxyShape' /\ WritersConnected'
    BY <1>9 DEF LoopEnds
  <2>2. CASE loop[t] = "payload"
    <3>1. /\ Writers(t)' = Writers(t) \ {"resp"} /\ "resp" \in Writers(t)
          /\ \A s \in Conns \ {t} : Writers(s)' = Writers(s)
      BY <1>9, <2>2, <1>a DEF LoopEnds, Writers
    <3>2. EncodeFails(t, TRUE)
      BY <1>9, <2>2 DEF LoopEnds, EncodeFails
    <3> QED BY <2>1, <3>1, <3>2, BodyNext DEF WriterInv
  <2>3. CASE loop[t] # "payload"
    <3>1. \A s \in Conns : Writers(s)' = Writers(s)
      BY <1>9, <2>3 DEF LoopEnds, Writers
    <3>2. EncodeFails(t, FALSE)
      BY <1>9, <2>3 DEF LoopEnds, EncodeFails
    <3> QED BY <2>1, <3>1, <3>2, NotBegunNext DEF WriterInv
  <2> QED BY <2>2, <2>3
<1>10. ASSUME NEW t \in Conns, Decode(t) \/ Disconnect(t) PROVE WriterInv'
  <2>1. \A s \in Conns : Writers(s)' = Writers(s)
    BY <1>10 DEF Decode, Disconnect, proxyVars, Writers
  <2>2. StreamShape' /\ EncodersOK'
    BY <1>10, <2>1, ClientNext DEF Decode, Disconnect
  <2>3. ProxyShape' /\ WritersConnected'
    BY <1>10 DEF Decode, Disconnect, proxyVars
  <2> QED BY <2>2, <2>3 DEF WriterInv
<1>11. CASE UNCHANGED <<streamVars, proxyVars>>
  <2>1. \A s \in Conns : Writers(s)' = Writers(s)
    BY <1>11 DEF proxyVars, Writers
  <2>2. StreamShape' /\ EncodersOK'
    BY <1>11, <2>1, SameWritersNext
  <2>3. ProxyShape' /\ WritersConnected'
    BY <1>11 DEF proxyVars
  <2> QED BY <2>2, <2>3 DEF WriterInv
<1>12. ASSUME NEW e \in Entries, LogStep(e) PROVE WriterInv'
  BY <1>11, <1>12 DEF LogStep
<1>13. ASSUME NEW h \in Streams, ViewStep(h) PROVE WriterInv'
  BY <1>11, <1>13 DEF ViewStep
<1>14. CASE Finished \/ UNCHANGED vars
  BY <1>11, <1>14 DEF Finished, vars
<1> QED
  BY <1>1, <1>5, <1>6, <1>7, <1>8, <1>9, <1>10, <1>12, <1>13, <1>14
  DEF Next, LoopStep

(* Seen from the request log, every step of the composition is a step of   *)
(* the log or leaves it alone.                                             *)
LEMMA NextIsLogNext == [Next]_vars => [LogNext]_logVars
BY DEF Next, vars, LogNext, Lookup, Exchanged, Aborted, RequestStep, SendLogHeader,
       SendLogBody, SendLogFails, Record, LogStep, Register, Ack, LoopStep, Respond,
       LoopEnds, Decode, Disconnect, ViewStep, Finished

(* Type correctness of the HTTP proxy's goroutines: the ring position, the *)
(* channels and the control streams stay within their sizes.               *)
THEOREM ProxyTypes == Spec => []TypeOK
<1>1. LogShape /\ WriterInv => TypeOK
  BY LogShapeTypes DEF WriterInv, StreamShape, ProxyShape, TypeOK, StreamTypeOK, StreamUnits
<1>2. Init => LogShape /\ WriterInv
  BY LogInitShape, WriterInit DEF Init
<1>3. LogShape /\ WriterInv /\ [Next]_vars => (LogShape /\ WriterInv)'
  BY LogNextShape, WriterNext, NextIsLogNext
<1> QED BY <1>1, <1>2, <1>3, PTL DEF Spec

(* The client decodes exactly the frames that were encoded, for any number *)
(* of requests and message loops that share an encoder.                    *)
THEOREM FramesStayIntact == Spec => []FramesIntact
<1>1. WriterInv => FramesIntact
  BY DEF WriterInv, EncodersOK, EncoderOK, FramesIntact
<1> QED BY <1>1, WriterInit, WriterNext, PTL DEF Spec

(* No goroutine of the request log ever sends on a closed channel or       *)
(* closes one twice, however viewers come and go while requests end.       *)
THEOREM RequestLogNeverPanics == Spec => []NoPanic
<1>1. Init => LogShape /\ ChannelInv
  BY LogInitShape, LogInitChannels DEF Init
<1>2. LogShape /\ ChannelInv /\ [Next]_vars => (LogShape /\ ChannelInv)'
  BY LogNextShape, LogNextChannels, NextIsLogNext
<1>3. ChannelInv => NoPanic
  BY DEF ChannelInv
<1> QED BY <1>1, <1>2, <1>3, PTL DEF Spec

---------------------------------------------------------------------------
(* The ring.                                                               *)

(* Until it has wrapped the ring holds the log from its first place on;    *)
(* afterwards the places before pos hold the newest entries and those from *)
(* pos on the MaxLogEntries - pos entries before them.                     *)
RingInv ==
  /\ log \in Seq(Entries)
  /\ entries \in [0..MaxLogEntries - 1 -> Entries \cup {None}]
  /\ pos \in 0..MaxLogEntries - 1 /\ full \in BOOLEAN
  /\ IF full
     THEN /\ Len(log) >= MaxLogEntries
          /\ \A i \in 0..MaxLogEntries - 1 :
               entries[i] = IF i < pos THEN log[Len(log) - pos + i + 1]
                            ELSE log[Len(log) - pos - MaxLogEntries + i + 1]
     ELSE /\ Len(log) = pos
          /\ \A i \in 0..pos - 1 : entries[i] = log[i + 1]

LEMMA SmallMod ==
  ASSUME NEW x \in Nat, x < 2 * MaxLogEntries
  PROVE  x % MaxLogEntries = IF x < MaxLogEntries THEN x ELSE x - MaxLogEntries
BY LogAssumption

LEMMA LogInitRing == LogInit => RingInv
<1> SUFFICES ASSUME LogInit PROVE RingInv
  OBVIOUS
<1> USE DEF LogInit
<1>1. full \in BOOLEAN /\ ~full
  OBVIOUS
<1>2. log \in Seq(Entries) /\ Len(log) = pos /\ pos = 0
  OBVIOUS
<1>3. entries \in [0..MaxLogEntries - 1 -> Entries \cup {None}] /\ pos \in 0..MaxLogEntries - 1
  BY LogAssumption
<1> QED BY <1>1, <1>2, <1>3 DEF RingInv

LEMMA LogNextRing == RingInv /\ [LogNext]_logVars => RingInv'
<1> SUFFICES ASSUME RingInv, [LogNext]_logVars PROVE RingInv'
  OBVIOUS
<1>1. ASSUME NEW e \in Entries, Store(e) PROVE RingInv'
  <2> DEFINE M == MaxLogEntries
             n == Len(log)
  <2>1. M \in Nat \ {0} /\ n \in Nat /\ pos \in 0..M - 1
    BY LogAssumption, LenProperties DEF RingInv
  <2>2. /\ log' \in Seq(Entries) /\ Len(log') = n + 1 /\ log'[n + 1] = e
        /\ \A i \in 1..n : log'[i] = log[i]
    BY <1>1, AppendProperties DEF Store, RingInv
  <2>3. /\ entries' \in [0..M - 1 -> Entries \cup {None}] /\ entries'[pos] = e
        /\ \A i \in 0..M - 1 : i # pos => entries'[i] = entries[i]
    BY <1>1, <2>1 DEF Store, RingInv
  <2>4. full' \in BOOLEAN /\ (full' <=> full \/ pos + 1 = M)
    <3>1. full' = (full \/ pos + 1 >= M)
      BY <1>1 DEF Store
    <3>2. (pos + 1 >= M) <=> (pos + 1 = M)
      BY <2>1
    <3> QED BY <3>1, <3>2
  <2>5. pos' = IF pos + 1 = M THEN 0 ELSE pos + 1
    <3>1. pos' = (pos + 1) % M
      BY <1>1 DEF Store
    <3>2. pos + 1 \in Nat /\ pos + 1 < 2 * M
      BY <2>1
    <3>3. (pos + 1) % M = IF pos + 1 < M THEN pos + 1 ELSE (pos + 1) - M
      BY <3>2, SmallMod
    <3> QED BY <2>1, <3>1, <3>3
  <2>6. CASE full
    <3>1. /\ n >= M
          /\ \A i \in 0..M - 1 :
               entries[i] = IF i < pos THEN log[n - pos + i + 1]
                            ELSE log[n - pos - M + i + 1]
      BY <2>6 DEF RingInv
    <3> HIDE DEF M, n
    <3>2. ASSUME NEW i \in 0..M - 1
          PROVE  entries'[i] = IF i < pos' THEN log'[(n + 1) - pos' + i + 1]
                               ELSE log'[(n + 1) - pos' - M + i + 1]
      <4>1. CASE i = pos
        <5>1. CASE pos + 1 = M
          BY <2>1, <2>2, <2>3, <2>5, <4>1, <5>1
        <5>2. CASE pos + 1 # M
          BY <2>1, <2>2, <2>3, <2>5, <4>1, <5>2
        <5> QED BY <5>1, <5>2
      <4>2. CASE i < pos
        <5>1. entries'[i] = log[n - pos + i + 1] /\ n - pos + i + 1 \in 1..n
          <6>1. i # pos /\ n - pos + i + 1 \in 1..n
            BY <2>1, <3>1, <4>2
          <6> QED BY <2>3, <3>1, <4>2, <6>1
        <5>2. entries'[i] = log'[n - pos + i + 1]
          BY <2>2, <5>1
        <5>3. CASE pos + 1 = M
          <6>1. pos' = 0 /\ (n + 1) - pos' - M + i + 1 = n - pos + i + 1 /\ ~(i < pos')
            BY <2>1, <2>5, <5>3
          <6> QED BY <5>2, <6>1
        <5>4. CASE pos + 1 # M
          <6>1. pos' = pos + 1 /\ (n + 1) - pos' + i + 1 = n - pos + i + 1 /\ i < pos'
            BY <2>1, <2>5, <4>2, <5>4
          <6> QED BY <5>2, <6>1
        <5> QED BY <5>3, <5>4
      <4>3. CASE i > pos
        <5>1. entries'[i] = log[n - pos - M + i + 1] /\ n - pos - M + i + 1 \in 1..n
          <6>1. i # pos /\ ~(i < pos) /\ n - pos - M + i + 1 \in 1..n
            BY <2>1, <3>1, <4>3
          <6> QED BY <2>3, <3>1, <6>1
        <5>2. entries'[i] = log'[n - pos - M + i + 1]
          BY <2>2, <5>1
        <5>3. pos' = pos + 1 /\ (n + 1) - pos' - M + i + 1 = n - pos - M + i + 1 /\ ~(i < pos')
          BY <2>1, <2>5, <4>3
        <5> QED BY <5>2, <5>3
      <4> QED BY <2>1, <4>1, <4>2, <4>3
    <3>3. pos' \in 0..M - 1 /\ n + 1 >= M
      BY <2>1, <2>5, <3>1
    <3> QED BY <2>2, <2>3, <2>4, <2>6, <3>2, <3>3 DEF RingInv, M, n
  <2>7. CASE ~full
    <3>1. n = pos /\ \A i \in 0..pos - 1 : entries[i] = log[i + 1]
      BY <2>7 DEF RingInv
    <3>2. \A i \in 0..pos : entries'[i] = log'[i + 1]
      BY <2>1, <2>2, <2>3, <3>1
    <3>3. CASE pos + 1 = M
      <4>1. pos' = 0 /\ full' /\ n + 1 = M
        BY <2>4, <2>5, <3>1, <3>3
      <4> HIDE DEF M, n
      <4>2. ASSUME NEW i \in 0..M - 1
            PROVE  entries'[i] = IF i < pos' THEN log'[(n + 1) - pos' + i + 1]
                                 ELSE log'[(n + 1) - pos' - M + i + 1]
        <5>1. i \in 0..pos /\ ~(i < pos') /\ (n + 1) - pos' - M + i + 1 = i + 1
          BY <2>1, <3>3, <4>1
        <5> QED BY <3>2, <5>1
      <4>3. pos' \in 0..M - 1 /\ n + 1 >= M
        BY <2>1, <4>1
      <4> QED BY <2>2, <2>3, <2>4, <4>1, <4>2, <4>3 DEF RingInv, M, n
    <3>4. CASE pos + 1 # M
      <4>1. pos' = pos + 1 /\ ~full' /\ pos' \in 0..M - 1
        BY <2>1, <2>4, <2>5, <2>7, <3>4
      <4>2. n + 1 = pos' /\ \A i \in 0..pos' - 1 : entries'[i] = log'[i + 1]
        BY <2>1, <3>1, <3>2, <4>1
      <4> QED BY <2>2, <2>3, <2>4, <4>1, <4>2 DEF RingInv
    <3> QED BY <3>3, <3>4
  <2> QED BY <2>6, <2>7
<1>2. CASE UNCHANGED ringVars
  <2>1. UNCHANGED <<entries, pos, full, log>>
    BY <1>2 DEF ringVars
  <2> QED BY <2>1 DEF RingInv
<1>3. ASSUME NEW e \in Entries, AddStep(e) PROVE RingInv'
  BY <1>2, <1>3 DEF AddStep, FanOut, FanOutSend
<1>4. ASSUME NEW h \in Streams, StreamStep(h) PROVE RingInv'
  BY <1>2, <1>4
  DEF StreamStep, LeaveStep, ForwardStep, Subscribe, ShowEntry, ViewerLeaves,
      Unsubscribe, CloseSrc, Forward, ForwardSend, ForwardEnds
<1>5. CASE UNCHANGED logVars
  BY <1>2, <1>5 DEF logVars, ringVars
<1> QED BY <1>1, <1>3, <1>4, <1>5 DEF LogNext

(* What snapshot reads off the ring is the end of the log, newest first.   *)
LEMMA SnapshotIsNewest ==
  ASSUME RingInv
  PROVE  /\ snapshot = Newest(log, MaxLogEntries) /\ snapshot \in Seq(Entries)
         /\ \E k \in 0..Len(log) : snapshot = [j \in 1..k |-> log[Len(log) - j + 1]]
<1> DEFINE M == MaxLogEntries
           n == Len(log)
           k == IF M < n THEN M ELSE n
           size == IF full THEN M ELSE pos
           first == IF full THEN pos ELSE 0
           ring == [i \in 1..size |-> entries[(first + i - 1) % M]]
<1>1. M \in Nat \ {0} /\ n \in Nat /\ pos \in 0..M - 1 /\ full \in BOOLEAN
  BY LogAssumption, LenProperties DEF RingInv
<1>2. /\ snapshot = Reverse(ring)
      /\ ring = [i \in 1..size |-> entries[(first + i - 1) % M]]
  BY DEF snapshot
<1>3. ASSUME full
      PROVE  /\ first = pos /\ size = M /\ k = M /\ n >= M
             /\ \A i \in 0..M - 1 :
                  entries[i] = IF i < pos THEN log[n - pos + i + 1]
                               ELSE log[n - pos - M + i + 1]
  BY <1>1, <1>3 DEF RingInv
<1>4. ASSUME ~full
      PROVE  /\ first = 0 /\ size = n /\ k = n /\ n = pos
             /\ \A i \in 0..pos - 1 : entries[i] = log[i + 1]
  BY <1>1, <1>4 DEF RingInv
<1>5. Newest(log, M) = SubSeq(Reverse(log), 1, k)
  BY DEF Newest
<1> HIDE DEF size, first, k, ring, n, M
<1>6. size = k /\ k \in Nat /\ k <= n /\ first \in 0..M - 1 /\ k <= M
  BY <1>1, <1>3, <1>4
<1>7. ASSUME NEW j \in 1..k
      PROVE  entries[(first + (k - j + 1) - 1) % M] = log[n - j + 1]
  <2> DEFINE x == first + (k - j + 1) - 1
  <2>1. x \in Nat /\ x < 2 * M
    BY <1>1, <1>6
  <2> HIDE DEF x
  <2>2. x % M = IF x < M THEN x ELSE x - M
    BY <2>1, SmallMod DEF M
  <2>3. CASE full
    <3>1. x = pos + M - j
      BY <1>1, <1>3, <1>6, <2>3 DEF x
    <3>2. CASE x < M
      <4>1. x \in 0..M - 1 /\ ~(x < pos) /\ n - pos - M + x + 1 = n - j + 1
        BY <1>1, <1>3, <1>7, <2>1, <2>3, <3>1, <3>2
      <4>2. entries[x] = log[n - j + 1]
        BY <1>3, <2>3, <4>1
      <4> QED BY <2>2, <3>2, <4>2 DEF x
    <3>3. CASE ~(x < M)
      <4>1. x - M \in 0..M - 1 /\ x - M < pos /\ n - pos + (x - M) + 1 = n - j + 1
        BY <1>1, <1>3, <1>7, <2>1, <2>3, <3>1, <3>3
      <4>2. entries[x - M] = log[n - j + 1]
        BY <1>3, <2>3, <4>1
      <4> QED BY <2>2, <3>3, <4>2 DEF x
    <3> QED BY <3>2, <3>3
  <2>4. CASE ~full
    <3>1. x = n - j /\ x \in 0..pos - 1 /\ x < M /\ x + 1 = n - j + 1
      BY <1>1, <1>4, <1>6, <2>4 DEF x
    <3> QED BY <1>4, <2>2, <2>4, <3>1 DEF x
  <2> QED BY <2>3, <2>4
<1>8. snapshot = [j \in 1..k |-> log[n - j + 1]]
  <2>1. Len(ring) = k
    BY <1>2, <1>6
  <2>2. Reverse(ring) = [j \in 1..k |-> ring[(k - j) + 1]]
    BY <2>1 DEF Reverse
  <2>3. ASSUME NEW j \in 1..k PROVE ring[(k - j) + 1] = log[n - j + 1]
    <3>1. (k - j) + 1 \in 1..size
      BY <1>6
    <3>2. ring[(k - j) + 1] = entries[(first + ((k - j) + 1) - 1) % M]
      BY <1>2, <3>1
    <3> QED BY <1>7, <3>2
  <2> QED BY <1>2, <2>2, <2>3
<1>9. Newest(log, M) = [j \in 1..k |-> log[n - j + 1]]
  <2>1. Reverse(log) \in Seq(Entries) /\ Len(Reverse(log)) = n
        /\ \A j \in 1..n : Reverse(log)[j] = log[n - j + 1]
    BY <1>1 DEF Reverse, RingInv, n
  <2>2. SubSeq(Reverse(log), 1, k) = [j \in 1..k |-> Reverse(log)[j]]
    BY <1>6, <2>1
  <2>3. \A j \in 1..k : j \in 1..n
    BY <1>1, <1>6
  <2> QED BY <1>5, <2>1, <2>2, <2>3
<1>10. \A j \in 1..k : log[n - j + 1] \in Entries
  BY <1>1, <1>6 DEF RingInv, n
<1>11. [j \in 1..k |-> log[n - j + 1]] \in Seq(Entries)
  BY <1>6, <1>10
<1>12. k \in 0..n
  BY <1>1, <1>6
<1> QED BY <1>8, <1>9, <1>11, <1>12 DEF M, n

---------------------------------------------------------------------------
(* Filtering a sequence of entries.                                        *)

(* The least-number principle, by which facts about sequences of every     *)
(* length are proved below: of the lengths for which such a fact fails     *)
(* there would be a least one.                                             *)
LEMMA LeastNatural ==
  ASSUME NEW T \in SUBSET Nat, T # {}
  PROVE  \E m \in T : \A k \in T : m <= k
<1> DEFINE R == {ss \in Nat \X Nat : ss[1] < ss[2]}
<1>1. IsWellFoundedOn(R, Nat)
  BY NatLessThanWellFounded DEF OpToRel
<1>2. \A k, m \in Nat : <<k, m>> \notin R => m <= k
  OBVIOUS
<1> HIDE DEF R
<1>3. \E m \in T : \A k \in T : ~(<<k, m>> \in R)
  BY <1>1, WFMin
<1> QED BY <1>2, <1>3

(* Induction over an initial segment, with the property as a set.          *)
LEMMA SegmentInduction ==
  ASSUME NEW n \in Nat, NEW G, 0 \in G,
         \A k \in 1..n : k - 1 \in G => k \in G
  PROVE  \A k \in 0..n : k \in G
<1> DEFINE T == {k \in 0..n : k \notin G}
<1> SUFFICES ASSUME T # {} PROVE FALSE
  OBVIOUS
<1>1. T \in SUBSET Nat
  OBVIOUS
<1>2. PICK m \in T : \A k \in T : m <= k
  <2> HIDE DEF T
  <2> QED BY <1>1, LeastNatural
<1>3. m \in 1..n /\ m - 1 \in 0..n /\ m - 1 \notin T
  BY <1>2
<1> QED BY <1>3

(* f[i] is what the loop of Only has kept of the first i elements of s.    *)
Keeps(f, s, filter, n) ==
  f = [i \in 0..n |->
         IF i = 0 THEN <<>>
         ELSE IF TunnelOf[s[i]] \in filter THEN Append(f[i - 1], s[i])
         ELSE f[i - 1]]

LEMMA OnlyIsKept ==
  ASSUME NEW s, NEW filter
  PROVE  Only(s, filter) = (CHOOSE f : Keeps(f, s, filter, Len(s)))[Len(s)]
BY DEF Only, Keeps

LEMMA KeepsStep ==
  ASSUME NEW s, NEW filter, NEW n \in Nat, NEW f, Keeps(f, s, filter, n)
  PROVE  /\ DOMAIN f = 0..n /\ f[0] = <<>>
         /\ \A i \in 1..n :
              f[i] = IF TunnelOf[s[i]] \in filter THEN Append(f[i - 1], s[i])
                     ELSE f[i - 1]
<1> DEFINE g == [i \in 0..n |->
                   IF i = 0 THEN <<>>
                   ELSE IF TunnelOf[s[i]] \in filter THEN Append(f[i - 1], s[i])
                   ELSE f[i - 1]]
<1>1. f = g
  BY DEF Keeps
<1>2. DOMAIN g = 0..n /\ g[0] = <<>>
  OBVIOUS
<1>3. ASSUME NEW i \in 1..n
      PROVE  g[i] = IF TunnelOf[s[i]] \in filter THEN Append(f[i - 1], s[i])
                    ELSE f[i - 1]
  <2>1. i \in 0..n /\ i # 0
    OBVIOUS
  <2> QED BY <2>1
<1> HIDE DEF g
<1> QED BY <1>1, <1>2, <1>3

LEMMA KeepsNone ==
  ASSUME NEW s, NEW filter, NEW n \in Nat, NEW f, Keeps(f, s, filter, n)
  PROVE  f[0] = <<>>
<1>1. /\ DOMAIN f = 0..n /\ f[0] = <<>>
      /\ \A i \in 1..n :
           f[i] = IF TunnelOf[s[i]] \in filter THEN Append(f[i - 1], s[i])
                  ELSE f[i - 1]
  BY KeepsStep
<1> QED BY <1>1

LEMMA KeepsExists ==
  ASSUME NEW s, NEW filter, NEW n \in Nat
  PROVE  \E f : Keeps(f, s, filter, n)
<1> DEFINE G == {k \in 0..n : \E f : Keeps(f, s, filter, k)}
<1>1. 0 \in G
  <2>1. Keeps([i \in 0..0 |-> <<>>], s, filter, 0)
    BY DEF Keeps
  <2> QED BY <2>1
<1>2. ASSUME NEW k \in 1..n, k - 1 \in G PROVE k \in G
  <2>1. PICK g : Keeps(g, s, filter, k - 1)
    BY <1>2
  <2>2. /\ DOMAIN g = 0..k - 1 /\ g[0] = <<>>
        /\ \A i \in 1..k - 1 :
             g[i] = IF TunnelOf[s[i]] \in filter THEN Append(g[i - 1], s[i])
                    ELSE g[i - 1]
    BY <2>1, KeepsStep
  <2> DEFINE last == IF TunnelOf[s[k]] \in filter THEN Append(g[k - 1], s[k])
                     ELSE g[k - 1]
             f == [i \in 0..k |-> IF i = k THEN last ELSE g[i]]
  <2>3. ASSUME NEW i \in 0..k
        PROVE  f[i] = IF i = 0 THEN <<>>
                      ELSE IF TunnelOf[s[i]] \in filter THEN Append(f[i - 1], s[i])
                      ELSE f[i - 1]
    <3>1. CASE i = 0
      BY <2>2, <3>1
    <3>2. CASE i = k
      <4>1. f[i] = last /\ f[i - 1] = g[k - 1] /\ i # 0
        BY <3>2
      <4> QED BY <3>2, <4>1
    <3>3. CASE i \in 1..k - 1
      <4>1. f[i] = g[i] /\ f[i - 1] = g[i - 1] /\ i # 0
        BY <3>3
      <4> QED BY <2>2, <3>3, <4>1
    <3> QED BY <3>1, <3>2, <3>3
  <2>4. f = [i \in 0..k |-> f[i]]
    OBVIOUS
  <2> HIDE DEF f
  <2>5. Keeps(f, s, filter, k)
    BY <2>3, <2>4 DEF Keeps
  <2> QED BY <2>5
<1>3. \A k \in 0..n : k \in G
  <2> HIDE DEF G
  <2> QED BY <1>1, <1>2, SegmentInduction
<1> QED BY <1>3

(* What is kept of the first i elements depends on these only.             *)
LEMMA KeepsUnique ==
  ASSUME NEW s, NEW t, NEW filter, NEW m \in Nat, NEW n \in Nat, m <= n,
         NEW f, Keeps(f, s, filter, m), NEW g, Keeps(g, t, filter, n),
         \A i \in 1..m : s[i] = t[i]
  PROVE  f[m] = g[m]
<1> DEFINE G == {k \in 0..m : f[k] = g[k]}
<1>1. 0 \in G
  <2>1. f[0] = <<>>
    BY KeepsNone
  <2>2. g[0] = <<>>
    BY KeepsNone
  <2> QED BY <2>1, <2>2
<1>2. ASSUME NEW k \in 1..m, k - 1 \in G PROVE k \in G
  <2>1. f[k] = IF TunnelOf[s[k]] \in filter THEN Append(f[k - 1], s[k]) ELSE f[k - 1]
    BY KeepsStep
  <2>2. k \in 1..n
    OBVIOUS
  <2>3. g[k] = IF TunnelOf[t[k]] \in filter THEN Append(g[k - 1], t[k]) ELSE g[k - 1]
    BY <2>2, KeepsStep
  <2> QED BY <1>2, <2>1, <2>3
<1>3. \A k \in 0..m : k \in G
  <2> HIDE DEF G
  <2> QED BY <1>1, <1>2, SegmentInduction
<1> QED BY <1>3

LEMMA OnlyKeeps ==
  ASSUME NEW s \in Seq(Entries), NEW filter
  PROVE  \E f : Keeps(f, s, filter, Len(s)) /\ Only(s, filter) = f[Len(s)]
<1>1. Len(s) \in Nat
  OBVIOUS
<1>2. \E f : Keeps(f, s, filter, Len(s))
  BY <1>1, KeepsExists
<1>3. Keeps(CHOOSE f : Keeps(f, s, filter, Len(s)), s, filter, Len(s))
  BY <1>2
<1> QED BY <1>3, OnlyIsKept

LEMMA OnlyEmpty == \A filter : Only(<<>>, filter) = <<>>
<1> TAKE filter
<1>1. PICK f : Keeps(f, <<>>, filter, 0) /\ Only(<<>>, filter) = f[0]
  <2>1. <<>> \in Seq(Entries) /\ Len(<<>>) = 0
    OBVIOUS
  <2> QED BY <2>1, OnlyKeeps
<1>2. f[0] = <<>>
  <2>1. 0 \in Nat
    OBVIOUS
  <2> QED BY <1>1, <2>1, KeepsNone
<1> QED BY <1>1, <1>2

LEMMA OnlyAppend ==
  ASSUME NEW s \in Seq(Entries), NEW e \in Entries, NEW filter
  PROVE  Only(Append(s, e), filter) =
           IF TunnelOf[e] \in filter THEN Append(Only(s, filter), e)
           ELSE Only(s, filter)
<1> DEFINE x == Append(s, e)
           n == Len(s)
<1>1. /\ n \in Nat /\ x \in Seq(Entries) /\ Len(x) = n + 1 /\ x[n + 1] = e
      /\ \A i \in 1..n : s[i] = x[i]
  BY AppendProperties, LenProperties
<1> HIDE DEF x
<1>2. PICK f : Keeps(f, s, filter, n) /\ Only(s, filter) = f[n]
  BY OnlyKeeps
<1>3. PICK g : Keeps(g, x, filter, n + 1) /\ Only(x, filter) = g[n + 1]
  BY <1>1, OnlyKeeps
<1> HIDE DEF n
<1>4. n + 1 \in Nat /\ n <= n + 1 /\ n + 1 \in 1..n + 1 /\ (n + 1) - 1 = n
  BY <1>1
<1>5. f[n] = g[n]
  BY <1>1, <1>2, <1>3, <1>4, KeepsUnique
<1>6. g[n + 1] = IF TunnelOf[x[n + 1]] \in filter THEN Append(g[n], x[n + 1]) ELSE g[n]
  <2>1. \A i \in 1..n + 1 :
          g[i] = IF TunnelOf[x[i]] \in filter THEN Append(g[i - 1], x[i]) ELSE g[i - 1]
    BY <1>3, <1>4, KeepsStep
  <2> QED BY <1>4, <2>1
<1> QED BY <1>1, <1>2, <1>3, <1>5, <1>6 DEF x

(* Induction over sequences of entries, with the property as a set.        *)
LEMMA EntriesInduction ==
  ASSUME NEW G, <<>> \in G,
         \A s \in Seq(Entries), e \in Entries : s \in G => Append(s, e) \in G
  PROVE  \A s \in Seq(Entries) : s \in G
<1> SUFFICES ASSUME NEW s \in Seq(Entries) PROVE s \in G
  OBVIOUS
<1> DEFINE H == {k \in 0..Len(s) : SubSeq(s, 1, k) \in G}
<1>1. Len(s) \in Nat
  OBVIOUS
<1>2. 0 \in H
  <2>1. SubSeq(s, 1, 0) = <<>>
    BY SubSeqEmpty
  <2>2. SubSeq(s, 1, 0) \in G
    BY <2>1, Zenon
  <2>3. 0 \in 0..Len(s)
    BY <1>1
  <2> QED BY <2>2, <2>3, Zenon
<1>3. ASSUME NEW k \in 1..Len(s), k - 1 \in H PROVE k \in H
  <2> DEFINE u == SubSeq(s, 1, k - 1)
  <2>1. \A i \in 1..k - 1 : s[i] \in Entries
    BY <1>1
  <2>2. u \in Seq(Entries) /\ s[k] \in Entries
    BY <1>1, <2>1, SubSeqProperties
  <2>3. SubSeq(s, 1, k) = u \o <<s[k]>>
    <3>1. 1 \in 1..Len(s) /\ k \in 1..Len(s)
      BY <1>1
    <3> QED BY <3>1, SubSeqRecursiveSecond
  <2>4. Append(u, s[k]) = u \o <<s[k]>>
    BY <2>2, AppendIsConcat
  <2>5. u \in G
    BY <1>3
  <2> HIDE DEF u
  <2>6. SubSeq(s, 1, k) \in G
    BY <2>2, <2>3, <2>4, <2>5
  <2> QED BY <1>1, <2>6
<1>4. \A k \in 0..Len(s) : k \in H
  <2> HIDE DEF H
  <2> QED BY <1>1, <1>2, <1>3, SegmentInduction
<1>5. SubSeq(s, 1, Len(s)) \in G
  BY <1>1, <1>4
<1>6. SubSeq(s, 1, Len(s)) = s
  BY SubSeqFull
<1> QED BY <1>5, <1>6

Own(filter) == {e \in Entries : TunnelOf[e] \in filter}

LEMMA OnlyType ==
  ASSUME NEW s \in Seq(Entries), NEW filter
  PROVE  Only(s, filter) \in Seq(Own(filter)) /\ Only(s, filter) \in Seq(Entries)
<1> DEFINE G == {t \in Seq(Entries) : Only(t, filter) \in Seq(Own(filter))}
<1>1. <<>> \in G
  <2>1. <<>> \in Seq(Entries) /\ <<>> \in Seq(Own(filter))
    BY EmptySeq
  <2> QED BY <2>1, OnlyEmpty, Zenon
<1>2. ASSUME NEW t \in Seq(Entries), NEW e \in Entries, t \in G PROVE Append(t, e) \in G
  <2>1. Append(t, e) \in Seq(Entries)
    BY AppendProperties
  <2>2. Only(t, filter) \in Seq(Own(filter))
    BY <1>2
  <2>3. CASE TunnelOf[e] \in filter
    <3>1. e \in Own(filter)
      BY <2>3 DEF Own
    <3>2. Only(Append(t, e), filter) = Append(Only(t, filter), e)
      BY <2>3, OnlyAppend
    <3>3. Append(Only(t, filter), e) \in Seq(Own(filter))
      BY <2>2, <3>1, AppendProperties
    <3> QED BY <2>1, <3>2, <3>3
  <2>4. CASE TunnelOf[e] \notin filter
    BY <2>1, <2>2, <2>4, OnlyAppend
  <2> QED BY <2>3, <2>4
<1>3. s \in G
  <2> HIDE DEF G
  <2> QED BY <1>1, <1>2, EntriesInduction
<1>4. Own(filter) \subseteq Entries
  BY DEF Own
<1>5. Seq(Own(filter)) \subseteq Seq(Entries)
  BY <1>4, SeqMonotonic
<1> QED BY <1>3, <1>5

LEMMA AppendAtEnd ==
  ASSUME NEW s \in Seq(Entries), NEW t \in Seq(Entries), NEW e \in Entries
  PROVE  s \o Append(t, e) = Append(s \o t, e)
<1>1. Append(t, e) = t \o <<e>> /\ s \o t \in Seq(Entries) /\ <<e>> \in Seq(Entries)
  BY AppendIsConcat, ConcatProperties
<1>2. Append(s \o t, e) = (s \o t) \o <<e>>
  BY <1>1, AppendIsConcat
<1>3. (s \o t) \o <<e>> = s \o (t \o <<e>>)
  BY <1>1, ConcatAssociative
<1> QED BY <1>1, <1>2, <1>3

LEMMA OnlyConcat ==
  ASSUME NEW s \in Seq(Entries), NEW t \in Seq(Entries), NEW filter
  PROVE  Only(s \o t, filter) = Only(s, filter) \o Only(t, filter)
<1> DEFINE G == {u \in Seq(Entries) :
                   Only(s \o u, filter) = Only(s, filter) \o Only(u, filter)}
<1>0. Only(s, filter) \in Seq(Entries)
  BY OnlyType
<1>1. <<>> \in G
  <2>1. s \o <<>> = s
    BY ConcatEmptySeq
  <2>2. Only(s, filter) \o <<>> = Only(s, filter)
    BY <1>0, ConcatEmptySeq
  <2>3. Only(<<>>, filter) = <<>>
    BY OnlyEmpty
  <2>4. <<>> \in Seq(Entries)
    OBVIOUS
  <2> QED BY <2>1, <2>2, <2>3, <2>4, Zenon
<1>2. ASSUME NEW u \in Seq(Entries), NEW e \in Entries, u \in G PROVE Append(u, e) \in G
  <2>1. /\ Append(u, e) \in Seq(Entries) /\ s \o u \in Seq(Entries)
        /\ Only(u, filter) \in Seq(Entries)
    BY AppendProperties, ConcatProperties, OnlyType
  <2>2. s \o Append(u, e) = Append(s \o u, e)
    BY AppendAtEnd
  <2>3. Only(s \o u, filter) = Only(s, filter) \o Only(u, filter)
    BY <1>2
  <2>4. Only(s, filter) \o Append(Only(u, filter), e) =
          Append(Only(s, filter) \o Only(u, filter), e)
    BY <1>0, <2>1, AppendAtEnd
  <2>5. Only(Append(s \o u, e), filter) =
          IF TunnelOf[e] \in filter THEN Append(Only(s \o u, filter), e)
          ELSE Only(s \o u, filter)
    BY <2>1, OnlyAppend
  <2>6. Only(Append(u, e), filter) =
          IF TunnelOf[e] \in filter THEN Append(Only(u, filter), e)
          ELSE Only(u, filter)
    BY OnlyAppend
  <2>7. Only(s \o Append(u, e), filter) = Only(s, filter) \o Only(Append(u, e), filter)
    BY <2>2, <2>3, <2>4, <2>5, <2>6
  <2> QED BY <2>1, <2>7
<1>3. t \in G
  <2> HIDE DEF G
  <2> QED BY <1>1, <1>2, EntriesInduction
<1> QED BY <1>3

LEMMA OnlyOne ==
  ASSUME NEW e \in Entries, NEW filter
  PROVE  Only(<<e>>, filter) = IF TunnelOf[e] \in filter THEN <<e>> ELSE <<>>
<1>1. Append(<<>>, e) = <<e>> /\ <<>> \in Seq(Entries)
  OBVIOUS
<1>2. Only(Append(<<>>, e), filter) =
        IF TunnelOf[e] \in filter THEN Append(Only(<<>>, filter), e) ELSE Only(<<>>, filter)
  BY <1>1, OnlyAppend
<1>3. Only(<<>>, filter) = <<>>
  BY OnlyEmpty
<1> QED BY <1>1, <1>2, <1>3

LEMMA OnlyAll == \A s \in Seq(Entries) : Only(s, Tunnels) = s
<1> DEFINE G == {s \in Seq(Entries) : Only(s, Tunnels) = s}
<1>1. <<>> \in G
  BY OnlyEmpty
<1>2. ASSUME NEW s \in Seq(Entries), NEW e \in Entries, s \in G PROVE Append(s, e) \in G
  <2>1. Append(s, e) \in Seq(Entries)
    BY AppendProperties
  <2>2. TunnelOf[e] \in Tunnels
    BY LogAssumption
  <2>3. Only(Append(s, e), Tunnels) = Append(Only(s, Tunnels), e)
    BY <2>2, OnlyAppend
  <2> QED BY <1>2, <2>1, <2>3
<1>3. \A s \in Seq(Entries) : s \in G
  <2> HIDE DEF G
  <2> QED BY <1>1, <1>2, EntriesInduction
<1> QED BY <1>3

---------------------------------------------------------------------------
(* Recent.                                                                 *)
LEMMA ReverseTwice ==
  ASSUME NEW s \in Seq(Entries)
  PROVE  Reverse(Reverse(s)) = s /\ Len(Reverse(s)) = Len(s)
<1> DEFINE r == Reverse(s)
           n == Len(s)
<1>1. n \in Nat /\ \A i \in 1..n : s[i] \in Entries
  OBVIOUS
<1>2. r \in Seq(Entries) /\ Len(r) = n /\ \A i \in 1..n : r[i] = s[(n - i) + 1]
  BY <1>1 DEF Reverse
<1> HIDE DEF r, n
<1>3. Reverse(r) \in Seq(Entries) /\ Len(Reverse(r)) = n
      /\ \A i \in 1..n : Reverse(r)[i] = r[(n - i) + 1]
  BY <1>1, <1>2 DEF Reverse
<1>4. \A i \in 1..n : (n - i) + 1 \in 1..n /\ (n - ((n - i) + 1)) + 1 = i
  BY <1>1
<1>5. \A i \in 1..n : Reverse(r)[i] = s[i]
  BY <1>2, <1>3, <1>4
<1>6. Reverse(r) = s
  BY <1>3, <1>5, SeqEqual DEF n
<1> QED BY <1>2, <1>6 DEF r, n

LEMMA RingGivesRecent == RingInv => RecentIsNewest
<1> SUFFICES ASSUME RingInv, NEW limit \in 0..MaxLogEntries,
                    NEW filter \in {Filter[h] : h \in Streams}
             PROVE  Recent(limit, filter) =
                      IF limit = 0 THEN Only(Newest(log, MaxLogEntries), filter)
                      ELSE Newest(Reverse(Only(Newest(log, MaxLogEntries), filter)), limit)
  BY DEF RecentIsNewest
<1> DEFINE all == Only(snapshot, filter)
<1>1. snapshot = Newest(log, MaxLogEntries) /\ snapshot \in Seq(Entries)
  BY SnapshotIsNewest
<1>2. all \in Seq(Entries) /\ Len(all) \in Nat /\ limit \in Nat
  <2>1. all \in Seq(Entries)
    BY <1>1, OnlyType
  <2> QED BY <2>1, LogAssumption, LenProperties
<1>3. Recent(limit, filter) =
        IF limit = 0 \/ limit >= Len(all) THEN all ELSE SubSeq(all, 1, limit)
  BY DEF Recent
<1>4. Newest(Reverse(all), limit) =
        SubSeq(Reverse(Reverse(all)), 1,
               IF limit < Len(Reverse(all)) THEN limit ELSE Len(Reverse(all)))
  BY DEF Newest
<1> HIDE DEF all
<1>5. Newest(Reverse(all), limit) =
        SubSeq(all, 1, IF limit < Len(all) THEN limit ELSE Len(all))
  BY <1>2, <1>4, ReverseTwice
<1>6. SubSeq(all, 1, Len(all)) = all
  BY <1>2, SubSeqFull
<1>7. Recent(limit, filter) = IF limit = 0 THEN all ELSE Newest(Reverse(all), limit)
  <2>1. CASE limit = 0
    BY <1>3, <2>1
  <2>2. CASE limit # 0 /\ limit >= Len(all)
    <3>1. ~(limit < Len(all))
      BY <1>2, <2>2
    <3> QED BY <1>3, <1>5, <1>6, <2>2, <3>1
  <2>3. CASE limit # 0 /\ ~(limit >= Len(all))
    <3>1. limit < Len(all)
      BY <1>2, <2>3
    <3> QED BY <1>3, <1>5, <2>3, <3>1
  <2> QED BY <2>1, <2>2, <2>3
<1> QED BY <1>1, <1>7 DEF all

(* Recent returns the newest entries of a key and no others, however often *)
(* the ring has wrapped, for any size of the ring and any limit.           *)
THEOREM RecentShowsNewest == Spec => []RecentIsNewest
<1>1. Init => RingInv
  BY LogInitRing DEF Init
<1>2. RingInv /\ [Next]_vars => RingInv'
  BY LogNextRing, NextIsLogNext
<1> QED BY <1>1, <1>2, RingGivesRecent, PTL DEF Spec

---------------------------------------------------------------------------
(* TrafficStats.                                                           *)

(* Add stores an entry once.                                               *)
StoredOnce ==
  /\ log \in Seq(Entries) /\ adding \in [Entries -> {"no", "stored", "sending", "added"}]
  /\ \A i, j \in 1..Len(log) : log[i] = log[j] => i = j
  /\ \A i \in 1..Len(log) : adding[log[i]] # "no"

LEMMA LogInitOnce == LogInit => StoredOnce
BY DEF LogInit, StoredOnce

LEMMA LogNextOnce == LogShape /\ StoredOnce /\ [LogNext]_logVars => StoredOnce'
<1> SUFFICES ASSUME LogShape, StoredOnce, [LogNext]_logVars PROVE StoredOnce'
  OBVIOUS
<1>0. adding' \in [Entries -> {"no", "stored", "sending", "added"}]
  BY LogNextShape DEF LogShape
<1>1. ASSUME NEW e \in Entries, Store(e) PROVE StoredOnce'
  <2> DEFINE n == Len(log)
  <2>1. /\ log' \in Seq(Entries) /\ Len(log') = n + 1 /\ log'[n + 1] = e /\ n \in Nat
        /\ \A i \in 1..n : log'[i] = log[i] /\ log[i] \in Entries
    BY <1>1, AppendProperties, LenProperties DEF Store, StoredOnce
  <2>2. \A i \in 1..n : log[i] # e
    BY <1>1 DEF Store, StoredOnce
  <2>3. \A i, j \in 1..n + 1 : log'[i] = log'[j] => i = j
    BY <2>1, <2>2 DEF StoredOnce
  <2>4. \A x \in Entries : adding'[x] = IF x = e THEN "stored" ELSE adding[x]
    BY <1>1 DEF Store, StoredOnce
  <2>5. \A i \in 1..n + 1 : adding'[log'[i]] # "no"
    BY <2>1, <2>4 DEF StoredOnce
  <2> QED BY <1>0, <2>1, <2>3, <2>5 DEF StoredOnce
<1>2. ASSUME log' = log, \A x \in Entries : adding[x] # "no" => adding'[x] # "no"
      PROVE  StoredOnce'
  BY <1>0, <1>2 DEF StoredOnce
<1>3. ASSUME NEW e \in Entries, AddStep(e) PROVE StoredOnce'
  <2>1. CASE FanOut(e)
    <3>1. \A x \in Entries : adding[x] # "no" => adding'[x] # "no"
      BY <2>1 DEF FanOut, StoredOnce
    <3>2. log' = log
      BY <2>1 DEF FanOut, ringVars
    <3> QED BY <1>2, <3>1, <3>2
  <2>2. CASE FanOutSend(e)
    <3>1. \A x \in Entries : adding[x] # "no" => adding'[x] # "no"
      BY <2>2 DEF FanOutSend, StoredOnce
    <3>2. log' = log
      BY <2>2 DEF FanOutSend, ringVars
    <3> QED BY <1>2, <3>1, <3>2
  <2> QED BY <1>3, <2>1, <2>2 DEF AddStep
<1>4. ASSUME NEW h \in Streams, StreamStep(h) PROVE StoredOnce'
  <2>1. log' = log /\ adding' = adding
    BY <1>4
    DEF StreamStep, LeaveStep, ForwardStep, Subscribe, ShowEntry, ViewerLeaves,
        Unsubscribe, CloseSrc, Forward, ForwardSend, ForwardEnds, ringVars, addVars
  <2> QED BY <1>2, <2>1
<1>5. CASE UNCHANGED logVars
  BY <1>2, <1>5 DEF logVars
<1> QED BY <1>1, <1>3, <1>4, <1>5 DEF LogNext

(* Without repetition, counting places is counting entries.                *)
LEMMA CountPlaces ==
  ASSUME NEW s \in Seq(Entries), \A i, j \in 1..Len(s) : s[i] = s[j] => i = j, NEW Q
  PROVE  Cardinality({i \in 1..Len(s) : s[i] \in Q}) =
           Cardinality({s[i] : i \in 1..Len(s)} \cap Q)
<1> DEFINE I == {i \in 1..Len(s) : s[i] \in Q}
           E == {s[i] : i \in 1..Len(s)} \cap Q
           f == [i \in I |-> s[i]]
<1>1. IsFiniteSet(I)
  <2>1. IsFiniteSet(1..Len(s))
    BY FS_Interval
  <2> QED BY <2>1, FS_Subset
<1>2. f \in [I -> E]
  OBVIOUS
<1>3. \A i, j \in I : f[i] = f[j] => i = j
  OBVIOUS
<1>4. \A e \in E : \E i \in I : f[i] = e
  OBVIOUS
<1>5. f \in Bijection(I, E)
  BY <1>2, <1>3, <1>4 DEF Bijection, Injection, Surjection, IsInjective
<1>6. ExistsBijection(I, E)
  BY <1>5 DEF ExistsBijection
<1> HIDE DEF I, E
<1>7. Cardinality(I) = Cardinality(E)
  BY <1>1, <1>6, FS_Bijection
<1> QED BY <1>7 DEF I, E

LEMMA CountsAccount == RingInv /\ StoredOnce => TrafficAccounts
<1> SUFFICES ASSUME RingInv, StoredOnce PROVE TrafficAccounts
  OBVIOUS
<1> DEFINE s == snapshot
           stored == ToSet(snapshot)
<1>1. s \in Seq(Entries) /\ \A i, j \in 1..Len(s) : s[i] = s[j] => i = j
  <2>1. PICK k \in 0..Len(log) : s = [j \in 1..k |-> log[Len(log) - j + 1]]
    BY SnapshotIsNewest
  <2>2. Len(s) = k /\ Len(log) \in Nat
    BY <2>1, LenProperties DEF StoredOnce
  <2>3. \A i \in 1..k : s[i] = log[Len(log) - i + 1] /\ Len(log) - i + 1 \in 1..Len(log)
    BY <2>1, <2>2
  <2>4. ASSUME NEW i \in 1..k, NEW j \in 1..k, s[i] = s[j] PROVE i = j
    <3>1. Len(log) - i + 1 = Len(log) - j + 1
      BY <2>3, <2>4 DEF StoredOnce
    <3> QED BY <2>2, <3>1
  <2> QED BY <2>2, <2>4, SnapshotIsNewest
<1>2. Recent(0, Tunnels) = s
  BY <1>1, OnlyAll DEF Recent
<1>3. DOMAIN s = 1..Len(s) /\ stored = {s[i] : i \in 1..Len(s)}
  BY <1>1 DEF ToSet
<1> HIDE DEF s
<1>4. ASSUME NEW age \in [stored -> {1, 2, 4}]
      PROVE  /\ TrafficStats(2, Tunnels, age)[1] =
                  Cardinality({e \in stored : age[e] \in 2..3})
             /\ TrafficStats(2, Tunnels, age)[2] =
                  Cardinality({e \in stored : age[e] \in 0..1})
  <2> DEFINE Minute(i) == age[s[i]] \div 2
             Counted(i) == age[s[i]] <= 2 * 2 /\ Minute(i) < 2
             Q1 == {e \in stored : age[e] \in 2..3}
             Q2 == {e \in stored : age[e] \in 0..1}
  <2>1. TrafficStats(2, Tunnels, age) =
          [k \in 1..2 |->
             Cardinality({i \in DOMAIN s : Counted(i) /\ Minute(i) = 2 - k})]
    BY <1>2 DEF TrafficStats
  <2>2. \A i \in 1..Len(s) : s[i] \in stored /\ age[s[i]] \in {1, 2, 4}
    BY <1>3
  <2>3. \A x \in {1, 2, 4} : /\ (x <= 2 * 2 /\ x \div 2 < 2 /\ x \div 2 = 2 - 1) <=> x \in 2..3
                             /\ (x <= 2 * 2 /\ x \div 2 < 2 /\ x \div 2 = 2 - 2) <=> x \in 0..1
    OBVIOUS
  <2>4. {i \in DOMAIN s : Counted(i) /\ Minute(i) = 2 - 1} = {i \in 1..Len(s) : s[i] \in Q1}
    BY <1>3, <2>2, <2>3
  <2>5. {i \in DOMAIN s : Counted(i) /\ Minute(i) = 2 - 2} = {i \in 1..Len(s) : s[i] \in Q2}
    BY <1>3, <2>2, <2>3
  <2>6. stored \cap Q1 = Q1 /\ stored \cap Q2 = Q2
    OBVIOUS
  <2>7. Cardinality({i \in 1..Len(s) : s[i] \in Q1}) = Cardinality(Q1)
    <3> HIDE DEF Q1
    <3>1. Cardinality({i \in 1..Len(s) : s[i] \in Q1}) = Cardinality(stored \cap Q1)
      BY <1>1, <1>3, CountPlaces
    <3> QED BY <2>6, <3>1
  <2>8. Cardinality({i \in 1..Len(s) : s[i] \in Q2}) = Cardinality(Q2)
    <3> HIDE DEF Q2
    <3>1. Cardinality({i \in 1..Len(s) : s[i] \in Q2}) = Cardinality(stored \cap Q2)
      BY <1>1, <1>3, CountPlaces
    <3> QED BY <2>6, <3>1
  <2> HIDE DEF Q1, Q2, Counted, Minute
  <2>9. /\ TrafficStats(2, Tunnels, age)[1] =
             Cardinality({i \in DOMAIN s : Counted(i) /\ Minute(i) = 2 - 1})
        /\ TrafficStats(2, Tunnels, age)[2] =
             Cardinality({i \in DOMAIN s : Counted(i) /\ Minute(i) = 2 - 2})
    BY <2>1
  <2>10. /\ TrafficStats(2, Tunnels, age)[1] = Cardinality(Q1)
         /\ TrafficStats(2, Tunnels, age)[2] = Cardinality(Q2)
    BY <2>4, <2>5, <2>7, <2>8, <2>9
  <2> QED BY <2>10 DEF Q1, Q2
<1> QED BY <1>4 DEF TrafficAccounts

(* Every stored entry younger than the window is counted in the bucket of  *)
(* its minute and in no other, for any number of stored entries.           *)
THEOREM TrafficIsAccounted == Spec => []TrafficAccounts
<1>1. Init => LogShape /\ RingInv /\ StoredOnce
  BY LogInitShape, LogInitRing, LogInitOnce DEF Init
<1>2. LogShape /\ RingInv /\ StoredOnce /\ [Next]_vars => (LogShape /\ RingInv /\ StoredOnce)'
  BY LogNextShape, LogNextRing, LogNextOnce, NextIsLogNext
<1> QED BY <1>1, <1>2, CountsAccount, PTL DEF Spec

---------------------------------------------------------------------------
(* What an event stream shows.                                             *)

(* The entries on their way through the two channels and the forwarding    *)
(* goroutine, and with them those that have been shown.                    *)
Pipe(h) == dst[h] \o Held(h) \o src[h]
Way(h) == shown[h] \o Only(Pipe(h), Filter[h])

(* w is a part of o, in the order of o.                                    *)
Ordered(w, o) ==
  /\ ToSet(w) \subseteq ToSet(o)
  /\ \A i, j \in DOMAIN w : i < j => Position(o, w[i]) < Position(o, w[j])

Distinct(o) == \A i, j \in 1..Len(o) : o[i] = o[j] => i = j

LEMMA InToSet ==
  ASSUME NEW s \in Seq(Entries), NEW x
  PROVE  x \in ToSet(s) <=> \E i \in 1..Len(s) : s[i] = x
BY DEF ToSet

LEMMA PositionOf ==
  ASSUME NEW o \in Seq(Entries), Distinct(o), NEW i \in 1..Len(o)
  PROVE  Position(o, o[i]) = i
<1>1. DOMAIN o = 1..Len(o)
  OBVIOUS
<1>2. \A j \in DOMAIN o : o[j] = o[i] <=> j = i
  BY <1>1 DEF Distinct
<1> QED BY <1>1, <1>2 DEF Position

(* Only o has a new element at its end.                                    *)
LEMMA OrderedNewOffer ==
  ASSUME NEW o \in Seq(Entries), Distinct(o), NEW e \in Entries, e \notin ToSet(o),
         NEW w \in Seq(Entries), Ordered(w, o)
  PROVE  /\ Distinct(Append(o, e)) /\ Ordered(w, Append(o, e))
         /\ \A x \in ToSet(o) : Position(Append(o, e), x) \in 1..Len(o)
         /\ Position(Append(o, e), e) = Len(o) + 1
<1> DEFINE q == Append(o, e)
           n == Len(o)
<1>1. /\ q \in Seq(Entries) /\ Len(q) = n + 1 /\ q[n + 1] = e /\ n \in Nat
      /\ \A i \in 1..n : q[i] = o[i]
  BY AppendProperties, LenProperties
<1> HIDE DEF q
<1>2. \A i \in 1..n : o[i] # e
  BY InToSet
<1>3. Distinct(q)
  BY <1>1, <1>2 DEF Distinct
<1>4. ASSUME NEW x \in ToSet(o)
      PROVE  Position(q, x) = Position(o, x) /\ Position(q, x) \in 1..n /\ x \in ToSet(q)
  <2>1. PICK i \in 1..n : o[i] = x
    BY InToSet
  <2>2. i \in 1..Len(q) /\ q[i] = x
    BY <1>1, <2>1
  <2>3. Position(q, q[i]) = i
    BY <1>1, <1>3, <2>2, PositionOf
  <2>4. Position(o, o[i]) = i
    BY PositionOf
  <2> QED BY <1>1, <2>1, <2>2, <2>3, <2>4, InToSet
<1>5. Position(q, e) = n + 1
  <2>1. n + 1 \in 1..Len(q)
    BY <1>1
  <2> QED BY <1>1, <1>3, <2>1, PositionOf
<1>6. \A i \in DOMAIN w : w[i] \in ToSet(o)
  BY DEF Ordered, ToSet
<1>7. Ordered(w, q)
  BY <1>4, <1>6 DEF Ordered
<1> QED BY <1>3, <1>4, <1>5, <1>7 DEF q

(* Both have.                                                              *)
LEMMA OrderedNewBoth ==
  ASSUME NEW o \in Seq(Entries), Distinct(o), NEW e \in Entries, e \notin ToSet(o),
         NEW w \in Seq(Entries), Ordered(w, o)
  PROVE  Ordered(Append(w, e), Append(o, e))
<1> DEFINE q == Append(o, e)
           v == Append(w, e)
           n == Len(w)
<1>1. /\ v \in Seq(Entries) /\ Len(v) = n + 1 /\ v[n + 1] = e /\ n \in Nat
      /\ \A i \in 1..n : v[i] = w[i]
  BY AppendProperties, LenProperties
<1>2. /\ q \in Seq(Entries) /\ Len(q) = Len(o) + 1 /\ q[Len(o) + 1] = e /\ Len(o) \in Nat
  BY AppendProperties, LenProperties
<1>3. /\ Ordered(w, q)
      /\ \A x \in ToSet(o) : Position(q, x) \in 1..Len(o)
      /\ Position(q, e) = Len(o) + 1
  BY OrderedNewOffer
<1> HIDE DEF q, v
<1>4. \A i \in 1..n : w[i] \in ToSet(o) /\ w[i] \in ToSet(q)
  <2>1. ToSet(w) \subseteq ToSet(o) /\ ToSet(w) \subseteq ToSet(q)
    BY <1>3 DEF Ordered
  <2>2. \A i \in 1..n : w[i] \in ToSet(w)
    BY InToSet
  <2> QED BY <2>1, <2>2
<1>5. e \in ToSet(q)
  <2>1. Len(o) + 1 \in 1..Len(q)
    BY <1>2
  <2> QED BY <1>2, <2>1, InToSet
<1>6. ToSet(v) \subseteq ToSet(q)
  BY <1>1, <1>4, <1>5 DEF ToSet
<1>7. ASSUME NEW i \in DOMAIN v, NEW j \in DOMAIN v, i < j
      PROVE  Position(q, v[i]) < Position(q, v[j])
  <2>1. i \in 1..n + 1 /\ j \in 1..n + 1 /\ DOMAIN w = 1..n
    BY <1>1
  <2>2. CASE j \in 1..n
    <3>1. i \in 1..n
      BY <1>1, <1>7, <2>1, <2>2
    <3> QED BY <1>1, <1>3, <1>7, <2>1, <2>2, <3>1 DEF Ordered
  <2>3. CASE j = n + 1
    <3>1. i \in 1..n
      BY <1>1, <1>7, <2>1, <2>3
    <3>2. Position(q, v[i]) \in 1..Len(o)
      BY <1>1, <1>3, <1>4, <3>1
    <3>3. Position(q, v[j]) = Len(o) + 1
      BY <1>1, <1>3, <2>3
    <3> QED BY <1>2, <3>2, <3>3
  <2> QED BY <1>1, <2>1, <2>2, <2>3
<1> QED BY <1>6, <1>7 DEF Ordered, q, v

(* An element in the middle is dropped.                                    *)
LEMMA OrderedDrop ==
  ASSUME NEW a \in Seq(Entries), NEW b \in Seq(Entries), NEW x \in Entries,
         NEW o, Ordered((a \o <<x>>) \o b, o)
  PROVE  Ordered(a \o b, o)
<1> DEFINE w == (a \o <<x>>) \o b
           v == a \o b
           m == Len(a)
           n == Len(b)
           To(i) == IF i <= m THEN i ELSE i + 1
<1>1. /\ a \o <<x>> \in Seq(Entries) /\ Len(a \o <<x>>) = m + 1
      /\ \A i \in 1..m : (a \o <<x>>)[i] = a[i] /\ m \in Nat /\ n \in Nat
  <2>1. <<x>> \in Seq(Entries) /\ Len(<<x>>) = 1
    OBVIOUS
  <2>2. m \in Nat /\ n \in Nat
    BY LenProperties
  <2>3. /\ a \o <<x>> \in Seq(Entries) /\ Len(a \o <<x>>) = m + 1
        /\ \A i \in 1..m + 1 : (a \o <<x>>)[i] = IF i <= m THEN a[i] ELSE <<x>>[i - m]
    BY <2>1, ConcatProperties
  <2> QED BY <2>2, <2>3
<1>1a. m \in Nat /\ n \in Nat
  BY LenProperties
<1>2. /\ w \in Seq(Entries) /\ Len(w) = (m + 1) + n
      /\ \A i \in 1..(m + 1) + n :
           w[i] = IF i <= m + 1 THEN (a \o <<x>>)[i] ELSE b[i - (m + 1)]
  BY <1>1, ConcatProperties
<1>3. /\ v \in Seq(Entries) /\ Len(v) = m + n
      /\ \A i \in 1..m + n : v[i] = IF i <= m THEN a[i] ELSE b[i - m]
  BY ConcatProperties
<1> HIDE DEF w, v, m, n
<1>4. ASSUME NEW i \in 1..m + n PROVE v[i] = w[To(i)] /\ To(i) \in 1..(m + 1) + n
  <2>1. CASE i <= m
    <3>1. i \in 1..m /\ i \in 1..(m + 1) + n /\ i <= m + 1
      BY <1>1a, <2>1
    <3> QED BY <1>1, <1>2, <1>3, <2>1, <3>1
  <2>2. CASE ~(i <= m)
    <3>1. i + 1 \in 1..(m + 1) + n /\ ~(i + 1 <= m + 1) /\ (i + 1) - (m + 1) = i - m
      BY <1>1a, <2>2
    <3> QED BY <1>2, <1>3, <2>2, <3>1
  <2> QED BY <2>1, <2>2
<1>5. DOMAIN v = 1..m + n /\ DOMAIN w = 1..(m + 1) + n
  BY <1>2, <1>3
<1>6. \A i, j \in 1..m + n : i < j => To(i) < To(j)
  BY <1>1a
<1> HIDE DEF To
<1>7. ToSet(v) \subseteq ToSet(w)
  BY <1>4, <1>5 DEF ToSet
<1>8. \A i, j \in DOMAIN v : i < j => Position(o, v[i]) < Position(o, v[j])
  BY <1>4, <1>5, <1>6 DEF Ordered, w
<1> QED BY <1>7, <1>8 DEF Ordered, w, v

LEMMA TwoParts ==
  \A u, v \in Seq(Entries) :
    /\ u \o v \in Seq(Entries) /\ Len(u \o v) = Len(u) + Len(v)
    /\ \A i \in 1..Len(u) + Len(v) :
         (u \o v)[i] = IF i <= Len(u) THEN u[i] ELSE v[i - Len(u)]
BY ConcatProperties

LEMMA FirstAndRest ==
  ASSUME NEW s \in Seq(Entries), s # <<>>
  PROVE  s = <<Head(s)>> \o Tail(s) /\ Head(s) \in Entries /\ Tail(s) \in Seq(Entries)
<1>1. /\ Head(s) \in Entries /\ Tail(s) \in Seq(Entries) /\ Len(Tail(s)) = Len(s) - 1
      /\ \A i \in 1..Len(Tail(s)) : Tail(s)[i] = s[i + 1]
  BY HeadTailProperties
<1>2. Len(s) \in Nat \ {0} /\ Head(s) = s[1]
  BY EmptySeq, LenProperties
<1> DEFINE u == <<Head(s)>>
           v == Tail(s)
<1>3. u \in Seq(Entries) /\ Len(u) = 1 /\ u[1] = Head(s)
  BY <1>1
<1>4. v \in Seq(Entries) /\ Len(v) = Len(s) - 1 /\ \A i \in 1..Len(v) : v[i] = s[i + 1]
  BY <1>1
<1> HIDE DEF u, v
<1>5. /\ u \o v \in Seq(Entries) /\ Len(u \o v) = Len(u) + Len(v)
      /\ \A i \in 1..Len(u) + Len(v) :
           (u \o v)[i] = IF i <= Len(u) THEN u[i] ELSE v[i - Len(u)]
  BY <1>3, <1>4, TwoParts
<1>6. Len(u \o v) = Len(s) /\ \A i \in 1..Len(s) : (u \o v)[i] = s[i]
  BY <1>2, <1>3, <1>4, <1>5
<1>7. u \o v = s
  BY <1>5, <1>6, SeqEqual
<1> QED BY <1>1, <1>7 DEF u, v

(* Concatenation under a name of its own: the facts about four sequences   *)
(* are used as they stand, without the prover's axioms about \o.           *)
Cat(s, t) == s \o t

LEMMA OnlyCat ==
  ASSUME NEW s \in Seq(Entries), NEW t \in Seq(Entries), NEW filter
  PROVE  Only(Cat(s, t), filter) = Cat(Only(s, filter), Only(t, filter))
BY OnlyConcat DEF Cat

LEMMA ThreeParts ==
  ASSUME NEW s \in Seq(Entries), NEW t \in Seq(Entries), NEW u \in Seq(Entries)
  PROVE  Cat(Cat(s, t), u) = Cat(s, Cat(t, u))
BY ConcatAssociative DEF Cat

LEMMA FourParts ==
  ASSUME NEW s \in Seq(Entries), NEW t \in Seq(Entries), NEW u \in Seq(Entries),
         NEW v \in Seq(Entries)
  PROVE  Cat(s, Cat(Cat(t, u), v)) = Cat(Cat(Cat(s, t), u), v)
<1> DEFINE w == Cat(t, u)
<1>1. w \in Seq(Entries)
  BY TwoParts DEF Cat
<1>2. Cat(s, w) = Cat(Cat(s, t), u)
  BY ThreeParts
<1> HIDE DEF w
<1>3. Cat(Cat(s, w), v) = Cat(s, Cat(w, v))
  BY <1>1, ThreeParts
<1> QED BY <1>2, <1>3 DEF w

LEMMA WayTypes ==
  ASSUME NEW p \in Seq(Entries), NEW t \in Seq(Entries), NEW filter
  PROVE  t \o Only(p, filter) \in Seq(Entries)
BY OnlyType, ConcatProperties

LEMMA WayAppend ==
  ASSUME NEW t \in Seq(Entries), NEW p \in Seq(Entries), NEW e \in Entries, NEW filter
  PROVE  t \o Only(Append(p, e), filter) =
           IF TunnelOf[e] \in filter THEN Append(t \o Only(p, filter), e)
           ELSE t \o Only(p, filter)
<1>1. Only(p, filter) \in Seq(Entries)
  BY OnlyType
<1>2. t \o Append(Only(p, filter), e) = Append(t \o Only(p, filter), e)
  BY <1>1, AppendAtEnd
<1> QED BY <1>2, OnlyAppend

(* The next entry x, with r still to come, is shown or passed over.        *)
ShownNext(t, r, x, filter) ==
  /\ TunnelOf[x] \in filter =>
       t \o Only(<<x>> \o r, filter) = Append(t, x) \o Only(r, filter)
  /\ TunnelOf[x] \notin filter =>
       t \o Only(<<x>> \o r, filter) = t \o Only(r, filter)

LEMMA WayShow ==
  ASSUME NEW t \in Seq(Entries), NEW r \in Seq(Entries), NEW x \in Entries, NEW filter
  PROVE  ShownNext(t, r, x, filter)
<1> DEFINE y == <<x>>
           z == <<>>
           R == Only(r, filter)
<1>1. y \in Seq(Entries) /\ z \in Seq(Entries)
  OBVIOUS
<1>2. R \in Seq(Entries)
  BY OnlyType
<1>3. Only(y, filter) = IF TunnelOf[x] \in filter THEN y ELSE z
  BY OnlyOne
<1>4. Append(t, x) = t \o y
  BY AppendIsConcat
<1>5. z \o R = R
  BY <1>2, ConcatEmptySeq
<1> SUFFICES /\ TunnelOf[x] \in filter => t \o Only(y \o r, filter) = Append(t, x) \o R
             /\ TunnelOf[x] \notin filter => t \o Only(y \o r, filter) = t \o R
  BY DEF ShownNext
<1>6. Only(y \o r, filter) = Only(y, filter) \o R
  <2> HIDE DEF y
  <2> QED BY <1>1, OnlyConcat
<1> HIDE DEF y, z, R
<1>7. t \o (y \o R) = (t \o y) \o R
  <2>1. Cat(Cat(t, y), R) = Cat(t, Cat(y, R))
    BY <1>1, <1>2, ThreeParts
  <2> QED BY <2>1 DEF Cat
<1>8. CASE TunnelOf[x] \in filter
  BY <1>3, <1>4, <1>6, <1>7, <1>8
<1>9. CASE TunnelOf[x] \notin filter
  BY <1>3, <1>5, <1>6, <1>9
<1> QED BY <1>8, <1>9

LEMMA WayParts ==
  ASSUME NEW t \in Seq(Entries), NEW d \in Seq(Entries), NEW y \in Seq(Entries),
         NEW r \in Seq(Entries), NEW filter
  PROVE  Cat(t, Only(Cat(Cat(d, y), r), filter)) =
           Cat(Cat(Cat(t, Only(d, filter)), Only(y, filter)), Only(r, filter))
<1> DEFINE D == Only(d, filter)
           Y == Only(y, filter)
           R == Only(r, filter)
<1>1. D \in Seq(Entries) /\ Y \in Seq(Entries) /\ R \in Seq(Entries)
  BY OnlyType
<1>2. Cat(d, y) \in Seq(Entries)
  BY ConcatProperties DEF Cat
<1>3. Only(Cat(Cat(d, y), r), filter) = Cat(Only(Cat(d, y), filter), R)
  BY <1>2, OnlyCat
<1>4. Only(Cat(d, y), filter) = Cat(D, Y)
  BY OnlyCat
<1> HIDE DEF D, Y, R
<1>5. Cat(t, Cat(Cat(D, Y), R)) = Cat(Cat(Cat(t, D), Y), R)
  BY <1>1, FourParts
<1> QED BY <1>3, <1>4, <1>5 DEF D, Y, R

LEMMA WayDrop ==
  ASSUME NEW t \in Seq(Entries), NEW d \in Seq(Entries), NEW r \in Seq(Entries),
         NEW x \in Entries, NEW filter, NEW o,
         Ordered(t \o Only((d \o <<x>>) \o r, filter), o)
  PROVE  Ordered(t \o Only((d \o <<>>) \o r, filter), o)
<1> DEFINE y == <<x>>
           z == <<>>
           T == t \o Only(d, filter)
           R == Only(r, filter)
<1>1. y \in Seq(Entries) /\ z \in Seq(Entries)
  OBVIOUS
<1>2. T \in Seq(Entries) /\ R \in Seq(Entries)
  BY OnlyType, WayTypes
<1>3. Only(y, filter) = IF TunnelOf[x] \in filter THEN y ELSE z
  BY OnlyOne
<1>4. Only(z, filter) = z
  BY OnlyEmpty
<1>5. T \o z = T
  BY <1>2, ConcatEmptySeq
<1>6. \A a, b \in Seq(Entries) : Ordered((a \o y) \o b, o) => Ordered(a \o b, o)
  BY OrderedDrop
<1>7. Ordered(t \o Only((d \o y) \o r, filter), o)
  OBVIOUS
<1> SUFFICES Ordered(t \o Only((d \o z) \o r, filter), o)
  OBVIOUS
<1> HIDE DEF y, z
<1>8. t \o Only((d \o y) \o r, filter) = (T \o Only(y, filter)) \o R
  <2>1. Cat(t, Only(Cat(Cat(d, y), r), filter)) =
          Cat(Cat(Cat(t, Only(d, filter)), Only(y, filter)), Only(r, filter))
    BY <1>1, WayParts
  <2> QED BY <2>1 DEF Cat
<1>9. t \o Only((d \o z) \o r, filter) = (T \o Only(z, filter)) \o R
  <2>1. Cat(t, Only(Cat(Cat(d, z), r), filter)) =
          Cat(Cat(Cat(t, Only(d, filter)), Only(z, filter)), Only(r, filter))
    BY <1>1, WayParts
  <2> QED BY <2>1 DEF Cat
<1> HIDE DEF T, R
<1>10. CASE TunnelOf[x] \in filter
  <2>1. Ordered((T \o y) \o R, o)
    BY <1>3, <1>7, <1>8, <1>10
  <2>2. Ordered(T \o R, o)
    BY <1>2, <1>6, <2>1
  <2> QED BY <1>4, <1>5, <1>9, <2>2
<1>11. CASE TunnelOf[x] \notin filter
  BY <1>3, <1>4, <1>7, <1>8, <1>9, <1>11
<1> QED BY <1>10, <1>11

(* The forwarding goroutine takes an entry out of src ...                  *)
LEMMA PipeTakes ==
  ASSUME NEW d \in Seq(Entries), NEW r \in Seq(Entries), r # <<>>
  PROVE  (d \o <<Head(r)>>) \o Tail(r) = (d \o <<>>) \o r
<1> DEFINE y == <<Head(r)>>
           z == Tail(r)
<1>1. r = y \o z /\ Head(r) \in Entries /\ z \in Seq(Entries)
  BY FirstAndRest
<1>2. y \in Seq(Entries)
  BY <1>1
<1>3. d \o <<>> = d
  BY ConcatEmptySeq
<1> HIDE DEF y, z
<1>4. (d \o y) \o z = d \o (y \o z)
  <2>1. Cat(Cat(d, y), z) = Cat(d, Cat(y, z))
    BY <1>1, <1>2, ThreeParts
  <2> QED BY <2>1 DEF Cat
<1> QED BY <1>1, <1>3, <1>4 DEF y, z

(* ... and puts it into dst.                                               *)
LEMMA PipePasses ==
  ASSUME NEW d \in Seq(Entries), NEW r \in Seq(Entries), NEW x \in Entries
  PROVE  (Append(d, x) \o <<>>) \o r = (d \o <<x>>) \o r
<1>1. Append(d, x) \in Seq(Entries) /\ Append(d, x) = d \o <<x>>
  BY AppendProperties, AppendIsConcat
<1>2. Append(d, x) \o <<>> = Append(d, x)
  BY <1>1, ConcatEmptySeq
<1> QED BY <1>1, <1>2

(* The handler takes an entry out of dst.                                  *)
LEMMA PipeShows ==
  ASSUME NEW d \in Seq(Entries), NEW y \in Seq(Entries), NEW r \in Seq(Entries),
         d # <<>>
  PROVE  /\ (d \o y) \o r = <<Head(d)>> \o ((Tail(d) \o y) \o r)
         /\ (Tail(d) \o y) \o r \in Seq(Entries)
<1> DEFINE x == <<Head(d)>>
           z == Tail(d)
<1>1. d = x \o z /\ Head(d) \in Entries /\ z \in Seq(Entries)
  BY FirstAndRest
<1>2. x \in Seq(Entries)
  BY <1>1
<1> HIDE DEF x, z
<1>3. Cat(x, Cat(Cat(z, y), r)) = Cat(Cat(Cat(x, z), y), r)
  BY <1>1, <1>2, FourParts
<1>4. (z \o y) \in Seq(Entries)
  BY <1>1, TwoParts
<1>5. (z \o y) \o r \in Seq(Entries)
  BY <1>4, TwoParts
<1>6. x \o ((z \o y) \o r) = (d \o y) \o r
  BY <1>1, <1>3 DEF Cat
<1> QED BY <1>5, <1>6 DEF x, z

LEMMA HeldParts ==
  ASSUME LogShape, NEW h \in Streams
  PROVE  /\ src[h] \in Seq(Entries) /\ dst[h] \in Seq(Entries)
         /\ shown[h] \in Seq(Entries) /\ offered[h] \in Seq(Entries)
         /\ Held(h) \in Seq(Entries) /\ Pipe(h) \in Seq(Entries)
         /\ Way(h) \in Seq(Entries)
<1>1. /\ src[h] \in Seq(Entries) /\ dst[h] \in Seq(Entries)
      /\ shown[h] \in Seq(Entries) /\ offered[h] \in Seq(Entries)
  BY DEF LogShape, ChansOK
<1>2. Held(h) \in Seq(Entries)
  <2>1. \A x \in Entries : <<x>> \in Seq(Entries)
    OBVIOUS
  <2>2. <<>> \in Seq(Entries)
    OBVIOUS
  <2> QED BY <2>1, <2>2 DEF Held
<1>3. Pipe(h) \in Seq(Entries)
  <2> DEFINE y == dst[h] \o Held(h)
  <2>1. y \in Seq(Entries)
    BY <1>1, <1>2, TwoParts
  <2> HIDE DEF y
  <2>2. y \o src[h] \in Seq(Entries)
    BY <1>1, <2>1, TwoParts
  <2> QED BY <2>2 DEF Pipe, y
<1>4. Way(h) \in Seq(Entries)
  BY <1>1, <1>3, WayTypes DEF Way
<1> QED BY <1>1, <1>2, <1>3, <1>4

(* No entry is offered to a stream twice: Add has offered what it has      *)
(* taken out of the list of channels that it has to visit.                 *)
OfferedOnce ==
  \A h \in Streams :
    /\ Distinct(offered[h])
    /\ \A x \in ToSet(offered[h]) : adding[x] \in {"sending", "added"} /\ h \notin todo[x]

Faithful(h) ==
  /\ Ordered(Way(h), offered[h])
  /\ shown[h] \in Seq(Own(Filter[h]))
  /\ h \notin dropped => Way(h) = Only(offered[h], Filter[h])

StreamInv == OfferedOnce /\ \A h \in Streams : Faithful(h)

LEMMA LogInitStreams == LogInit => StreamInv
<1> SUFFICES ASSUME LogInit PROVE StreamInv
  OBVIOUS
<1> DEFINE z == <<>>
<1>1. z \in Seq(Entries) /\ Len(z) = 0 /\ ToSet(z) = {} /\ DOMAIN z = {}
  BY DEF ToSet
<1>2. ASSUME NEW h \in Streams PROVE z \in Seq(Own(Filter[h]))
  OBVIOUS
<1>3. z \o z = z /\ \A filter : Only(z, filter) = z
  BY OnlyEmpty
<1>4. ASSUME NEW h \in Streams
      PROVE  shown[h] = z /\ src[h] = z /\ dst[h] = z /\ offered[h] = z /\ fwd[h] = None
  BY DEF LogInit
<1>5. ASSUME NEW h \in Streams PROVE Held(h) = z
  BY <1>4, LogAssumption DEF Held, None
<1> HIDE DEF z
<1>6. ASSUME NEW h \in Streams PROVE Way(h) = z
  <2>1. Pipe(h) = z
    BY <1>3, <1>4, <1>5 DEF Pipe
  <2> QED BY <1>3, <1>4, <2>1 DEF Way
<1>7. Ordered(z, z) /\ Distinct(z)
  BY <1>1 DEF Ordered, Distinct
<1>8. OfferedOnce
  BY <1>1, <1>4, <1>7 DEF OfferedOnce
<1>9. ASSUME NEW h \in Streams PROVE Faithful(h)
  BY <1>2, <1>3, <1>4, <1>6, <1>7 DEF Faithful
<1> QED BY <1>8, <1>9 DEF StreamInv

(* A step that leaves the stream's channels and histories alone.           *)
LEMMA FaithfulKept ==
  ASSUME NEW h \in Streams, Faithful(h), Pipe(h)' = Pipe(h), shown'[h] = shown[h],
         offered'[h] = offered[h], h \in dropped => h \in dropped'
  PROVE  Faithful(h)'
<1>1. Way(h)' = Way(h)
  BY DEF Way
<1> QED BY <1>1 DEF Faithful

LEMMA PipeKept ==
  ASSUME NEW h \in Streams, src'[h] = src[h], dst'[h] = dst[h], Held(h)' = Held(h)
  PROVE  Pipe(h)' = Pipe(h)
BY DEF Pipe

(* Add offers an entry to the stream and src has room for it, or has not.  *)
LEMMA FaithfulOffer ==
  ASSUME LogShape, NEW h \in Streams, NEW e \in Entries, Faithful(h),
         Distinct(offered[h]), e \notin ToSet(offered[h]),
         offered'[h] = Append(offered[h], e), shown'[h] = shown[h],
         dst'[h] = dst[h], Held(h)' = Held(h),
         \/ src'[h] = Append(src[h], e) /\ (h \in dropped => h \in dropped')
         \/ src'[h] = src[h] /\ h \in dropped'
  PROVE  Faithful(h)' /\ Distinct(offered[h])'
<1> DEFINE o == offered[h]
           w == Way(h)
           q == Append(o, e)
<1>1. /\ src[h] \in Seq(Entries) /\ dst[h] \in Seq(Entries) /\ Held(h) \in Seq(Entries)
      /\ shown[h] \in Seq(Entries) /\ Pipe(h) \in Seq(Entries)
  BY HeldParts
<1>1a. o \in Seq(Entries) /\ w \in Seq(Entries)
  BY HeldParts
<1>2. Ordered(w, o) /\ shown[h] \in Seq(Own(Filter[h])) /\ (h \notin dropped => w = Only(o, Filter[h]))
  BY DEF Faithful
<1>3. Distinct(o) /\ e \notin ToSet(o)
  OBVIOUS
<1>3a. offered'[h] = q
  OBVIOUS
<1> HIDE DEF o, w
<1>4. Distinct(q) /\ Ordered(w, q)
  BY <1>1a, <1>2, <1>3, OrderedNewOffer
<1>5. Ordered(Append(w, e), q)
  BY <1>1a, <1>2, <1>3, OrderedNewBoth
<1>6. Only(q, Filter[h]) = IF TunnelOf[e] \in Filter[h] THEN Append(Only(o, Filter[h]), e)
                           ELSE Only(o, Filter[h])
  <2>1. \A f : Only(Append(o, e), f) = IF TunnelOf[e] \in f THEN Append(Only(o, f), e)
                                      ELSE Only(o, f)
    BY <1>1a, OnlyAppend, SMTT(30)
  <2> QED BY <2>1
<1> HIDE DEF q
<1>7. CASE src'[h] = Append(src[h], e) /\ (h \in dropped => h \in dropped')
  <2>1. Pipe(h)' = Append(Pipe(h), e)
    <3> DEFINE y == dst[h] \o Held(h)
    <3>1. y \in Seq(Entries)
      BY <1>1, TwoParts
    <3>2. y \o Append(src[h], e) = Append(y \o src[h], e)
      <4> HIDE DEF y
      <4> QED BY <1>1, <3>1, AppendAtEnd
    <3> QED BY <1>7, <3>2 DEF Pipe
  <2>2. Way(h)' = IF TunnelOf[e] \in Filter[h] THEN Append(w, e) ELSE w
    <3> DEFINE t == shown[h]
               p == Pipe(h)
               f == Filter[h]
    <3>1. t \in Seq(Entries) /\ p \in Seq(Entries)
      BY <1>1
    <3>2. Way(h)' = t \o Only(Append(p, e), f) /\ w = t \o Only(p, f)
      BY <2>1 DEF Way, w
    <3> HIDE DEF t, p, f
    <3>3. t \o Only(Append(p, e), f) =
            IF TunnelOf[e] \in f THEN Append(t \o Only(p, f), e) ELSE t \o Only(p, f)
      BY <3>1, WayAppend
    <3> QED BY <3>2, <3>3 DEF f
  <2> QED BY <1>2, <1>3a, <1>4, <1>5, <1>6, <1>7, <2>2 DEF Faithful
<1>8. CASE src'[h] = src[h] /\ h \in dropped'
  <2>1. Way(h)' = w
    BY <1>8, PipeKept DEF Way, w
  <2> QED BY <1>2, <1>3a, <1>4, <1>8, <2>1 DEF Faithful
<1> QED BY <1>7, <1>8

LEMMA FaithfulForward ==
  ASSUME LogShape, NEW h \in Streams, Faithful(h), Forward(h)
  PROVE  Faithful(h)'
<1> DEFINE d == dst[h]
           r == src[h]
<1>1. d \in Seq(Entries) /\ r \in Seq(Entries) /\ r # <<>>
  BY HeldParts DEF Forward
<1>2. Head(r) \in Entries
  BY <1>1, FirstAndRest
<1>3. fwd'[h] = Head(r) /\ src'[h] = Tail(r) /\ dst'[h] = d
  BY DEF Forward, LogShape, ChansOK
<1>4. Held(h)' = <<Head(r)>>
  BY <1>2, <1>3 DEF Held
<1>5. Held(h) = <<>>
  BY LogAssumption DEF Held, Forward
<1>6. Pipe(h) = (d \o <<>>) \o r /\ Pipe(h)' = (d \o <<Head(r)>>) \o Tail(r)
  BY <1>3, <1>4, <1>5 DEF Pipe
<1>7. Pipe(h)' = Pipe(h)
  <2> HIDE DEF d, r
  <2> QED BY <1>1, <1>6, PipeTakes
<1> QED BY <1>7, FaithfulKept DEF Forward, addVars

(* The entry goes into dst or is dropped.                                  *)
LEMMA FaithfulForwardSend ==
  ASSUME LogShape, NEW h \in Streams, Faithful(h), ForwardSend(h)
  PROVE  Faithful(h)'
<1> DEFINE d == dst[h]
           r == src[h]
           x == fwd[h]
<1>1. d \in Seq(Entries) /\ r \in Seq(Entries) /\ x \in Entries
  BY HeldParts DEF ForwardSend
<1>2. fwd'[h] = "recv" /\ src'[h] = r /\ shown'[h] = shown[h] /\ offered'[h] = offered[h]
  BY DEF ForwardSend, LogShape, ChansOK, addVars
<1>3. Held(h) = <<x>> /\ Held(h)' = <<>>
  BY <1>1, <1>2, LogAssumption DEF Held
<1>4. CASE Len(d) < ChanSize
  <2>1. dst'[h] = Append(d, x) /\ dropped' = dropped
    BY <1>4 DEF ForwardSend, LogShape, ChansOK
  <2>2. Pipe(h) = (d \o <<x>>) \o r /\ Pipe(h)' = (Append(d, x) \o <<>>) \o r
    BY <1>2, <1>3, <2>1 DEF Pipe
  <2>3. Pipe(h)' = Pipe(h)
    <3> HIDE DEF d, r, x
    <3> QED BY <1>1, <2>2, PipePasses
  <2> QED BY <1>2, <2>1, <2>3, FaithfulKept
<1>5. CASE ~(Len(d) < ChanSize)
  <2>1. dst'[h] = d /\ h \in dropped'
    BY <1>5 DEF ForwardSend
  <2>2. Pipe(h) = (d \o <<x>>) \o r /\ Pipe(h)' = (d \o <<>>) \o r
    BY <1>2, <1>3, <2>1 DEF Pipe
  <2> DEFINE t == shown[h]
             f == Filter[h]
             o == offered[h]
  <2>3. t \in Seq(Entries)
    BY HeldParts
  <2>4. Ordered(t \o Only((d \o <<x>>) \o r, f), o) /\ t \in Seq(Own(f))
    BY <2>2 DEF Faithful, Way
  <2>5. Way(h)' = t \o Only((d \o <<>>) \o r, f)
    BY <1>2, <2>2 DEF Way
  <2>6. Ordered(t \o Only((d \o <<>>) \o r, f), o)
    <3> HIDE DEF d, r, x, t, f, o
    <3> QED BY <1>1, <2>3, <2>4, WayDrop
  <2> QED BY <1>2, <2>1, <2>4, <2>5, <2>6 DEF Faithful
<1> QED BY <1>4, <1>5

LEMMA FaithfulShow ==
  ASSUME LogShape, NEW h \in Streams, Faithful(h), ShowEntry(h)
  PROVE  Faithful(h)'
<1> DEFINE d == dst[h]
           y == Held(h)
           r == src[h]
           t == shown[h]
           f == Filter[h]
           x == Head(d)
           p == (Tail(d) \o y) \o r
<1>1. /\ d \in Seq(Entries) /\ y \in Seq(Entries) /\ r \in Seq(Entries) /\ d # <<>>
      /\ t \in Seq(Entries) /\ t \in Seq(Own(f))
  BY HeldParts DEF ShowEntry, Faithful
<1>2. dst'[h] = Tail(d) /\ src'[h] = r /\ Held(h)' = y /\ offered'[h] = offered[h]
      /\ dropped' = dropped
  BY DEF ShowEntry, LogShape, ChansOK, addVars, Held
<1>3. shown'[h] = IF TunnelOf[x] \in f THEN Append(t, x) ELSE t
  BY DEF ShowEntry, LogShape
<1>4. Pipe(h) = (d \o y) \o r /\ Pipe(h)' = p
  BY <1>2 DEF Pipe
<1>5. Way(h) = t \o Only((d \o y) \o r, f) /\ Way(h)' = shown'[h] \o Only(p, f)
  BY <1>4 DEF Way
<1> HIDE DEF d, y, r, t, f
<1>6. (d \o y) \o r = <<x>> \o p /\ p \in Seq(Entries)
  BY <1>1, PipeShows
<1>7. x \in Entries
  BY <1>1, FirstAndRest
<1> HIDE DEF x, p
<1>8. /\ TunnelOf[x] \in f => t \o Only(<<x>> \o p, f) = Append(t, x) \o Only(p, f)
      /\ TunnelOf[x] \notin f => t \o Only(<<x>> \o p, f) = t \o Only(p, f)
  <2>1. t \in Seq(Entries) /\ p \in Seq(Entries)
    BY <1>1, <1>6
  <2>2. ShownNext(t, p, x, f)
    BY <1>7, <2>1, WayShow
  <2> QED BY <2>2 DEF ShownNext
<1>9. Way(h)' = Way(h)
  BY <1>3, <1>5, <1>6, <1>8
<1>10. shown'[h] \in Seq(Own(f))
  <2>1. TunnelOf[x] \in f => x \in Own(f)
    BY <1>7 DEF Own
  <2> QED BY <1>1, <1>3, <2>1, AppendProperties
<1> QED BY <1>2, <1>9, <1>10 DEF Faithful, f

LEMMA AppendToSet ==
  ASSUME NEW s \in Seq(Entries), NEW e \in Entries
  PROVE  ToSet(Append(s, e)) = ToSet(s) \cup {e}
<1>1. /\ Append(s, e) \in Seq(Entries) /\ Len(Append(s, e)) = Len(s) + 1 /\ Len(s) \in Nat
      /\ Append(s, e)[Len(s) + 1] = e /\ \A i \in 1..Len(s) : Append(s, e)[i] = s[i]
  BY AppendProperties, LenProperties
<1> DEFINE q == Append(s, e)
<1> HIDE DEF q
<1>2. /\ q \in Seq(Entries) /\ Len(q) = Len(s) + 1 /\ Len(s) \in Nat
      /\ q[Len(s) + 1] = e /\ \A i \in 1..Len(s) : q[i] = s[i]
  BY <1>1 DEF q
<1>3. ToSet(q) = {q[i] : i \in 1..Len(s) + 1} /\ ToSet(s) = {s[i] : i \in 1..Len(s)}
  BY <1>2 DEF ToSet
<1>4. ASSUME NEW x \in ToSet(q) PROVE x \in ToSet(s) \cup {e}
  <2>1. PICK i \in 1..Len(s) + 1 : x = q[i]
    BY <1>3
  <2>2. i \in 1..Len(s) \/ i = Len(s) + 1
    BY <1>2
  <2> QED BY <1>2, <1>3, <2>1, <2>2
<1>5. ASSUME NEW x \in ToSet(s) PROVE x \in ToSet(q)
  <2>1. PICK i \in 1..Len(s) : x = s[i]
    BY <1>3
  <2>2. i \in 1..Len(s) + 1
    BY <1>2
  <2> QED BY <1>2, <1>3, <2>1, <2>2
<1>6. e \in ToSet(q)
  <2>1. Len(s) + 1 \in 1..Len(s) + 1
    BY <1>2
  <2> QED BY <1>2, <1>3, <2>1
<1> QED BY <1>4, <1>5, <1>6 DEF q

LEMMA LogNextStreams ==
  LogShape /\ ChannelInv /\ StreamInv /\ [LogNext]_logVars => StreamInv'
<1> SUFFICES ASSUME LogShape, ChannelInv, StreamInv, [LogNext]_logVars PROVE StreamInv'
  OBVIOUS
<1>0. /\ adding \in [Entries -> {"no", "stored", "sending", "added"}]
      /\ todo \in [Entries -> SUBSET Streams]
      /\ src \in [Streams -> Seq(Entries)] /\ dst \in [Streams -> Seq(Entries)]
      /\ shown \in [Streams -> Seq(Entries)] /\ offered \in [Streams -> Seq(Entries)]
      /\ fwd \in [Streams -> Entries \cup {None, "recv", "done"}]
  BY DEF LogShape, ChansOK
<1>a. Entries \cap {None, "recv", "done"} = {}
  BY LogAssumption DEF None
<1>b. \A h \in Streams : ToSet(offered[h]) \subseteq Entries
  BY <1>0 DEF ToSet
(* The stream's part does not change.                                      *)
<1>c. ASSUME NEW h \in Streams, src'[h] = src[h], dst'[h] = dst[h], Held(h)' = Held(h),
             shown'[h] = shown[h], offered'[h] = offered[h], h \in dropped => h \in dropped'
      PROVE  Faithful(h)'
  BY <1>c, PipeKept, FaithfulKept DEF StreamInv
<1>d. ASSUME UNCHANGED <<adding, todo, offered>> PROVE OfferedOnce'
  BY <1>d DEF StreamInv, OfferedOnce
<1>1. ASSUME NEW e \in Entries, Store(e) \/ FanOut(e) PROVE StreamInv'
  <2>1. UNCHANGED <<src, dst, fwd, shown, offered, dropped>>
    BY <1>1 DEF Store, FanOut, chanVars
  <2>2. \A h \in Streams : Faithful(h)'
    BY <1>c, <2>1 DEF Held
  <2>3. \A x \in Entries \ {e} : adding'[x] = adding[x] /\ todo'[x] = todo[x]
    BY <1>0, <1>1 DEF Store, FanOut
  <2>4. \A h \in Streams : e \notin ToSet(offered[h])
    BY <1>1 DEF Store, FanOut, StreamInv, OfferedOnce
  <2>5. OfferedOnce'
    BY <1>b, <2>1, <2>3, <2>4 DEF StreamInv, OfferedOnce
  <2> QED BY <2>2, <2>5 DEF StreamInv
<1>2. ASSUME NEW e \in Entries, FanOutSend(e) PROVE StreamInv'
  <2> PICK g \in todo[e] :
         /\ todo' = [todo EXCEPT ![e] = @ \ {g}]
         /\ adding' = [adding EXCEPT ![e] = IF todo[e] = {g} THEN "added" ELSE @]
         /\ offered' = [offered EXCEPT ![g] = Append(@, e)]
         /\ IF Len(src[g]) < ChanSize
            THEN src' = [src EXCEPT ![g] = Append(@, e)] /\ UNCHANGED dropped
            ELSE dropped' = dropped \cup {g} /\ UNCHANGED src
    BY <1>2 DEF FanOutSend
  <2>1. g \in Streams /\ UNCHANGED <<dst, fwd, shown>> /\ adding[e] = "sending"
    BY <1>0, <1>2 DEF FanOutSend
  <2>2. e \notin ToSet(offered[g]) /\ Distinct(offered[g]) /\ Faithful(g)
    BY <2>1 DEF StreamInv, OfferedOnce
  <2>3. offered'[g] = Append(offered[g], e) /\ Held(g)' = Held(g)
    BY <1>0, <2>1 DEF Held
  <2>4. \/ src'[g] = Append(src[g], e) /\ (g \in dropped => g \in dropped')
        \/ src'[g] = src[g] /\ g \in dropped'
    BY <1>0, <2>1
  <2>5. Faithful(g)' /\ Distinct(offered[g])'
    BY <2>1, <2>2, <2>3, <2>4, FaithfulOffer
  <2>6. ASSUME NEW h \in Streams, h # g PROVE Faithful(h)' /\ offered'[h] = offered[h]
    <3>1. src'[h] = src[h] /\ offered'[h] = offered[h] /\ (h \in dropped => h \in dropped')
      BY <1>0, <2>1, <2>6
    <3> QED BY <1>c, <2>1, <3>1 DEF Held
  <2>7. /\ \A x \in Entries \ {e} : adding'[x] = adding[x] /\ todo'[x] = todo[x]
        /\ adding'[e] \in {"sending", "added"} /\ todo'[e] = todo[e] \ {g}
    BY <1>0, <2>1
  <2>8. ToSet(offered'[g]) = ToSet(offered[g]) \cup {e}
    BY <1>0, <2>1, <2>3, AppendToSet
  <2>9. ASSUME NEW h \in Streams
        PROVE  /\ Distinct(offered'[h])
               /\ \A x \in ToSet(offered'[h]) :
                    adding'[x] \in {"sending", "added"} /\ h \notin todo'[x]
    <3>1. CASE h = g
      BY <1>b, <2>1, <2>5, <2>7, <2>8, <3>1 DEF StreamInv, OfferedOnce
    <3>2. CASE h # g
      BY <1>b, <2>6, <2>7, <3>2 DEF StreamInv, OfferedOnce
    <3> QED BY <3>1, <3>2
  <2> QED BY <2>5, <2>6, <2>9 DEF StreamInv, OfferedOnce
<1>3. ASSUME NEW g \in Streams,
             Subscribe(g) \/ ViewerLeaves(g) \/ LeaveStep(g) \/ ForwardEnds(g)
      PROVE  StreamInv'
  <2>1. UNCHANGED <<src, dst, shown, dropped, adding, todo, offered>>
    BY <1>3 DEF Subscribe, ViewerLeaves, LeaveStep, Unsubscribe, CloseSrc, ForwardEnds,
                chanVars, addVars
  <2>2. ASSUME NEW h \in Streams PROVE fwd'[h] = fwd[h] \/ {fwd[h], fwd'[h]} \cap Entries = {}
    BY <1>0, <1>3, <1>a
    DEF Subscribe, ViewerLeaves, LeaveStep, Unsubscribe, CloseSrc, ForwardEnds,
        ChannelInv, ClosedLast
  <2>3. \A h \in Streams : Held(h)' = Held(h)
    BY <2>2 DEF Held
  <2>4. \A h \in Streams : Faithful(h)'
    BY <1>c, <2>1, <2>3
  <2> QED BY <1>d, <2>1, <2>4 DEF StreamInv
<1>4. ASSUME NEW g \in Streams, Forward(g) \/ ForwardSend(g) \/ ShowEntry(g) PROVE StreamInv'
  <2>1. UNCHANGED <<adding, todo, offered>>
    BY <1>4 DEF Forward, ForwardSend, ShowEntry, addVars
  <2>2. Faithful(g)'
    BY <1>4, FaithfulForward, FaithfulForwardSend, FaithfulShow DEF StreamInv
  <2>3. ASSUME NEW h \in Streams, h # g PROVE Faithful(h)'
    <3>1. src'[h] = src[h] /\ dst'[h] = dst[h] /\ fwd'[h] = fwd[h] /\ shown'[h] = shown[h]
          /\ (h \in dropped => h \in dropped')
      BY <1>0, <1>4, <2>3 DEF Forward, ForwardSend, ShowEntry
    <3> QED BY <1>c, <2>1, <3>1 DEF Held
  <2> QED BY <1>d, <2>1, <2>2, <2>3 DEF StreamInv
<1>5. CASE UNCHANGED logVars
  <2>1. \A h \in Streams : Faithful(h)'
    BY <1>c, <1>5 DEF logVars, Held
  <2> QED BY <1>d, <1>5, <2>1 DEF logVars, StreamInv
<1> QED BY <1>1, <1>2, <1>3, <1>4, <1>5 DEF LogNext, AddStep, StreamStep, ForwardStep

LEMMA StreamInvShows == LogShape /\ StreamInv => StreamIsFaithful
<1> SUFFICES ASSUME LogShape, StreamInv PROVE StreamIsFaithful
  OBVIOUS
<1>1. ASSUME NEW h \in Streams
      PROVE  /\ ToSet(Way(h)) \subseteq ToSet(offered[h])
             /\ \A i, j \in DOMAIN Way(h) :
                  i < j => Position(offered[h], Way(h)[i]) < Position(offered[h], Way(h)[j])
             /\ ToSet(shown[h]) \subseteq {e \in Entries : TunnelOf[e] \in Filter[h]}
             /\ h \notin dropped => Way(h) = Only(offered[h], Filter[h])
  <2>1. Faithful(h)
    BY DEF StreamInv
  <2>2. ToSet(shown[h]) \subseteq Own(Filter[h])
    BY <2>1 DEF Faithful, ToSet
  <2> QED BY <2>1, <2>2 DEF Faithful, Ordered, Own
<1> QED BY <1>1 DEF StreamIsFaithful, Way, Pipe

(* An event stream shows only entries of its own key, in the order Add     *)
(* offered them and none twice, and as long as no channel was full none is *)
(* lost, for any number of requests and viewers and any channel size.      *)
THEOREM StreamsAreFaithful == Spec => []StreamIsFaithful
<1>1. Init => LogShape /\ ChannelInv /\ StreamInv
  BY LogInitShape, LogInitChannels, LogInitStreams DEF Init
<1>2. LogShape /\ ChannelInv /\ StreamInv /\ [Next]_vars => (LogShape /\ ChannelInv /\ StreamInv)'
  BY LogNextShape, LogNextChannels, LogNextStreams, NextIsLogNext
<1> QED BY <1>1, <1>2, StreamInvShows, PTL DEF Spec
=============================================================================
