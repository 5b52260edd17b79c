-------------------------- MODULE DataPlaneProofs --------------------------
(***************************************************************************)
(* Proofs about DataPlane, for any number of units and any room on each    *)
(* way: its types, that what a peer reads is a first part of what the      *)
(* other has sent, and that a proper end comes after everything before it. *)
(***************************************************************************)
EXTENDS DataPlane, SequenceTheorems, TLAPS

(* Who writes to a way and who reads from it: each has one of both.        *)
LEMMA Ways ==
  /\ Src["upS"] = "vs" /\ Src["dnS"] = "cs" /\ Src["upC"] = "sc" /\ Src["dnC"] = "lc"
  /\ Dst["upS"] = "sc" /\ Dst["dnS"] = "sv" /\ Dst["upC"] = "cl" /\ Dst["dnC"] = "cs"
  /\ Out["visitor"] = "vs" /\ Out["service"] = "lc"
  /\ In["visitor"] = "sv" /\ In["service"] = "cl"
BY DEF Src, Dst, Out, In

LEMMA OneWriterOneReader ==
  /\ \A g \in Copiers : Src[g] \in Hops /\ Dst[g] \in Hops /\ Src[g] # Dst[g]
  /\ \A g, k \in Copiers : g # k => Src[g] # Src[k] /\ Dst[g] # Dst[k]
  /\ \A p \in Peers : Out[p] \in Hops /\ In[p] \in Hops /\ Out[p] # In[p]
  /\ \A p, r \in Peers : p # r => Out[p] # Out[r] /\ In[p] # In[r]
  /\ \A p \in Peers, g \in Copiers : Out[p] # Dst[g] /\ In[p] # Src[g]
BY Ways DEF Copiers, Peers, Hops

---------------------------------------------------------------------------
(* The shape of the state, without the bounds of TypeOK.                   *)
UnitShape ==
  /\ q \in [Hops -> Seq(Nat)] /\ hand \in [Copiers -> Nat]
  /\ got \in [Peers -> Seq(Nat)] /\ sent \in [Peers -> 0..MaxUnits]

FlagShape ==
  /\ fin \in [Hops -> BOOLEAN] /\ rd \in [Hops -> BOOLEAN]
  /\ broken \in [Links -> BOOLEAN] /\ cut \in BOOLEAN

PlaceShape ==
  /\ kind \in {"tcp", "websocket"}
  /\ go \in [Copiers -> {"off", "run", "done"}]
  /\ srv \in {"open", "request", "response", "copy", "done"}
  /\ cli \in {"none", "dial", "copy", "done"}
  /\ end \in [Peers -> {"open", "eof", "reset"}]

Shape == UnitShape /\ FlagShape /\ PlaceShape

(* Where the handlers and their goroutines are, and what they have closed. *)
Early == {"open", "request", "response"}

(* A goroutine that does not copy holds nothing, and one that is done has  *)
(* closed what it writes to.                                               *)
IdleHands == \A g \in Copiers : go[g] # "run" => hand[g] = 0
DoneCloses == \A g \in Copiers : go[g] = "done" => fin[Dst[g]]

Phases ==
  /\ srv \in Early => go["upS"] = "off" /\ go["dnS"] = "off"
  /\ srv = "open" => cli = "none"
  /\ cli \in {"none", "dial"} => go["dnC"] = "off"
  /\ go["upC"] = "off" <=> go["dnC"] = "off"
  /\ go["dnC"] = "off" => sent["service"] = 0

Sockets ==
  /\ rd["sc"] /\ rd["cs"]
  /\ ~ rd["vs"] => fin["sv"]
  /\ ~ rd["lc"] => go["dnC"] = "done"
  /\ ~ cut => \A l \in Links : ~ broken[l]
  /\ ~ cut /\ srv \in Early => ~ fin["sc"] /\ ~ fin["sv"]

(* Nothing comes after a proper end.                                       *)
Ended == \A p \in Peers : end[p] = "eof" => q[In[p]] = <<>> /\ fin[In[p]]

HandlerInv == IdleHands /\ DoneCloses /\ Phases /\ Sockets /\ Ended

(* The sequence is made of the units after unit a, up to unit b.           *)
Holds(s, a, b) == b = a + Len(s) /\ \A i \in 1..Len(s) : s[i] = a + i

(* r[h] units have been read from way h, and w[h] have been written to it  *)
(* and not been dropped.                                                   *)
OnTheWay(r, w, h) == Holds(q[h], r[h], w[h])

(* A goroutine that may still write holds the unit after the last one it   *)
(* wrote, or none; whatever it holds is the last one it read.              *)
Carries(r, w, g) ==
  /\ w[Dst[g]] <= r[Src[g]]
  /\ hand[g] # 0 => hand[g] = r[Src[g]]
  /\ ~ fin[Dst[g]] => r[Src[g]] = w[Dst[g]] + (IF hand[g] = 0 THEN 0 ELSE 1)

Sends(w, p) ==
  /\ w[Out[p]] <= sent[p]
  /\ ~ fin[Out[p]] \/ ~ cut => w[Out[p]] = sent[p]

Reads(r, p) == Holds(got[p], 0, r[In[p]])

Flow(r, w) ==
  /\ \A h \in Hops : OnTheWay(r, w, h)
  /\ \A g \in Copiers : Carries(r, w, g)
  /\ \A p \in Peers : Sends(w, p) /\ Reads(r, p)

(* Without a cut, an end is passed on after all that came before it.       *)
NeverOpened == cli = "none" /\ srv = "done"

Whole(w) ==
  ~ cut =>
    /\ fin["sv"] => w["sv"] = sent["service"] /\ (fin["cs"] \/ NeverOpened)
    /\ fin["cs"] => /\ w["cs"] = sent["service"]
                    /\ fin["lc"] \/ (go["dnC"] = "off" /\ cli = "done")
    /\ fin["sc"] => \/ w["sc"] = sent["visitor"] /\ fin["vs"]
                    \/ fin["cs"] \/ NeverOpened
    /\ fin["cl"] => \/ w["cl"] = sent["visitor"] /\ fin["vs"]
                    \/ fin["lc"]

Counts == \E r, w \in [Hops -> Nat] : Flow(r, w) /\ Whole(w)

PipeInv == Shape /\ HandlerInv /\ Counts

---------------------------------------------------------------------------
(* Sequences.                                                              *)

LEMMA AddedLast ==
  ASSUME NEW s \in Seq(Nat), NEW x \in Nat
  PROVE  /\ Append(s, x) \in Seq(Nat) /\ Len(Append(s, x)) = Len(s) + 1 /\ Len(s) \in Nat
         /\ Append(s, x)[Len(s) + 1] = x
         /\ \A i \in 1..Len(s) : Append(s, x)[i] = s[i]
BY AppendProperties, LenProperties

LEMMA TakenFirst ==
  ASSUME NEW s \in Seq(Nat), s # <<>>
  PROVE  /\ Tail(s) \in Seq(Nat) /\ Len(s) = Len(Tail(s)) + 1 /\ Len(Tail(s)) \in Nat
         /\ Head(s) = s[1] /\ Head(s) \in Nat
         /\ \A i \in 1..Len(Tail(s)) : Tail(s)[i] = s[i + 1]
<1>1. /\ Tail(s) \in Seq(Nat) /\ Len(Tail(s)) = Len(s) - 1 /\ Head(s) \in Nat
      /\ \A i \in 1..Len(Tail(s)) : Tail(s)[i] = s[i + 1]
  BY HeadTailProperties
<1>2. Len(s) \in Nat \ {0} /\ Head(s) = s[1]
  BY LenProperties, EmptySeq
<1>3. Len(Tail(s)) \in Nat
  BY <1>1, LenProperties
<1> QED BY <1>1, <1>2, <1>3

LEMMA FirstPart ==
  ASSUME NEW s \in Seq(Nat), NEW n \in 0..Len(s)
  PROVE  /\ SubSeq(s, 1, n) \in Seq(Nat) /\ Len(SubSeq(s, 1, n)) = n
         /\ \A i \in 1..n : SubSeq(s, 1, n)[i] = s[i]
<1>1. Len(s) \in Nat /\ \A i \in 1..Len(s) : s[i] \in Nat
  BY LenProperties, ElementOfSeq
<1>2. \A i \in 1..n : s[i] \in Nat
  BY <1>1
<1> QED BY <1>1, <1>2, SubSeqProperties

LEMMA LastPart ==
  ASSUME NEW s \in Seq(Nat), NEW n \in 0..Len(s)
  PROVE  /\ SubSeq(s, n + 1, Len(s)) \in Seq(Nat)
         /\ Len(SubSeq(s, n + 1, Len(s))) = Len(s) - n
         /\ \A i \in 1..Len(s) - n : SubSeq(s, n + 1, Len(s))[i] = s[n + i]
<1>1. Len(s) \in Nat /\ \A i \in 1..Len(s) : s[i] \in Nat
  BY LenProperties, ElementOfSeq
<1> DEFINE m == n + 1
           e == Len(s)
<1>2. m \in Nat /\ e \in Nat /\ n \in 0..e /\ m = n + 1 /\ e = Len(s)
  BY <1>1
<1> HIDE DEF m, e
<1>3. \A i \in m..e : s[i] \in Nat
  BY <1>1, <1>2
<1>4. /\ SubSeq(s, m, e) \in Seq(Nat)
      /\ Len(SubSeq(s, m, e)) = IF m <= e THEN e - m + 1 ELSE 0
      /\ \A i \in 1..e - m + 1 : SubSeq(s, m, e)[i] = s[m + i - 1]
  BY <1>2, <1>3, SubSeqProperties
<1>5. e - m + 1 = e - n /\ (m > e => e - n = 0) /\ \A i \in 1..e - n : m + i - 1 = n + i
  BY <1>2
<1>6. SubSeq(s, m, e) \in Seq(Nat) /\ Len(SubSeq(s, m, e)) = e - n
  BY <1>2, <1>4, <1>5
<1>7. \A i \in 1..e - n : SubSeq(s, m, e)[i] = s[n + i]
  BY <1>4, <1>5
<1> QED BY <1>6, <1>7 DEF m, e

LEMMA HoldsTail ==
  ASSUME NEW s \in Seq(Nat), s # <<>>, NEW a \in Nat, NEW b \in Nat, Holds(s, a, b)
  PROVE  Tail(s) \in Seq(Nat) /\ Head(s) = a + 1 /\ Holds(Tail(s), a + 1, b)
<1>1. /\ Tail(s) \in Seq(Nat) /\ Len(s) = Len(Tail(s)) + 1 /\ Len(Tail(s)) \in Nat
      /\ Head(s) = s[1] /\ \A i \in 1..Len(Tail(s)) : Tail(s)[i] = s[i + 1]
  BY TakenFirst
<1>2. b = a + Len(s) /\ \A i \in 1..Len(s) : s[i] = a + i
  BY DEF Holds
<1>3. \A i \in 1..Len(Tail(s)) : i + 1 \in 1..Len(s) /\ (a + 1) + i = a + (i + 1)
  BY <1>1
<1>4. s[1] = a + 1
  BY <1>1, <1>2
<1>5. \A i \in 1..Len(Tail(s)) : Tail(s)[i] = (a + 1) + i
  BY <1>1, <1>2, <1>3
<1>6. b = (a + 1) + Len(Tail(s))
  BY <1>1, <1>2
<1> QED BY <1>1, <1>4, <1>5, <1>6 DEF Holds

LEMMA HoldsAppend ==
  ASSUME NEW s \in Seq(Nat), NEW a \in Nat, NEW b \in Nat, Holds(s, a, b)
  PROVE  Append(s, b + 1) \in Seq(Nat) /\ Holds(Append(s, b + 1), a, b + 1)
<1> DEFINE t == Append(s, b + 1)
<1>1. /\ t \in Seq(Nat) /\ Len(t) = Len(s) + 1 /\ Len(s) \in Nat
      /\ t[Len(s) + 1] = b + 1 /\ \A i \in 1..Len(s) : t[i] = s[i]
  BY AddedLast
<1>2. b = a + Len(s) /\ \A i \in 1..Len(s) : s[i] = a + i
  BY DEF Holds
<1> HIDE DEF t
<1>3. \A i \in 1..Len(t) : t[i] = a + i
  <2> SUFFICES ASSUME NEW i \in 1..Len(t) PROVE t[i] = a + i
    OBVIOUS
  <2>1. CASE i \in 1..Len(s)
    BY <1>1, <1>2, <2>1
  <2>2. CASE i = Len(s) + 1
    BY <1>1, <1>2, <2>2
  <2> QED BY <1>1, <2>1, <2>2
<1>4. b + 1 = a + Len(t)
  BY <1>1, <1>2
<1>5. Holds(t, a, b + 1)
  BY <1>3, <1>4 DEF Holds
<1> QED BY <1>1, <1>5 DEF t

LEMMA HoldsFirst ==
  ASSUME NEW s \in Seq(Nat), NEW a \in Nat, NEW b \in Nat, Holds(s, a, b), NEW n \in 0..Len(s)
  PROVE  SubSeq(s, 1, n) \in Seq(Nat) /\ Holds(SubSeq(s, 1, n), a, a + n) /\ a + n <= b
<1> DEFINE t == SubSeq(s, 1, n)
<1>1. t \in Seq(Nat) /\ Len(t) = n /\ \A i \in 1..n : t[i] = s[i]
  BY FirstPart
<1>2. b = a + Len(s) /\ (\A i \in 1..Len(s) : s[i] = a + i) /\ Len(s) \in Nat
  BY LenProperties DEF Holds
<1> HIDE DEF t
<1>3. \A i \in 1..n : i \in 1..Len(s)
  BY <1>2
<1>4. \A i \in 1..n : t[i] = a + i
  BY <1>1, <1>2, <1>3
<1>5. a + n <= b
  BY <1>2
<1>6. Holds(t, a, a + n)
  BY <1>1, <1>4 DEF Holds
<1> QED BY <1>1, <1>5, <1>6 DEF t

LEMMA HoldsLast ==
  ASSUME NEW s \in Seq(Nat), NEW a \in Nat, NEW b \in Nat, Holds(s, a, b), NEW n \in 0..Len(s)
  PROVE  SubSeq(s, n + 1, Len(s)) \in Seq(Nat) /\ Holds(SubSeq(s, n + 1, Len(s)), a + n, b)
<1> DEFINE t == SubSeq(s, n + 1, Len(s))
<1>1. t \in Seq(Nat) /\ Len(t) = Len(s) - n /\ \A i \in 1..Len(s) - n : t[i] = s[n + i]
  BY LastPart
<1>2. b = a + Len(s) /\ (\A i \in 1..Len(s) : s[i] = a + i) /\ Len(s) \in Nat
  BY LenProperties DEF Holds
<1> HIDE DEF t
<1>3. \A i \in 1..Len(s) - n : n + i \in 1..Len(s) /\ a + (n + i) = (a + n) + i
  BY <1>2
<1>4. \A i \in 1..Len(t) : t[i] = (a + n) + i
  BY <1>1, <1>2, <1>3
<1>5. b = (a + n) + Len(t)
  BY <1>1, <1>2
<1>6. Holds(t, a + n, b)
  BY <1>4, <1>5 DEF Holds
<1> QED BY <1>1, <1>6 DEF t

LEMMA HoldsConcat ==
  ASSUME NEW s \in Seq(Nat), NEW t \in Seq(Nat), NEW a \in Nat, NEW b \in Nat, NEW c \in Nat,
         Holds(s, a, b), Holds(t, b, c)
  PROVE  s \o t \in Seq(Nat) /\ Holds(s \o t, a, c)
<1> DEFINE u == s \o t
<1>1. /\ u \in Seq(Nat) /\ Len(u) = Len(s) + Len(t)
      /\ \A i \in 1..Len(s) + Len(t) : u[i] = IF i <= Len(s) THEN s[i] ELSE t[i - Len(s)]
  BY ConcatProperties
<1>2. Len(s) \in Nat /\ Len(t) \in Nat
  BY LenProperties
<1>3. /\ b = a + Len(s) /\ \A i \in 1..Len(s) : s[i] = a + i
      /\ c = b + Len(t) /\ \A i \in 1..Len(t) : t[i] = b + i
  BY DEF Holds
<1> HIDE DEF u
<1>4. \A i \in 1..Len(u) : u[i] = a + i
  <2> SUFFICES ASSUME NEW i \in 1..Len(u) PROVE u[i] = a + i
    OBVIOUS
  <2>1. u[i] = IF i <= Len(s) THEN s[i] ELSE t[i - Len(s)]
    BY <1>1
  <2>2. CASE i <= Len(s)
    <3>1. i \in 1..Len(s)
      BY <1>1, <1>2, <2>2
    <3> QED BY <1>3, <2>1, <2>2, <3>1
  <2>3. CASE ~ (i <= Len(s))
    <3>1. i - Len(s) \in 1..Len(t) /\ b + (i - Len(s)) = a + i
      BY <1>1, <1>2, <1>3, <2>3
    <3> QED BY <1>3, <2>1, <2>3, <3>1
  <2> QED BY <2>2, <2>3
<1>5. c = a + Len(u)
  BY <1>1, <1>2, <1>3
<1>6. Holds(u, a, c)
  BY <1>4, <1>5 DEF Holds
<1> QED BY <1>1, <1>6 DEF u

---------------------------------------------------------------------------
(* The shape of the state.                                                 *)

LEMMA ShapeInit == Init => Shape
<1> SUFFICES ASSUME Init PROVE Shape
  OBVIOUS
<1>1. fin \in [Hops -> BOOLEAN] /\ rd \in [Hops -> BOOLEAN]
      /\ broken \in [Links -> BOOLEAN] /\ cut \in BOOLEAN
  BY Zenon DEF Init
<1>2. q \in [Hops -> Seq(Nat)] /\ got \in [Peers -> Seq(Nat)]
  BY DEF Init
<1>3. hand \in [Copiers -> Nat] /\ sent \in [Peers -> 0..MaxUnits]
  BY BoundsAssumption DEF Init
<1>4. PlaceShape
  BY DEF Init, PlaceShape
<1> QED BY <1>1, <1>2, <1>3, <1>4 DEF Shape, UnitShape, FlagShape

(* What a step does to the units on their way: nothing, one more, one      *)
(* less, a first part kept on some ways, or a first part moved to another. *)
LEMMA UnitsStay ==
  ASSUME UnitShape, [Next]_vars
  PROVE  UnitShape'
<1>0. /\ q \in [Hops -> Seq(Nat)] /\ hand \in [Copiers -> Nat]
      /\ got \in [Peers -> Seq(Nat)] /\ sent \in [Peers -> 0..MaxUnits] /\ MaxUnits \in Nat
  BY BoundsAssumption DEF UnitShape
<1>1. ASSUME NEW p \in Peers, Send(p) PROVE UnitShape'
  <2>1. sent[p] + 1 \in Nat /\ sent[p] + 1 \in 0..MaxUnits
    BY <1>0, <1>1 DEF Send
  <2>2. Append(q[Out[p]], sent[p] + 1) \in Seq(Nat)
    BY <1>0, <2>1, AddedLast, OneWriterOneReader
  <2> QED BY <1>0, <1>1, <2>1, <2>2 DEF Send, UnitShape
<1>2. ASSUME NEW p \in Peers, Receive(p) PROVE UnitShape'
  <2>1. q[In[p]] \in Seq(Nat) /\ q[In[p]] # <<>>
    BY <1>0, <1>2, OneWriterOneReader DEF Receive
  <2>2. Head(q[In[p]]) \in Nat /\ Tail(q[In[p]]) \in Seq(Nat)
    BY <2>1, TakenFirst
  <2>3. Append(got[p], Head(q[In[p]])) \in Seq(Nat)
    BY <1>0, <2>2, AddedLast
  <2> QED BY <1>0, <1>2, <2>2, <2>3 DEF Receive, UnitShape
<1>3. ASSUME NEW g \in Copiers, CopyRead(g) PROVE UnitShape'
  <2>1. q[Src[g]] \in Seq(Nat) /\ q[Src[g]] # <<>>
    BY <1>0, <1>3, OneWriterOneReader DEF CopyRead
  <2>2. Head(q[Src[g]]) \in Nat /\ Tail(q[Src[g]]) \in Seq(Nat)
    BY <2>1, TakenFirst
  <2> QED BY <1>0, <1>3, <2>2 DEF CopyRead, peers, UnitShape
<1>4. ASSUME NEW g \in Copiers, CopyWrite(g) PROVE UnitShape'
  <2>1. Append(q[Dst[g]], hand[g]) \in Seq(Nat)
    BY <1>0, AddedLast, OneWriterOneReader
  <2> QED BY <1>0, <1>4, <2>1 DEF CopyWrite, peers, UnitShape
<1>5. ASSUME NEW l \in Links, NEW keep \in BOOLEAN, Break(l, keep) PROVE UnitShape'
  <2>1. PICK k \in [HopsOf(l) -> 0..MaxUnits] :
          /\ \A h \in HopsOf(l) : k[h] <= (IF keep THEN Len(q[h]) ELSE 0)
          /\ q' = [h \in Hops |-> IF h \in HopsOf(l) THEN SubSeq(q[h], 1, k[h]) ELSE q[h]]
    BY <1>5 DEF Break
  <2>2. ASSUME NEW h \in Hops, h \in HopsOf(l) PROVE SubSeq(q[h], 1, k[h]) \in Seq(Nat)
    <3>1. q[h] \in Seq(Nat) /\ Len(q[h]) \in Nat
      BY <1>0, LenProperties
    <3>2. k[h] \in 0..Len(q[h])
      BY <1>0, <2>1, <2>2, <3>1
    <3> QED BY <3>1, <3>2, FirstPart
  <2> QED BY <1>0, <1>5, <2>1, <2>2 DEF Break, peers, UnitShape
<1>6. ASSUME NEW f \in Hops, NEW t \in Hops, f # t, NEW n \in 1..Len(q[f]), Shift(f, t, n)
      PROVE  q' \in [Hops -> Seq(Nat)]
  <2>1. q[f] \in Seq(Nat) /\ q[t] \in Seq(Nat) /\ Len(q[f]) \in Nat /\ n \in 0..Len(q[f])
    BY <1>0, LenProperties
  <2>2. SubSeq(q[f], 1, n) \in Seq(Nat) /\ SubSeq(q[f], n + 1, Len(q[f])) \in Seq(Nat)
    BY <2>1, FirstPart, LastPart
  <2>3. q[t] \o SubSeq(q[f], 1, n) \in Seq(Nat)
    BY <2>1, <2>2, ConcatProperties
  <2> QED BY <1>0, <1>6, <2>2, <2>3 DEF Shift
<1>7. CASE WebSocketRequest
  <2>1. PICK n \in 1..Len(q["vs"]) : Shift("vs", "sc", n)
    BY <1>7 DEF WebSocketRequest
  <2>2. q' \in [Hops -> Seq(Nat)]
    BY <1>6, <2>1 DEF Hops
  <2> QED BY <1>0, <1>7, <2>2 DEF WebSocketRequest, peers, UnitShape
<1>8. CASE WebSocketResponse
  <2>1. PICK n \in 1..Len(q["cs"]) : Shift("cs", "sv", n)
    BY <1>8 DEF WebSocketResponse
  <2>2. q' \in [Hops -> Seq(Nat)]
    BY <1>6, <2>1 DEF Hops
  <2> QED BY <1>0, <1>8, <2>2 DEF WebSocketResponse, peers, UnitShape
<1>9. ASSUME NEW g \in Copiers, CopyOver(g), q' = q, UNCHANGED peers PROVE UnitShape'
  BY <1>0, <1>9 DEF CopyOver, peers, UnitShape
<1>10. CASE ServerUpEnds \/ ServerDownEnds \/ ClientUpEnds \/ ClientDownEnds
  BY <1>9, <1>10 DEF ServerUpEnds, ServerDownEnds, ClientUpEnds, ClientDownEnds, Copiers
<1>11. CASE UNCHANGED <<q, hand, sent, got>>
  BY <1>0, <1>11 DEF UnitShape
<1>12. CASE \/ \E l \in Links : Reset(l)
            \/ SessionLost \/ StreamCloseTimeout
  <2>1. \E l \in Links, keep \in BOOLEAN : Break(l, keep)
    <3>1. "str" \in Links /\ TRUE \in BOOLEAN /\ FALSE \in BOOLEAN
      BY DEF Links
    <3> QED BY <1>12, <3>1, Zenon DEF Reset, SessionLost, StreamCloseTimeout
  <2> QED BY <1>5, <2>1
<1>13. CASE ServerStep \/ ClientStep
  <2>1. ASSUME \/ OpenStream \/ OpenFails \/ NoRequest \/ WebSocketFails \/ ServerDone
               \/ DialSucceeds \/ DialFails \/ ClientDone
        PROVE  UNCHANGED <<q, hand, sent, got>>
    BY <2>1 DEF OpenStream, OpenFails, NoRequest, WebSocketFails, ServerDone, ServerReturns,
         DialSucceeds, DialFails, ClientDone, net, peers
  <2> QED BY <1>7, <1>8, <1>10, <1>11, <1>13, <2>1 DEF ServerStep, ClientStep
<1>14. CASE \/ \E g \in Copiers : Copying(g)
            \/ \E p \in Peers : Send(p) \/ FinishSending(p) \/ CloseSocket(p)
                                \/ Receive(p) \/ SeesEnd(p)
  <2>1. ASSUME NEW p \in Peers, FinishSending(p) \/ CloseSocket(p) \/ SeesEnd(p)
        PROVE  UNCHANGED <<q, hand, sent, got>>
    BY <2>1 DEF FinishSending, CloseSocket, SeesEnd, net, peers
  <2> QED BY <1>1, <1>2, <1>3, <1>4, <1>11, <1>14, <2>1 DEF Copying
<1>15. CASE AllQuiet \/ UNCHANGED vars
  BY <1>11, <1>15 DEF AllQuiet, vars
<1> QED BY <1>12, <1>13, <1>14, <1>15 DEF Next

LEMMA FlagSet ==
  ASSUME NEW D, NEW f \in [D -> BOOLEAN], NEW h
  PROVE  /\ [f EXCEPT ![h] = TRUE] \in [D -> BOOLEAN]
         /\ [f EXCEPT ![h] = FALSE] \in [D -> BOOLEAN]
OBVIOUS

LEMMA FlagsStay ==
  ASSUME FlagShape, [Next]_vars
  PROVE  FlagShape'
<1>0. fin \in [Hops -> BOOLEAN] /\ rd \in [Hops -> BOOLEAN]
      /\ broken \in [Links -> BOOLEAN] /\ cut \in BOOLEAN
  BY DEF FlagShape
<1>1. ASSUME UNCHANGED <<broken, cut>>, fin' \in [Hops -> BOOLEAN], rd' \in [Hops -> BOOLEAN]
      PROVE  FlagShape'
  BY <1>0, <1>1 DEF FlagShape
<1>2. ASSUME NEW l, NEW keep, Break(l, keep) PROVE FlagShape'
  <2>1. fin' \in [Hops -> BOOLEAN]
    <3>1. fin' = [h \in Hops |-> fin[h] \/ h \in HopsOf(l)]
      BY <1>2 DEF Break
    <3> QED BY <3>1
  <2>2. broken' \in [Links -> BOOLEAN]
    <3>1. broken' = [broken EXCEPT ![l] = TRUE]
      BY <1>2 DEF Break
    <3> QED BY <1>0, <3>1, FlagSet
  <2>3. cut' \in BOOLEAN /\ rd' \in [Hops -> BOOLEAN]
    <3>1. cut' = TRUE /\ rd' = rd
      BY <1>2 DEF Break
    <3> QED BY <1>0, <3>1
  <2> QED BY <2>1, <2>2, <2>3 DEF FlagShape
<1>3. ASSUME ServerReturns PROVE FlagShape'
  <2>1. /\ fin' = [[fin EXCEPT !["sc"] = TRUE] EXCEPT !["sv"] = TRUE]
        /\ rd' = [rd EXCEPT !["vs"] = FALSE] /\ UNCHANGED <<broken, cut>>
    BY <1>3 DEF ServerReturns
  <2> QED BY <1>0, <1>1, <2>1, FlagSet
<1>4. ASSUME NEW h, fin' = [fin EXCEPT ![h] = TRUE], UNCHANGED <<rd, broken, cut>>
      PROVE  FlagShape'
  BY <1>0, <1>1, <1>4, FlagSet
<1>5. ASSUME NEW h, NEW k, fin' = [fin EXCEPT ![h] = TRUE], rd' = [rd EXCEPT ![k] = FALSE],
             UNCHANGED <<broken, cut>>
      PROVE  FlagShape'
  BY <1>0, <1>1, <1>5, FlagSet
<1>6. ASSUME UNCHANGED <<fin, rd, broken, cut>> PROVE FlagShape'
  BY <1>0, <1>1, <1>6
<1>7. CASE ServerStep
  <2>1. CASE OpenFails \/ NoRequest \/ WebSocketFails \/ ServerDone
    BY <1>3, <2>1 DEF OpenFails, NoRequest, WebSocketFails, ServerDone
  <2>2. CASE OpenStream \/ WebSocketRequest \/ WebSocketResponse
    BY <1>6, <2>2 DEF OpenStream, WebSocketRequest, WebSocketResponse, net
  <2>3. CASE ServerUpEnds
    BY <1>4, <2>3 DEF ServerUpEnds
  <2>4. CASE ServerDownEnds
    BY <1>5, <2>4 DEF ServerDownEnds
  <2> QED BY <1>7, <2>1, <2>2, <2>3, <2>4 DEF ServerStep
<1>8. CASE ClientStep
  <2>1. CASE DialSucceeds
    BY <1>6, <2>1 DEF DialSucceeds, net
  <2>2. CASE DialFails
    BY <1>4, <2>2 DEF DialFails
  <2>3. CASE ClientUpEnds
    BY <1>4, <2>3 DEF ClientUpEnds
  <2>4. CASE ClientDownEnds
    BY <1>4, <2>4 DEF ClientDownEnds
  <2>5. CASE ClientDone
    <3>1. /\ fin' = [[fin EXCEPT !["cl"] = TRUE] EXCEPT !["cs"] = TRUE]
          /\ rd' = [rd EXCEPT !["lc"] = FALSE] /\ UNCHANGED <<broken, cut>>
      BY <2>5 DEF ClientDone
    <3> QED BY <1>0, <1>1, <3>1, FlagSet
  <2> QED BY <1>8, <2>1, <2>2, <2>3, <2>4, <2>5 DEF ClientStep
<1>9. ASSUME NEW p \in Peers, \/ Send(p) \/ FinishSending(p) \/ CloseSocket(p)
                              \/ Receive(p) \/ SeesEnd(p)
      PROVE  FlagShape'
  <2>1. CASE Send(p) \/ Receive(p) \/ SeesEnd(p)
    BY <1>6, <2>1 DEF Send, Receive, SeesEnd, net
  <2>2. CASE FinishSending(p)
    BY <1>4, <2>2 DEF FinishSending
  <2>3. CASE CloseSocket(p)
    BY <1>5, <2>3 DEF CloseSocket
  <2> QED BY <1>9, <2>1, <2>2, <2>3
<1>10. ASSUME NEW g \in Copiers, Copying(g) PROVE FlagShape'
  BY <1>6, <1>10 DEF Copying, CopyRead, CopyWrite
<1>11. CASE (\E l \in Links : Reset(l)) \/ SessionLost \/ StreamCloseTimeout
  BY <1>2, <1>11 DEF Reset, SessionLost, StreamCloseTimeout
<1>12. CASE AllQuiet \/ UNCHANGED vars
  BY <1>6, <1>12 DEF AllQuiet, vars
<1> QED BY <1>7, <1>8, <1>9, <1>10, <1>11, <1>12 DEF Next

LEMMA PlacesStay ==
  ASSUME PlaceShape, [Next]_vars
  PROVE  PlaceShape'
<1>1. ASSUME NEW g, CopyOver(g), UNCHANGED <<kind, srv, cli, end>> PROVE PlaceShape'
  BY <1>1 DEF CopyOver, PlaceShape
<1>2. ASSUME ServerReturns PROVE PlaceShape'
  BY <1>2 DEF ServerReturns, peers, PlaceShape
<1>3. ASSUME NEW l, NEW keep, Break(l, keep) PROVE PlaceShape'
  BY <1>3 DEF Break, peers, PlaceShape
<1>4. ASSUME UNCHANGED <<kind, go, srv, cli, end>> PROVE PlaceShape'
  BY <1>4 DEF PlaceShape
<1>5. CASE ServerStep
  <2>1. CASE OpenFails \/ NoRequest \/ WebSocketFails \/ ServerDone
    BY <1>2, <2>1 DEF OpenFails, NoRequest, WebSocketFails, ServerDone
  <2>2. CASE OpenStream
    BY <2>2 DEF OpenStream, StartCopying, peers, PlaceShape
  <2>3. CASE WebSocketRequest \/ WebSocketResponse
    BY <2>3 DEF WebSocketRequest, WebSocketResponse, StartCopying, peers, PlaceShape
  <2>4. CASE ServerUpEnds \/ ServerDownEnds
    BY <1>1, <2>4 DEF ServerUpEnds, ServerDownEnds, peers
  <2> QED BY <1>5, <2>1, <2>2, <2>3, <2>4 DEF ServerStep
<1>6. CASE ClientStep
  <2>1. CASE DialSucceeds \/ DialFails \/ ClientDone
    BY <2>1 DEF DialSucceeds, DialFails, ClientDone, StartCopying, peers, PlaceShape
  <2>2. CASE ClientUpEnds \/ ClientDownEnds
    BY <1>1, <2>2 DEF ClientUpEnds, ClientDownEnds, peers
  <2> QED BY <1>6, <2>1, <2>2 DEF ClientStep
<1>7. ASSUME NEW p \in Peers, \/ Send(p) \/ FinishSending(p) \/ CloseSocket(p)
                              \/ Receive(p) \/ SeesEnd(p)
      PROVE  PlaceShape'
  <2>1. CASE Send(p) \/ FinishSending(p) \/ CloseSocket(p) \/ Receive(p)
    BY <1>4, <2>1 DEF Send, FinishSending, CloseSocket, Receive, peers
  <2>2. CASE SeesEnd(p)
    BY <2>2 DEF SeesEnd, PlaceShape
  <2> QED BY <1>7, <2>1, <2>2
<1>8. ASSUME NEW g \in Copiers, Copying(g) PROVE PlaceShape'
  BY <1>4, <1>8 DEF Copying, CopyRead, CopyWrite, peers
<1>9. CASE (\E l \in Links : Reset(l)) \/ SessionLost \/ StreamCloseTimeout
  BY <1>3, <1>9 DEF Reset, SessionLost, StreamCloseTimeout
<1>10. CASE AllQuiet \/ UNCHANGED vars
  BY <1>4, <1>10 DEF AllQuiet, vars
<1> QED BY <1>5, <1>6, <1>7, <1>8, <1>9, <1>10 DEF Next

LEMMA ShapeStep ==
  ASSUME Shape, [Next]_vars
  PROVE  Shape'
BY UnitsStay, FlagsStay, PlacesStay DEF Shape

---------------------------------------------------------------------------
(* The units on their way, one lemma for each thing a step does to them.   *)

(* One unit leaves a way.                                                  *)
LEMMA OneLess ==
  ASSUME UnitShape, NEW r \in [Hops -> Nat], NEW w \in [Hops -> Nat],
         \A h \in Hops : OnTheWay(r, w, h),
         NEW h \in Hops, q[h] # <<>>, q' = [q EXCEPT ![h] = Tail(@)]
  PROVE  /\ [r EXCEPT ![h] = @ + 1] \in [Hops -> Nat]
         /\ Head(q[h]) = r[h] + 1
         /\ \A k \in Hops : OnTheWay([r EXCEPT ![h] = @ + 1], w, k)'
<1> DEFINE r2 == [r EXCEPT ![h] = @ + 1]
<1>1. r2 \in [Hops -> Nat] /\ r2[h] = r[h] + 1 /\ \A k \in Hops \ {h} : r2[k] = r[k]
  OBVIOUS
<1>2. q \in [Hops -> Seq(Nat)] /\ q'[h] = Tail(q[h]) /\ \A k \in Hops \ {h} : q'[k] = q[k]
  BY DEF UnitShape
<1>3. Head(q[h]) = r[h] + 1 /\ Holds(Tail(q[h]), r[h] + 1, w[h])
  BY <1>2, HoldsTail DEF OnTheWay
<1> HIDE DEF r2
<1>4. \A k \in Hops : OnTheWay(r2, w, k)'
  BY <1>1, <1>2, <1>3 DEF OnTheWay
<1> QED BY <1>1, <1>3, <1>4 DEF r2

(* The next unit goes on a way.                                            *)
LEMMA OneMore ==
  ASSUME UnitShape, NEW r \in [Hops -> Nat], NEW w \in [Hops -> Nat],
         \A h \in Hops : OnTheWay(r, w, h),
         NEW h \in Hops, q' = [q EXCEPT ![h] = Append(@, w[h] + 1)]
  PROVE  /\ [w EXCEPT ![h] = @ + 1] \in [Hops -> Nat]
         /\ \A k \in Hops : OnTheWay(r, [w EXCEPT ![h] = @ + 1], k)'
<1> DEFINE w2 == [w EXCEPT ![h] = @ + 1]
<1>1. w2 \in [Hops -> Nat] /\ w2[h] = w[h] + 1 /\ \A k \in Hops \ {h} : w2[k] = w[k]
  OBVIOUS
<1>2. /\ q \in [Hops -> Seq(Nat)] /\ q'[h] = Append(q[h], w[h] + 1)
      /\ \A k \in Hops \ {h} : q'[k] = q[k]
  BY DEF UnitShape
<1>3. Holds(Append(q[h], w[h] + 1), r[h], w[h] + 1)
  BY <1>2, HoldsAppend DEF OnTheWay
<1> HIDE DEF w2
<1>4. \A k \in Hops : OnTheWay(r, w2, k)'
  BY <1>1, <1>2, <1>3 DEF OnTheWay
<1> QED BY <1>1, <1>4 DEF w2

(* The first n units of a way go to the next, which had all before them.   *)
LEMMA SomeMove ==
  ASSUME UnitShape, NEW r \in [Hops -> Nat], NEW w \in [Hops -> Nat],
         \A h \in Hops : OnTheWay(r, w, h),
         NEW f \in Hops, NEW t \in Hops, f # t, r[f] = w[t],
         NEW n \in 1..Len(q[f]), Shift(f, t, n)
  PROVE  /\ [r EXCEPT ![f] = @ + n] \in [Hops -> Nat]
         /\ [w EXCEPT ![t] = @ + n] \in [Hops -> Nat]
         /\ \A k \in Hops : OnTheWay([r EXCEPT ![f] = @ + n], [w EXCEPT ![t] = @ + n], k)'
<1> DEFINE r2 == [r EXCEPT ![f] = @ + n]
           w2 == [w EXCEPT ![t] = @ + n]
           s == SubSeq(q[f], 1, n)
           e == SubSeq(q[f], n + 1, Len(q[f]))
<1>1. q[f] \in Seq(Nat) /\ q[t] \in Seq(Nat) /\ Len(q[f]) \in Nat /\ n \in 0..Len(q[f])
  BY LenProperties DEF UnitShape
<1>2. /\ r2 \in [Hops -> Nat] /\ r2[f] = r[f] + n /\ \A k \in Hops \ {f} : r2[k] = r[k]
      /\ w2 \in [Hops -> Nat] /\ w2[t] = w[t] + n /\ \A k \in Hops \ {t} : w2[k] = w[k]
  BY <1>1
<1>3. q'[f] = e /\ q'[t] = q[t] \o s /\ \A k \in Hops \ {f, t} : q'[k] = q[k]
  BY DEF Shift, UnitShape
<1>4. Holds(q[f], r[f], w[f]) /\ Holds(q[t], r[t], w[t])
  BY DEF OnTheWay
<1>5. s \in Seq(Nat) /\ Holds(s, r[f], r[f] + n)
  BY <1>1, <1>4, HoldsFirst
<1>6. Holds(e, r[f] + n, w[f])
  BY <1>1, <1>4, HoldsLast
<1> HIDE DEF r2, w2, s, e
<1>7. Holds(q[t] \o s, r[t], w[t] + n)
  BY <1>1, <1>4, <1>5, HoldsConcat
<1>8. \A k \in Hops : OnTheWay(r2, w2, k)'
  BY <1>2, <1>3, <1>6, <1>7 DEF OnTheWay
<1> QED BY <1>2, <1>8 DEF r2, w2

(* A step that closes ways and leaves the units where they are.            *)
LEMMA FlowStays ==
  ASSUME NEW r \in [Hops -> Nat], NEW w \in [Hops -> Nat], Flow(r, w),
         UNCHANGED <<q, hand, sent, got, cut>>, \A h \in Hops : fin[h] => fin'[h]
  PROVE  Flow(r, w)'
<1>1. \A h \in Hops : OnTheWay(r, w, h)'
  BY DEF Flow, OnTheWay
<1>2. \A g \in Copiers : Carries(r, w, g)'
  BY OneWriterOneReader DEF Flow, Carries
<1>3. \A p \in Peers : Sends(w, p)' /\ Reads(r, p)'
  BY OneWriterOneReader DEF Flow, Sends, Reads
<1> QED BY <1>1, <1>2, <1>3 DEF Flow

(* io.Copy returns and its goroutine closes what it writes: a unit it      *)
(* could not write is dropped.                                             *)
LEMMA FlowCopyOver ==
  ASSUME NEW r \in [Hops -> Nat], NEW w \in [Hops -> Nat], Flow(r, w),
         hand \in [Copiers -> Nat],
         NEW g \in Copiers, hand' = [hand EXCEPT ![g] = 0], fin'[Dst[g]],
         UNCHANGED <<q, sent, got, cut>>, \A h \in Hops : fin[h] => fin'[h]
  PROVE  Flow(r, w)'
<1>1. \A h \in Hops : OnTheWay(r, w, h)'
  BY DEF Flow, OnTheWay
<1>2. ASSUME NEW k \in Copiers PROVE Carries(r, w, k)'
  <2>1. CASE k = g
    BY <2>1 DEF Flow, Carries
  <2>2. CASE k # g
    BY <2>2, OneWriterOneReader DEF Flow, Carries
  <2> QED BY <2>1, <2>2
<1>3. \A p \in Peers : Sends(w, p)' /\ Reads(r, p)'
  BY OneWriterOneReader DEF Flow, Sends, Reads
<1> QED BY <1>1, <1>2, <1>3 DEF Flow

LEMMA FlowReceive ==
  ASSUME UnitShape, NEW r \in [Hops -> Nat], NEW w \in [Hops -> Nat], Flow(r, w),
         NEW p \in Peers, Receive(p)
  PROVE  \E r2 \in [Hops -> Nat] : Flow(r2, w)'
<1> DEFINE h == In[p]
           r2 == [r EXCEPT ![h] = @ + 1]
<1>0. h \in Hops /\ UNCHANGED <<fin, hand, sent, cut>>
  BY OneWriterOneReader DEF Receive
<1>1. /\ r2 \in [Hops -> Nat] /\ Head(q[h]) = r[h] + 1
      /\ \A k \in Hops : OnTheWay(r2, w, k)'
  BY <1>0, OneLess DEF Receive, Flow
<1>2. r2[h] = r[h] + 1 /\ \A k \in Hops \ {h} : r2[k] = r[k]
  BY <1>0
<1> HIDE DEF r2
<1>3. ASSUME NEW g \in Copiers PROVE Carries(r2, w, g)'
  BY <1>0, <1>2, OneWriterOneReader DEF Flow, Carries
<1>4. ASSUME NEW k \in Peers PROVE Sends(w, k)' /\ Reads(r2, k)'
  <2>1. Sends(w, k)'
    BY <1>0 DEF Flow, Sends
  <2>2. CASE k = p
    <3>1. got[p] \in Seq(Nat) /\ Holds(got[p], 0, r[h])
      BY DEF UnitShape, Flow, Reads
    <3>2. r[h] \in Nat /\ Holds(Append(got[p], r[h] + 1), 0, r[h] + 1)
      BY <1>0, <3>1, HoldsAppend
    <3>3. got'[p] = Append(got[p], r[h] + 1)
      BY <1>1 DEF Receive, UnitShape
    <3> QED BY <1>2, <2>1, <2>2, <3>2, <3>3 DEF Reads
  <2>3. CASE k # p
    <3>1. got'[k] = got[k] /\ r2[In[k]] = r[In[k]]
      BY <1>2, <2>3, OneWriterOneReader DEF Receive, UnitShape
    <3> QED BY <2>1, <3>1 DEF Flow, Reads
  <2> QED BY <2>2, <2>3
<1> QED BY <1>1, <1>3, <1>4 DEF Flow

LEMMA FlowCopyRead ==
  ASSUME UnitShape, NEW r \in [Hops -> Nat], NEW w \in [Hops -> Nat], Flow(r, w),
         NEW g \in Copiers, CopyRead(g)
  PROVE  \E r2 \in [Hops -> Nat] : Flow(r2, w)'
<1> DEFINE h == Src[g]
           r2 == [r EXCEPT ![h] = @ + 1]
<1>0. h \in Hops /\ UNCHANGED <<fin, sent, got, cut>> /\ hand[g] = 0
  BY OneWriterOneReader DEF CopyRead, peers
<1>1. /\ r2 \in [Hops -> Nat] /\ Head(q[h]) = r[h] + 1
      /\ \A k \in Hops : OnTheWay(r2, w, k)'
  BY <1>0, OneLess DEF CopyRead, Flow
<1>2. r2[h] = r[h] + 1 /\ \A k \in Hops \ {h} : r2[k] = r[k]
  BY <1>0
<1>3. hand'[g] = r[h] + 1 /\ \A k \in Copiers \ {g} : hand'[k] = hand[k]
  BY <1>1 DEF CopyRead, UnitShape
<1> HIDE DEF r2
<1>4. ASSUME NEW k \in Copiers PROVE Carries(r2, w, k)'
  <2>1. Carries(r, w, k) /\ Dst[k] \in Hops /\ Src[k] \in Hops
    BY OneWriterOneReader DEF Flow
  <2>2. CASE k = g
    BY <1>0, <1>2, <1>3, <2>1, <2>2 DEF Carries
  <2>3. CASE k # g
    <3>1. Src[k] # h
      BY <2>3, OneWriterOneReader
    <3> QED BY <1>0, <1>2, <1>3, <2>1, <2>3, <3>1 DEF Carries
  <2> QED BY <2>2, <2>3
<1>5. ASSUME NEW k \in Peers PROVE Sends(w, k)' /\ Reads(r2, k)'
  BY <1>0, <1>2, OneWriterOneReader DEF Flow, Sends, Reads
<1> QED BY <1>1, <1>4, <1>5 DEF Flow

(* What has been closed gets no more units.                                *)
Kept(w, w2) == \A h \in Hops : fin[h] => w2[h] = w[h]

LEMMA FlowSend ==
  ASSUME UnitShape, NEW r \in [Hops -> Nat], NEW w \in [Hops -> Nat], Flow(r, w),
         NEW p \in Peers, Send(p)
  PROVE  \E w2 \in [Hops -> Nat] : Flow(r, w2)' /\ Kept(w, w2)
<1> DEFINE h == Out[p]
           w2 == [w EXCEPT ![h] = @ + 1]
<1>0. h \in Hops /\ ~ fin[h] /\ UNCHANGED <<fin, hand, got, cut>>
  BY OneWriterOneReader DEF Send, WriteFails
<1>1. w[h] = sent[p]
  BY <1>0 DEF Flow, Sends
<1>2. q' = [q EXCEPT ![h] = Append(@, w[h] + 1)]
  BY <1>1 DEF Send
<1>3. w2 \in [Hops -> Nat] /\ \A k \in Hops : OnTheWay(r, w2, k)'
  BY <1>0, <1>2, OneMore DEF Flow
<1>4. w2[h] = w[h] + 1 /\ \A k \in Hops \ {h} : w2[k] = w[k]
  BY <1>0
<1>5. sent'[p] = sent[p] + 1 /\ \A k \in Peers \ {p} : sent'[k] = sent[k]
  BY DEF Send, UnitShape
<1> HIDE DEF w2
<1>6. ASSUME NEW g \in Copiers PROVE Carries(r, w2, g)'
  <2>1. Carries(r, w, g) /\ w2[Dst[g]] = w[Dst[g]]
    BY <1>4, OneWriterOneReader DEF Flow
  <2> QED BY <1>0, <2>1 DEF Carries
<1>7. ASSUME NEW k \in Peers PROVE Sends(w2, k)' /\ Reads(r, k)'
  <2>1. Sends(w, k) /\ Reads(r, k) /\ Out[k] \in Hops /\ sent[k] \in Nat
    BY OneWriterOneReader DEF Flow, UnitShape
  <2>2. Reads(r, k)'
    BY <1>0, <2>1 DEF Reads
  <2>3. CASE k = p
    BY <1>0, <1>1, <1>4, <1>5, <2>1, <2>2, <2>3 DEF Sends
  <2>4. CASE k # p
    <3>1. Out[k] # h
      BY <2>4, OneWriterOneReader
    <3> QED BY <1>0, <1>4, <1>5, <2>1, <2>2, <2>4, <3>1 DEF Sends
  <2> QED BY <2>3, <2>4
<1>8. Kept(w, w2)
  BY <1>0, <1>4 DEF Kept
<1> QED BY <1>3, <1>6, <1>7, <1>8 DEF Flow

LEMMA FlowCopyWrite ==
  ASSUME UnitShape, NEW r \in [Hops -> Nat], NEW w \in [Hops -> Nat], Flow(r, w),
         NEW g \in Copiers, CopyWrite(g)
  PROVE  \E w2 \in [Hops -> Nat] : Flow(r, w2)' /\ Kept(w, w2)
<1> DEFINE h == Dst[g]
           w2 == [w EXCEPT ![h] = @ + 1]
<1>0. h \in Hops /\ ~ fin[h] /\ UNCHANGED <<fin, sent, got, cut>>
  BY OneWriterOneReader DEF CopyWrite, WriteFails, peers
<1>1. hand[g] = r[Src[g]] /\ r[Src[g]] = w[h] + 1
  <2>1. Carries(r, w, g) /\ hand[g] # 0
    BY DEF Flow, CopyWrite
  <2> QED BY <1>0, <2>1 DEF Carries
<1>2. q' = [q EXCEPT ![h] = Append(@, w[h] + 1)]
  BY <1>1 DEF CopyWrite
<1>3. w2 \in [Hops -> Nat] /\ \A k \in Hops : OnTheWay(r, w2, k)'
  BY <1>0, <1>2, OneMore DEF Flow
<1>4. w2[h] = w[h] + 1 /\ \A k \in Hops \ {h} : w2[k] = w[k]
  BY <1>0
<1>5. hand'[g] = 0 /\ \A k \in Copiers \ {g} : hand'[k] = hand[k]
  BY DEF CopyWrite, UnitShape
<1> HIDE DEF w2
<1>6. ASSUME NEW k \in Copiers PROVE Carries(r, w2, k)'
  <2>1. Carries(r, w, k) /\ Dst[k] \in Hops /\ Src[k] \in Hops
    BY OneWriterOneReader DEF Flow
  <2>2. CASE k = g
    BY <1>0, <1>1, <1>4, <1>5, <2>1, <2>2 DEF Carries
  <2>3. CASE k # g
    <3>1. Dst[k] # h
      BY <2>3, OneWriterOneReader
    <3> QED BY <1>0, <1>4, <1>5, <2>1, <2>3, <3>1 DEF Carries
  <2> QED BY <2>2, <2>3
<1>7. ASSUME NEW k \in Peers PROVE Sends(w2, k)' /\ Reads(r, k)'
  <2>1. Sends(w, k) /\ Reads(r, k) /\ w2[Out[k]] = w[Out[k]]
    BY <1>4, OneWriterOneReader DEF Flow
  <2> QED BY <1>0, <2>1 DEF Sends, Reads
<1>8. Kept(w, w2)
  BY <1>0, <1>4 DEF Kept
<1> QED BY <1>3, <1>6, <1>7, <1>8 DEF Flow

(* The flushes of proxyWebSocket, before the goroutine on that way runs.   *)
LEMMA FlowShift ==
  ASSUME UnitShape, NEW r \in [Hops -> Nat], NEW w \in [Hops -> Nat], Flow(r, w),
         NEW g \in Copiers, hand[g] = 0, ~ fin[Dst[g]],
         NEW n \in 1..Len(q[Src[g]]), Shift(Src[g], Dst[g], n),
         UNCHANGED <<fin, hand, sent, got, cut>>
  PROVE  \E r2, w2 \in [Hops -> Nat] : Flow(r2, w2)' /\ Kept(w, w2)
<1> DEFINE f == Src[g]
           t == Dst[g]
           r2 == [r EXCEPT ![f] = @ + n]
           w2 == [w EXCEPT ![t] = @ + n]
<1>0. f \in Hops /\ t \in Hops /\ f # t
  BY OneWriterOneReader
<1>1. r[f] = w[t]
  <2>1. Carries(r, w, g)
    BY DEF Flow
  <2> QED BY <1>0, <2>1 DEF Carries
<1>2. /\ r2 \in [Hops -> Nat] /\ w2 \in [Hops -> Nat]
      /\ \A k \in Hops : OnTheWay(r2, w2, k)'
  BY <1>0, <1>1, SomeMove DEF Flow
<1>3. n \in Nat
  BY <1>0, LenProperties DEF UnitShape
<1>4. /\ r2[f] = r[f] + n /\ \A k \in Hops \ {f} : r2[k] = r[k]
      /\ w2[t] = w[t] + n /\ \A k \in Hops \ {t} : w2[k] = w[k]
  BY <1>0, <1>3
<1> HIDE DEF r2, w2
<1>5. ASSUME NEW k \in Copiers PROVE Carries(r2, w2, k)'
  <2>1. Carries(r, w, k) /\ Dst[k] \in Hops /\ Src[k] \in Hops
    BY OneWriterOneReader DEF Flow
  <2>2. CASE k = g
    BY <1>0, <1>1, <1>3, <1>4, <2>1, <2>2 DEF Carries
  <2>3. CASE k # g
    <3>1. Dst[k] # t /\ Src[k] # f
      BY <2>3, OneWriterOneReader
    <3> QED BY <1>4, <2>1, <3>1 DEF Carries
  <2> QED BY <2>2, <2>3
<1>6. ASSUME NEW k \in Peers PROVE Sends(w2, k)' /\ Reads(r2, k)'
  <2>1. /\ Sends(w, k) /\ Reads(r, k)
        /\ w2[Out[k]] = w[Out[k]] /\ r2[In[k]] = r[In[k]]
    BY <1>4, OneWriterOneReader DEF Flow
  <2> QED BY <2>1 DEF Sends, Reads
<1>7. Kept(w, w2)
  BY <1>4 DEF Kept
<1> QED BY <1>2, <1>5, <1>6, <1>7 DEF Flow

(* A link breaks: it is closed and a first part of what it held remains.   *)
LEMMA FlowBreak ==
  ASSUME UnitShape, NEW r \in [Hops -> Nat], NEW w \in [Hops -> Nat], Flow(r, w),
         NEW l \in Links, NEW keep \in BOOLEAN, Break(l, keep)
  PROVE  \E w2 \in [Hops -> Nat] : Flow(r, w2)'
<1>1. PICK k \in [HopsOf(l) -> 0..MaxUnits] :
        /\ \A h \in HopsOf(l) : k[h] <= (IF keep THEN Len(q[h]) ELSE 0)
        /\ q' = [h \in Hops |-> IF h \in HopsOf(l) THEN SubSeq(q[h], 1, k[h]) ELSE q[h]]
  BY DEF Break
<1> DEFINE w2 == [h \in Hops |-> IF h \in HopsOf(l) THEN r[h] + k[h] ELSE w[h]]
<1>2. /\ cut' = TRUE /\ UNCHANGED <<hand, sent, got>>
      /\ \A h \in Hops : fin'[h] <=> fin[h] \/ h \in HopsOf(l)
  BY DEF Break, peers
<1>3. ASSUME NEW h \in Hops
      PROVE  w2[h] \in Nat /\ w2[h] <= w[h] /\ OnTheWay(r, w2, h)'
  <2>1. q[h] \in Seq(Nat) /\ Len(q[h]) \in Nat /\ Holds(q[h], r[h], w[h])
    BY LenProperties DEF UnitShape, Flow, OnTheWay
  <2>2. CASE h \in HopsOf(l)
    <3>1. k[h] \in 0..Len(q[h]) /\ k[h] \in Nat
      BY <1>1, <2>1, <2>2, BoundsAssumption
    <3>2. Holds(SubSeq(q[h], 1, k[h]), r[h], r[h] + k[h]) /\ r[h] + k[h] <= w[h]
      BY <2>1, <3>1, HoldsFirst
    <3>3. w2[h] = r[h] + k[h] /\ q'[h] = SubSeq(q[h], 1, k[h])
      BY <1>1, <2>2
    <3> HIDE DEF w2
    <3> QED BY <3>1, <3>2, <3>3 DEF OnTheWay
  <2>3. CASE h \notin HopsOf(l)
    <3>1. w2[h] = w[h] /\ q'[h] = q[h]
      BY <1>1, <2>3
    <3> HIDE DEF w2
    <3> QED BY <2>1, <3>1 DEF OnTheWay
  <2> QED BY <2>2, <2>3
<1>4. w2 \in [Hops -> Nat]
  BY <1>3
<1>5. \A h \in Hops : ~ fin'[h] => w2[h] = w[h] /\ ~ fin[h]
  BY <1>2
<1> HIDE DEF w2
<1>6. ASSUME NEW g \in Copiers PROVE Carries(r, w2, g)'
  <2>1. Carries(r, w, g) /\ Dst[g] \in Hops /\ Src[g] \in Hops
    BY OneWriterOneReader DEF Flow
  <2>2. w2[Dst[g]] <= w[Dst[g]] /\ w2[Dst[g]] \in Nat
    BY <1>3, <2>1
  <2> QED BY <1>2, <1>5, <2>1, <2>2 DEF Carries
<1>7. ASSUME NEW p \in Peers PROVE Sends(w2, p)' /\ Reads(r, p)'
  <2>1. Sends(w, p) /\ Reads(r, p) /\ Out[p] \in Hops /\ sent[p] \in Nat
    BY OneWriterOneReader DEF Flow, UnitShape
  <2>2. w2[Out[p]] <= w[Out[p]] /\ w2[Out[p]] \in Nat
    BY <1>3, <2>1
  <2> QED BY <1>2, <1>5, <2>1, <2>2 DEF Sends, Reads
<1> QED BY <1>3, <1>4, <1>6, <1>7 DEF Flow

---------------------------------------------------------------------------
(* The handlers.                                                           *)

LEMMA HandlerInit == Init => HandlerInv
<1> SUFFICES ASSUME Init PROVE HandlerInv
  OBVIOUS
<1>1. IdleHands /\ DoneCloses
  BY DEF Init, IdleHands, DoneCloses
<1>2. Phases
  BY DEF Init, Phases, Copiers, Peers
<1>3. Sockets
  BY DEF Init, Sockets, Hops
<1>4. Ended
  BY DEF Init, Ended
<1> QED BY <1>1, <1>2, <1>3, <1>4 DEF HandlerInv

(* The ways by which a link can break.                                     *)
LEMMA Breaks ==
  ASSUME (\E l \in Links : Reset(l)) \/ SessionLost \/ StreamCloseTimeout
  PROVE  \E l \in Links, keep \in BOOLEAN : Break(l, keep)
<1>1. "str" \in Links /\ TRUE \in BOOLEAN /\ FALSE \in BOOLEAN
  BY DEF Links
<1> QED BY <1>1, Zenon DEF Reset, SessionLost, StreamCloseTimeout

(* What has been closed stays closed.                                      *)
LEMMA FinStays ==
  ASSUME FlagShape, [Next]_vars
  PROVE  \A h \in Hops : fin[h] => fin'[h]
<1> DEFINE Goal == \A h \in Hops : fin[h] => fin'[h]
<1> SUFFICES Goal
  OBVIOUS
<1>0. fin \in [Hops -> BOOLEAN]
  BY DEF FlagShape
<1>1. ASSUME NEW h, fin' = [fin EXCEPT ![h] = TRUE] PROVE Goal
  BY <1>0, <1>1
<1>2. ASSUME NEW h, NEW k, fin' = [fin EXCEPT ![h] = TRUE, ![k] = TRUE] PROVE Goal
  BY <1>0, <1>2
<1>3. ASSUME NEW l, NEW keep, Break(l, keep) PROVE Goal
  BY <1>3 DEF Break
<1>4. ASSUME fin' = fin PROVE Goal
  BY <1>4
<1> HIDE DEF Goal
<1>5. CASE ServerStep
  <2>1. CASE OpenFails \/ NoRequest \/ WebSocketFails \/ ServerDone
    BY <1>2, <2>1 DEF OpenFails, NoRequest, WebSocketFails, ServerDone, ServerReturns
  <2>2. CASE OpenStream \/ WebSocketRequest \/ WebSocketResponse
    BY <1>4, <2>2 DEF OpenStream, WebSocketRequest, WebSocketResponse, net
  <2>3. CASE ServerUpEnds \/ ServerDownEnds
    BY <1>1, <2>3 DEF ServerUpEnds, ServerDownEnds
  <2> QED BY <1>5, <2>1, <2>2, <2>3 DEF ServerStep
<1>6. CASE ClientStep
  <2>1. CASE DialSucceeds
    BY <1>4, <2>1 DEF DialSucceeds, net
  <2>2. CASE DialFails \/ ClientUpEnds \/ ClientDownEnds
    BY <1>1, <2>2 DEF DialFails, ClientUpEnds, ClientDownEnds
  <2>3. CASE ClientDone
    BY <1>2, <2>3 DEF ClientDone
  <2> QED BY <1>6, <2>1, <2>2, <2>3 DEF ClientStep
<1>7. ASSUME NEW p \in Peers, \/ Send(p) \/ FinishSending(p) \/ CloseSocket(p)
                              \/ Receive(p) \/ SeesEnd(p)
      PROVE  Goal
  BY <1>1, <1>4, <1>7 DEF Send, FinishSending, CloseSocket, Receive, SeesEnd, net
<1>8. ASSUME NEW g \in Copiers, Copying(g) PROVE Goal
  BY <1>4, <1>8 DEF Copying, CopyRead, CopyWrite
<1>9. CASE (\E l \in Links : Reset(l)) \/ SessionLost \/ StreamCloseTimeout
  BY <1>3, <1>9, Breaks
<1>10. CASE AllQuiet \/ UNCHANGED vars
  BY <1>4, <1>10 DEF AllQuiet, vars
<1> QED BY <1>5, <1>6, <1>7, <1>8, <1>9, <1>10 DEF Next

LEMMA IdleStep ==
  ASSUME Shape, IdleHands, DoneCloses, [Next]_vars
  PROVE  IdleHands' /\ DoneCloses'
<1> DEFINE Goal == IdleHands' /\ DoneCloses'
<1> SUFFICES Goal
  OBVIOUS
<1>0. /\ hand \in [Copiers -> Nat] /\ go \in [Copiers -> {"off", "run", "done"}]
      /\ fin \in [Hops -> BOOLEAN] /\ \A h \in Hops : fin[h] => fin'[h]
  BY FinStays DEF Shape, UnitShape, PlaceShape, FlagShape
<1>1. ASSUME UNCHANGED <<go, hand>> PROVE Goal
  BY <1>0, <1>1, OneWriterOneReader DEF IdleHands, DoneCloses
<1>2. ASSUME NEW gs, StartCopying(gs), hand' = hand PROVE Goal
  BY <1>0, <1>2, OneWriterOneReader DEF IdleHands, DoneCloses, StartCopying
<1>3. ASSUME NEW g \in Copiers, CopyOver(g), fin'[Dst[g]] PROVE Goal
  <2>1. go'[g] = "done" /\ hand'[g] = 0
    BY <1>0, <1>3 DEF CopyOver
  <2>2. \A k \in Copiers \ {g} : go'[k] = go[k] /\ hand'[k] = hand[k]
    BY <1>0, <1>3 DEF CopyOver
  <2> QED BY <1>0, <1>3, <2>1, <2>2, OneWriterOneReader DEF IdleHands, DoneCloses
<1>4. ASSUME NEW g \in Copiers, Copying(g) PROVE Goal
  <2>1. go[g] = "run" /\ go' = go /\ \A k \in Copiers \ {g} : hand'[k] = hand[k]
    BY <1>0, <1>4 DEF Copying, CopyRead, CopyWrite
  <2> QED BY <1>0, <2>1, OneWriterOneReader DEF IdleHands, DoneCloses
<1> HIDE DEF Goal
<1>5. CASE ServerUpEnds \/ ServerDownEnds \/ ClientUpEnds \/ ClientDownEnds
  <2>1. \E g \in Copiers : CopyOver(g) /\ fin'[Dst[g]]
    BY <1>0, <1>5, Ways
    DEF ServerUpEnds, ServerDownEnds, ClientUpEnds, ClientDownEnds, Copiers, Hops
  <2> QED BY <1>3, <2>1
<1>6. CASE OpenStream \/ WebSocketResponse \/ DialSucceeds
  <2>1. UNCHANGED <<go, hand>> \/ \E gs : StartCopying(gs) /\ hand' = hand
    BY <1>6 DEF OpenStream, WebSocketResponse, DialSucceeds
  <2> QED BY <1>1, <1>2, <2>1
<1>7. CASE \/ OpenFails \/ NoRequest \/ WebSocketFails \/ ServerDone \/ WebSocketRequest
           \/ DialFails \/ ClientDone
  BY <1>1, <1>7
  DEF OpenFails, NoRequest, WebSocketFails, ServerDone, ServerReturns, WebSocketRequest,
      DialFails, ClientDone
<1>8. ASSUME NEW p \in Peers, \/ Send(p) \/ FinishSending(p) \/ CloseSocket(p)
                              \/ Receive(p) \/ SeesEnd(p)
      PROVE  Goal
  BY <1>1, <1>8 DEF Send, FinishSending, CloseSocket, Receive, SeesEnd
<1>9. CASE (\E l \in Links : Reset(l)) \/ SessionLost \/ StreamCloseTimeout
  BY <1>1, <1>9, Breaks DEF Break
<1>10. CASE AllQuiet \/ UNCHANGED vars
  BY <1>1, <1>10 DEF AllQuiet, vars
<1>11. CASE ServerStep \/ ClientStep
  BY <1>5, <1>6, <1>7, <1>11 DEF ServerStep, ClientStep
<1> QED BY <1>4, <1>8, <1>9, <1>10, <1>11 DEF Next

LEMMA PhaseStep ==
  ASSUME Shape, Phases, [Next]_vars
  PROVE  Phases'
<1>0. /\ go \in [Copiers -> {"off", "run", "done"}] /\ PlaceShape
      /\ sent \in [Peers -> 0..MaxUnits] /\ "service" \in Peers
      /\ "upS" \in Copiers /\ "dnS" \in Copiers /\ "upC" \in Copiers /\ "dnC" \in Copiers
  BY DEF Shape, UnitShape, PlaceShape, Copiers, Peers
<1>1. ASSUME UNCHANGED <<go, srv, cli, sent>> PROVE Phases'
  BY <1>1 DEF Phases
<1>2. ASSUME NEW g \in Copiers, CopyOver(g), UNCHANGED <<srv, cli, sent>> PROVE Phases'
  <2>1. go[g] = "run" /\ go'[g] = "done" /\ \A k \in Copiers \ {g} : go'[k] = go[k]
    BY <1>0, <1>2 DEF CopyOver
  <2>2. \A k \in Copiers : go'[k] = "off" <=> go[k] = "off"
    BY <2>1
  <2> QED BY <1>0, <1>2, <2>2 DEF Phases
<1>3. CASE ServerUpEnds \/ ServerDownEnds \/ ClientUpEnds \/ ClientDownEnds
  BY <1>2, <1>3 DEF ServerUpEnds, ServerDownEnds, ClientUpEnds, ClientDownEnds, Copiers, peers
<1>4. CASE OpenFails \/ NoRequest \/ WebSocketFails \/ ServerDone
  <2>1. srv' = "done" /\ UNCHANGED <<go, cli, sent>>
    BY <1>4 DEF OpenFails, NoRequest, WebSocketFails, ServerDone, ServerReturns, peers
  <2> QED BY <2>1 DEF Phases, Early
<1>5. CASE OpenStream
  <2>1. srv = "open" /\ cli' = "dial" /\ UNCHANGED sent
    BY <1>5 DEF OpenStream, peers
  <2>2. /\ srv' = "copy" \/ (srv' = "request" /\ go' = go)
        /\ go'["upC"] = go["upC"] /\ go'["dnC"] = go["dnC"]
    BY <1>0, <1>5 DEF OpenStream, StartCopying
  <2> QED BY <2>1, <2>2 DEF Phases, Early
<1>6. CASE WebSocketRequest
  <2>1. srv = "request" /\ srv' = "response" /\ UNCHANGED <<go, cli, sent>>
    BY <1>6 DEF WebSocketRequest, peers
  <2> QED BY <2>1 DEF Phases, Early
<1>7. CASE WebSocketResponse
  <2>1. /\ srv' = "copy" /\ UNCHANGED <<cli, sent>>
        /\ go'["upC"] = go["upC"] /\ go'["dnC"] = go["dnC"]
    BY <1>0, <1>7 DEF WebSocketResponse, StartCopying, peers
  <2> QED BY <2>1 DEF Phases, Early
<1>8. CASE DialSucceeds
  <2>1. /\ cli = "dial" /\ cli' = "copy" /\ UNCHANGED <<srv, sent>>
        /\ go'["upC"] = "run" /\ go'["dnC"] = "run"
        /\ go'["upS"] = go["upS"] /\ go'["dnS"] = go["dnS"]
    BY <1>0, <1>8 DEF DialSucceeds, StartCopying, peers
  <2> QED BY <2>1 DEF Phases, Early
<1>9. CASE DialFails \/ ClientDone
  <2>1. cli' = "done" /\ cli # "none" /\ UNCHANGED <<go, srv, sent>>
    BY <1>9 DEF DialFails, ClientDone, peers
  <2> QED BY <2>1 DEF Phases, Early
<1>10. ASSUME NEW p \in Peers, Send(p) PROVE Phases'
  <2>1. /\ UNCHANGED <<go, srv, cli>> /\ (p = "visitor" \/ go["dnC"] # "off")
        /\ sent' = [sent EXCEPT ![p] = @ + 1]
    BY <1>10 DEF Send, Connected
  <2>2. go["dnC"] = "off" => sent'["service"] = sent["service"]
    BY <1>0, <2>1
  <2> QED BY <2>1, <2>2 DEF Phases
<1>11. ASSUME NEW p \in Peers, FinishSending(p) \/ CloseSocket(p) \/ Receive(p) \/ SeesEnd(p)
       PROVE  Phases'
  BY <1>1, <1>11 DEF FinishSending, CloseSocket, Receive, SeesEnd, peers
<1>12. ASSUME NEW g \in Copiers, Copying(g) PROVE Phases'
  BY <1>1, <1>12 DEF Copying, CopyRead, CopyWrite, peers
<1>13. CASE (\E l \in Links : Reset(l)) \/ SessionLost \/ StreamCloseTimeout
  BY <1>1, <1>13, Breaks DEF Break, peers
<1>14. CASE AllQuiet \/ UNCHANGED vars
  BY <1>1, <1>14 DEF AllQuiet, vars
<1>15. CASE ServerStep \/ ClientStep
  BY <1>3, <1>4, <1>5, <1>6, <1>7, <1>8, <1>9, <1>15 DEF ServerStep, ClientStep
<1> QED BY <1>10, <1>11, <1>12, <1>13, <1>14, <1>15 DEF Next

LEMMA SocketStep ==
  ASSUME Shape, Phases, Sockets, [Next]_vars
  PROVE  Sockets'
<1>0. /\ fin \in [Hops -> BOOLEAN] /\ rd \in [Hops -> BOOLEAN]
      /\ go \in [Copiers -> {"off", "run", "done"}]
      /\ "vs" \in Hops /\ "sc" \in Hops /\ "cl" \in Hops
      /\ "lc" \in Hops /\ "cs" \in Hops /\ "sv" \in Hops
      /\ "upS" \in Copiers /\ "dnS" \in Copiers /\ "upC" \in Copiers /\ "dnC" \in Copiers
  BY DEF Shape, FlagShape, PlaceShape, Hops, Copiers
<1>1. ASSUME UNCHANGED <<rd, broken, cut>>, go["dnC"] = "done" => go'["dnC"] = "done",
             srv' \in Early => srv \in Early /\ fin'["sc"] = fin["sc"] /\ fin'["sv"] = fin["sv"],
             fin["sv"] => fin'["sv"]
      PROVE  Sockets'
  BY <1>1 DEF Sockets
<1>2. ASSUME ServerReturns PROVE Sockets'
  <2>1. /\ srv' = "done" /\ fin'["sv"] /\ UNCHANGED <<broken, cut, go>>
        /\ rd'["sc"] = rd["sc"] /\ rd'["cs"] = rd["cs"] /\ rd'["lc"] = rd["lc"]
    BY <1>0, <1>2 DEF ServerReturns
  <2> QED BY <2>1 DEF Sockets, Early
<1>3. CASE OpenFails \/ NoRequest \/ WebSocketFails \/ ServerDone
  BY <1>2, <1>3 DEF OpenFails, NoRequest, WebSocketFails, ServerDone
<1>4. CASE OpenStream
  <2>1. /\ UNCHANGED <<fin, rd, broken, cut>> /\ srv = "open" /\ go'["dnC"] = go["dnC"]
    BY <1>0, <1>4 DEF OpenStream, StartCopying, net
  <2> QED BY <1>1, <2>1 DEF Early
<1>5. CASE WebSocketRequest
  <2>1. UNCHANGED <<fin, rd, broken, cut, go>> /\ srv = "request"
    BY <1>5 DEF WebSocketRequest
  <2> QED BY <1>1, <2>1 DEF Early
<1>6. CASE WebSocketResponse
  <2>1. UNCHANGED <<fin, rd, broken, cut>> /\ srv = "response" /\ go'["dnC"] = go["dnC"]
    BY <1>0, <1>6 DEF WebSocketResponse, StartCopying
  <2> QED BY <1>1, <2>1 DEF Early
<1>7. CASE ServerUpEnds
  <2>1. /\ UNCHANGED <<rd, broken, cut, srv>> /\ go["upS"] = "run" /\ go'["dnC"] = go["dnC"]
        /\ fin'["sv"] = fin["sv"]
    BY <1>0, <1>7 DEF ServerUpEnds, CopyOver
  <2> QED BY <1>1, <2>1 DEF Phases
<1>8. CASE ServerDownEnds
  <2>1. /\ UNCHANGED <<broken, cut, srv>> /\ go["dnS"] = "run" /\ go'["dnC"] = go["dnC"]
        /\ fin'["sv"] /\ rd'["sc"] = rd["sc"] /\ rd'["cs"] = rd["cs"] /\ rd'["lc"] = rd["lc"]
    BY <1>0, <1>8 DEF ServerDownEnds, CopyOver
  <2> QED BY <2>1 DEF Phases, Sockets
<1>9. CASE ClientUpEnds \/ ClientDownEnds \/ DialFails
  <2>1. /\ UNCHANGED <<rd, broken, cut, srv>> /\ fin'["sv"] = fin["sv"] /\ fin'["sc"] = fin["sc"]
        /\ go["dnC"] = "done" => go'["dnC"] = "done"
    BY <1>0, <1>9 DEF ClientUpEnds, ClientDownEnds, DialFails, CopyOver
  <2> QED BY <1>1, <2>1
<1>10. CASE DialSucceeds
  <2>1. UNCHANGED <<fin, rd, broken, cut, srv>> /\ cli = "dial"
    BY <1>10 DEF DialSucceeds, net
  <2> QED BY <1>1, <2>1 DEF Phases
<1>11. CASE ClientDone
  <2>1. /\ UNCHANGED <<broken, cut, srv, go>> /\ go["dnC"] = "done"
        /\ fin'["sv"] = fin["sv"] /\ fin'["sc"] = fin["sc"]
        /\ rd'["sc"] = rd["sc"] /\ rd'["cs"] = rd["cs"] /\ rd'["vs"] = rd["vs"]
    BY <1>0, <1>11 DEF ClientDone
  <2> QED BY <2>1 DEF Sockets
<1>12. ASSUME NEW p \in Peers, CloseSocket(p) PROVE Sockets'
  <2>1. (p = "visitor" /\ Out[p] = "vs" /\ In[p] = "sv")
        \/ (p = "service" /\ Out[p] = "lc" /\ In[p] = "cl")
    BY Ways DEF Peers
  <2>2. /\ UNCHANGED <<broken, cut, srv, go>>
        /\ fin'["sv"] = fin["sv"] /\ fin'["sc"] = fin["sc"]
        /\ rd'["sc"] = rd["sc"] /\ rd'["cs"] = rd["cs"] /\ rd'["vs"] = rd["vs"]
        /\ rd'["lc"] = rd["lc"]
    BY <1>0, <1>12, <2>1 DEF CloseSocket
  <2> QED BY <2>2 DEF Sockets
<1>13. ASSUME NEW p \in Peers, Send(p) \/ Receive(p) \/ SeesEnd(p) \/ FinishSending(p)
       PROVE  Sockets'
  <2>1. Out[p] = "vs" \/ Out[p] = "lc"
    BY Ways DEF Peers
  <2>2. /\ UNCHANGED <<rd, broken, cut, srv, go>>
        /\ fin'["sv"] = fin["sv"] /\ fin'["sc"] = fin["sc"]
    BY <1>0, <1>13, <2>1 DEF Send, Receive, SeesEnd, FinishSending, net
  <2> QED BY <1>1, <2>2
<1>14. ASSUME NEW g \in Copiers, Copying(g) PROVE Sockets'
  BY <1>1, <1>14 DEF Copying, CopyRead, CopyWrite
<1>15. CASE (\E l \in Links : Reset(l)) \/ SessionLost \/ StreamCloseTimeout
  <2>1. PICK l \in Links, keep \in BOOLEAN : Break(l, keep)
    BY <1>15, Breaks
  <2>2. cut' = TRUE /\ UNCHANGED <<rd, go>> /\ (fin["sv"] => fin'["sv"])
    BY <1>0, <2>1 DEF Break
  <2> QED BY <2>2 DEF Sockets
<1>16. CASE AllQuiet \/ UNCHANGED vars
  BY <1>1, <1>16 DEF AllQuiet, vars
<1>17. CASE ServerStep \/ ClientStep
  BY <1>3, <1>4, <1>5, <1>6, <1>7, <1>8, <1>9, <1>10, <1>11, <1>17 DEF ServerStep, ClientStep
<1> QED BY <1>12, <1>13, <1>14, <1>15, <1>16, <1>17 DEF Next

LEMMA EndedStep ==
  ASSUME Shape, Ended, [Next]_vars
  PROVE  Ended'
<1>0. /\ q \in [Hops -> Seq(Nat)] /\ fin \in [Hops -> BOOLEAN]
      /\ end \in [Peers -> {"open", "eof", "reset"}]
      /\ \A h \in Hops : fin[h] => fin'[h]
      /\ \A p \in Peers : In[p] \in Hops
  BY FinStays, OneWriterOneReader DEF Shape, UnitShape, FlagShape, PlaceShape
<1>1. ASSUME end' = end, \A p \in Peers : q[In[p]] = <<>> /\ fin[In[p]] => q'[In[p]] = <<>>
      PROVE  Ended'
  BY <1>0, <1>1 DEF Ended
<1>2. ASSUME NEW p \in Peers, Send(p) PROVE Ended'
  <2>1. \A k \in Peers : q'[In[k]] = q[In[k]]
    <3>1. \A k \in Peers : In[k] # Out[p]
      BY Ways DEF Peers
    <3> QED BY <1>0, <1>2, <3>1 DEF Send
  <2> QED BY <1>1, <1>2, <2>1 DEF Send
<1>3. ASSUME NEW p \in Peers, Receive(p) PROVE Ended'
  <2>1. \A k \in Peers : q[In[k]] = <<>> => q'[In[k]] = q[In[k]]
    BY <1>0, <1>3 DEF Receive
  <2> QED BY <1>1, <1>3, <2>1 DEF Receive
<1>4. ASSUME NEW p \in Peers, SeesEnd(p) PROVE Ended'
  BY <1>0, <1>4 DEF SeesEnd, AtEnd, net, Ended
<1>5. ASSUME NEW g \in Copiers, CopyRead(g) PROVE Ended'
  <2>1. \A k \in Peers : q'[In[k]] = q[In[k]]
    BY <1>0, <1>5, OneWriterOneReader DEF CopyRead
  <2> QED BY <1>1, <1>5, <2>1 DEF CopyRead, peers
<1>6. ASSUME NEW g \in Copiers, CopyWrite(g) PROVE Ended'
  <2>1. \A k \in Peers : fin[In[k]] => q'[In[k]] = q[In[k]]
    BY <1>0, <1>6 DEF CopyWrite, WriteFails
  <2> QED BY <1>1, <1>6, <2>1 DEF CopyWrite, peers
<1>7. CASE WebSocketRequest
  <2>1. \A k \in Peers : In[k] # "vs" /\ In[k] # "sc"
    BY Ways DEF Peers
  <2>2. \A k \in Peers : q'[In[k]] = q[In[k]]
    BY <1>0, <1>7, <2>1 DEF WebSocketRequest, Shift
  <2> QED BY <1>1, <1>7, <2>2 DEF WebSocketRequest, peers
<1>8. CASE WebSocketResponse
  <2>1. \A k \in Peers : In[k] # "cs" /\ (fin[In[k]] => In[k] # "sv")
    BY <1>8, Ways DEF Peers, WebSocketResponse, WriteFails
  <2>2. \A k \in Peers : fin[In[k]] => q'[In[k]] = q[In[k]]
    BY <1>0, <1>8, <2>1 DEF WebSocketResponse, Shift
  <2> QED BY <1>1, <1>8, <2>2 DEF WebSocketResponse, peers
<1>9. ASSUME NEW l \in Links, NEW keep \in BOOLEAN, Break(l, keep) PROVE Ended'
  <2>1. ASSUME NEW h \in Hops, q[h] = <<>> PROVE q'[h] = <<>>
    <3>1. PICK k \in [HopsOf(l) -> 0..MaxUnits] :
            /\ \A i \in HopsOf(l) : k[i] <= (IF keep THEN Len(q[i]) ELSE 0)
            /\ q' = [i \in Hops |-> IF i \in HopsOf(l) THEN SubSeq(q[i], 1, k[i]) ELSE q[i]]
      BY <1>9 DEF Break
    <3>2. CASE h \in HopsOf(l)
      <4>1. q[h] \in Seq(Nat) /\ Len(q[h]) = 0
        BY <1>0, <2>1
      <4>2. k[h] <= 0 /\ k[h] \in Nat
        BY <3>1, <3>2, <4>1, BoundsAssumption
      <4>3. k[h] = 0
        BY <4>2
      <4>4. q'[h] = SubSeq(q[h], 1, 0) /\ 0 \in 0..Len(q[h])
        BY <3>1, <3>2, <4>1, <4>3
      <4>5. SubSeq(q[h], 1, 0) \in Seq(Nat) /\ Len(SubSeq(q[h], 1, 0)) = 0
        BY <4>1, <4>4, FirstPart
      <4> QED BY <4>4, <4>5, EmptySeq
    <3>3. CASE h \notin HopsOf(l)
      BY <2>1, <3>1, <3>3
    <3> QED BY <3>2, <3>3
  <2>2. end' = end
    BY <1>9 DEF Break, peers
  <2> QED BY <1>0, <1>1, <2>1, <2>2
<1>10. CASE (\E l \in Links : Reset(l)) \/ SessionLost \/ StreamCloseTimeout
  BY <1>9, <1>10, Breaks
<1>11. CASE UNCHANGED <<q, end>>
  BY <1>1, <1>11
<1>12. CASE ServerStep \/ ClientStep
  <2>1. ASSUME \/ OpenStream \/ OpenFails \/ NoRequest \/ WebSocketFails \/ ServerDone
               \/ ServerUpEnds \/ ServerDownEnds \/ DialSucceeds \/ DialFails \/ ClientDone
               \/ ClientUpEnds \/ ClientDownEnds
        PROVE  UNCHANGED <<q, end>>
    BY <2>1 DEF OpenStream, OpenFails, NoRequest, WebSocketFails, ServerDone, ServerReturns,
         ServerUpEnds, ServerDownEnds, DialSucceeds, DialFails, ClientDone, ClientUpEnds,
         ClientDownEnds, net, peers
  <2> QED BY <1>7, <1>8, <1>11, <1>12, <2>1 DEF ServerStep, ClientStep
<1>13. ASSUME NEW p \in Peers, FinishSending(p) \/ CloseSocket(p) PROVE Ended'
  BY <1>11, <1>13 DEF FinishSending, CloseSocket, peers
<1>14. CASE AllQuiet \/ UNCHANGED vars
  BY <1>11, <1>14 DEF AllQuiet, vars
<1>15. ASSUME NEW g \in Copiers, Copying(g) PROVE Ended'
  BY <1>5, <1>6, <1>15 DEF Copying
<1> QED BY <1>2, <1>3, <1>4, <1>10, <1>12, <1>13, <1>14, <1>15 DEF Next

LEMMA HandlerStep ==
  ASSUME Shape, HandlerInv, [Next]_vars
  PROVE  HandlerInv'
BY IdleStep, PhaseStep, SocketStep, EndedStep DEF HandlerInv

---------------------------------------------------------------------------
(* An end is passed on after all that came before it.                      *)

(* Every way carries at most what the peer at its start has sent.          *)
LEMMA Chain ==
  ASSUME UnitShape, NEW r \in [Hops -> Nat], NEW w \in [Hops -> Nat], Flow(r, w)
  PROVE  /\ \A h \in Hops : r[h] <= w[h]
         /\ w["sv"] <= r["cs"] /\ w["cs"] <= r["lc"] /\ w["lc"] <= sent["service"]
         /\ w["cl"] <= r["sc"] /\ w["sc"] <= r["vs"] /\ w["vs"] <= sent["visitor"]
<1>1. ASSUME NEW h \in Hops PROVE r[h] <= w[h]
  <2>1. Len(q[h]) \in Nat /\ w[h] = r[h] + Len(q[h])
    BY LenProperties DEF UnitShape, Flow, OnTheWay, Holds
  <2> QED BY <2>1
<1>2. \A g \in Copiers : w[Dst[g]] <= r[Src[g]]
  BY DEF Flow, Carries
<1>3. \A p \in Peers : w[Out[p]] <= sent[p]
  BY DEF Flow, Sends
<1> QED BY <1>1, <1>2, <1>3, Ways DEF Copiers, Peers

LEMMA LinkIsLink == \A h \in Hops : LinkOf(h) \in Links
<1>1. \A h \in Hops : \E l \in Links : h \in HopsOf(l)
  BY DEF Hops, Links, HopsOf
<1> QED BY <1>1 DEF LinkOf

LEMMA WholeStays ==
  ASSUME NEW w \in [Hops -> Nat], NEW w2 \in [Hops -> Nat], Whole(w), Kept(w, w2),
         UNCHANGED <<sent, cut>>,
         \A h \in {"sv", "cs", "sc", "cl"} : fin'[h] <=> fin[h],
         \A h \in {"vs", "lc"} : fin[h] => fin'[h],
         NeverOpened => NeverOpened',
         go["dnC"] = "off" /\ cli = "done" => go'["dnC"] = "off" /\ cli' = "done"
  PROVE  Whole(w2)'
<1>1. /\ \A h \in {"sv", "cs", "sc", "cl"} : fin[h] => w2[h] = w[h]
  BY DEF Kept, Hops
<1> HIDE DEF NeverOpened
<1> QED BY <1>1 DEF Whole

(* A way is closed by its goroutine while nothing was cut: the goroutine   *)
(* has passed on all that was ever put on the way it reads, or it could no *)
(* longer read, or the way was closed before.                              *)
LEMMA CopyOverWhole ==
  ASSUME Shape, HandlerInv, NEW r \in [Hops -> Nat], NEW w \in [Hops -> Nat], Flow(r, w),
         NEW g \in Copiers, CopyOver(g), ~ cut, ~ fin[Dst[g]]
  PROVE  \/ fin[Src[g]] /\ w[Dst[g]] = w[Src[g]]
         \/ ~ rd[Src[g]]
<1>1. Src[g] \in Hops /\ Dst[g] \in Hops
  BY OneWriterOneReader
<1>2. ~ broken[LinkOf(Dst[g])]
  BY <1>1, LinkIsLink DEF HandlerInv, Sockets
<1>3. hand[g] = 0 /\ (AtEnd(Src[g]) \/ ~ rd[Src[g]])
  BY <1>2 DEF CopyOver, WriteFails
<1>4. CASE AtEnd(Src[g])
  <2>1. q[Src[g]] = <<>> /\ fin[Src[g]]
    BY <1>4 DEF AtEnd
  <2>2. w[Src[g]] = r[Src[g]] + 0
    BY <1>1, <2>1 DEF Flow, OnTheWay, Holds
  <2>3. r[Src[g]] = w[Dst[g]] + 0
    BY <1>3 DEF Flow, Carries
  <2> QED BY <1>1, <2>1, <2>2, <2>3
<1> QED BY <1>3, <1>4

LEMMA WholeServerUp ==
  ASSUME Shape, HandlerInv, NEW r \in [Hops -> Nat], NEW w \in [Hops -> Nat], Flow(r, w),
         Whole(w), ServerUpEnds
  PROVE  Whole(w)'
<1>0. /\ fin \in [Hops -> BOOLEAN] /\ "upS" \in Copiers /\ "dnC" \in Copiers
      /\ go \in [Copiers -> {"off", "run", "done"}]
  BY DEF Shape, FlagShape, PlaceShape, Copiers
<1>1. /\ UNCHANGED <<sent, cut, cli, srv>> /\ go'["dnC"] = go["dnC"] /\ fin'["sc"]
      /\ \A h \in Hops \ {"sc"} : fin'[h] <=> fin[h]
  BY <1>0 DEF ServerUpEnds, CopyOver, peers, Hops
<1>2. ASSUME ~ cut, ~ fin["sc"]
      PROVE  (w["sc"] = sent["visitor"] /\ fin["vs"]) \/ fin["cs"] \/ NeverOpened
  <2>1. (fin["vs"] /\ w["sc"] = w["vs"]) \/ ~ rd["vs"]
    BY <1>0, <1>2, CopyOverWhole, Ways DEF ServerUpEnds
  <2>2. w["vs"] = sent["visitor"]
    BY <1>2, Ways DEF Flow, Sends, Peers
  <2>3. ~ rd["vs"] => fin["cs"] \/ NeverOpened
    BY <1>2 DEF HandlerInv, Sockets, Whole
  <2> QED BY <2>1, <2>2, <2>3
<1>3. NeverOpened' <=> NeverOpened
  BY <1>1 DEF NeverOpened
<1> QED BY <1>1, <1>2, <1>3 DEF Whole, Hops

LEMMA WholeServerDown ==
  ASSUME Shape, HandlerInv, NEW r \in [Hops -> Nat], NEW w \in [Hops -> Nat], Flow(r, w),
         Whole(w), ServerDownEnds
  PROVE  Whole(w)'
<1>0. /\ fin \in [Hops -> BOOLEAN] /\ "dnS" \in Copiers /\ "dnC" \in Copiers
      /\ go \in [Copiers -> {"off", "run", "done"}]
  BY DEF Shape, FlagShape, PlaceShape, Copiers
<1>1. /\ UNCHANGED <<sent, cut, cli, srv>> /\ go'["dnC"] = go["dnC"] /\ fin'["sv"]
      /\ \A h \in Hops \ {"sv"} : fin'[h] <=> fin[h]
  BY <1>0 DEF ServerDownEnds, CopyOver, peers, Hops
<1>2. ASSUME ~ cut, ~ fin["sv"]
      PROVE  w["sv"] = sent["service"] /\ fin["cs"]
  <2>1. (fin["cs"] /\ w["sv"] = w["cs"]) \/ ~ rd["cs"]
    BY <1>0, <1>2, CopyOverWhole, Ways DEF ServerDownEnds
  <2> QED BY <1>2, <2>1 DEF HandlerInv, Sockets, Whole
<1>3. NeverOpened' <=> NeverOpened
  BY <1>1 DEF NeverOpened
<1> QED BY <1>1, <1>2, <1>3 DEF Whole, Hops

LEMMA WholeClientUp ==
  ASSUME Shape, HandlerInv, NEW r \in [Hops -> Nat], NEW w \in [Hops -> Nat], Flow(r, w),
         Whole(w), ClientUpEnds
  PROVE  Whole(w)'
<1>0. /\ fin \in [Hops -> BOOLEAN] /\ "upC" \in Copiers /\ "dnC" \in Copiers
      /\ go \in [Copiers -> {"off", "run", "done"}]
  BY DEF Shape, FlagShape, PlaceShape, Copiers
<1>1. /\ UNCHANGED <<sent, cut, cli, srv>> /\ go'["dnC"] = go["dnC"] /\ fin'["cl"]
      /\ \A h \in Hops \ {"cl"} : fin'[h] <=> fin[h]
  BY <1>0 DEF ClientUpEnds, CopyOver, peers, Hops
<1>2. ASSUME ~ cut, ~ fin["cl"]
      PROVE  (w["cl"] = sent["visitor"] /\ fin["vs"]) \/ fin["lc"]
  <2>1. (fin["sc"] /\ w["cl"] = w["sc"]) \/ ~ rd["sc"]
    BY <1>0, <1>2, CopyOverWhole, Ways DEF ClientUpEnds
  <2>2. go["dnC"] # "off" /\ cli # "none" /\ rd["sc"]
    BY DEF ClientUpEnds, CopyOver, HandlerInv, Phases, Sockets
  <2> QED BY <1>2, <2>1, <2>2 DEF Whole, NeverOpened
<1>3. NeverOpened' <=> NeverOpened
  BY <1>1 DEF NeverOpened
<1> QED BY <1>1, <1>2, <1>3 DEF Whole, Hops

LEMMA WholeClientDown ==
  ASSUME Shape, HandlerInv, NEW r \in [Hops -> Nat], NEW w \in [Hops -> Nat], Flow(r, w),
         Whole(w), ClientDownEnds
  PROVE  Whole(w)'
<1>0. /\ fin \in [Hops -> BOOLEAN] /\ "dnC" \in Copiers
      /\ go \in [Copiers -> {"off", "run", "done"}]
  BY DEF Shape, FlagShape, PlaceShape, Copiers
<1>1. /\ UNCHANGED <<sent, cut, cli, srv>> /\ go["dnC"] = "run" /\ fin'["cs"]
      /\ \A h \in Hops \ {"cs"} : fin'[h] <=> fin[h]
  BY <1>0 DEF ClientDownEnds, CopyOver, peers, Hops
<1>2. ASSUME ~ cut, ~ fin["cs"]
      PROVE  w["cs"] = sent["service"] /\ fin["lc"]
  <2>1. (fin["lc"] /\ w["cs"] = w["lc"]) \/ ~ rd["lc"]
    BY <1>0, <1>2, CopyOverWhole, Ways DEF ClientDownEnds
  <2>2. w["lc"] = sent["service"]
    BY <1>2, Ways DEF Flow, Sends, Peers
  <2> QED BY <1>1, <2>1, <2>2 DEF HandlerInv, Sockets
<1>3. NeverOpened' <=> NeverOpened
  BY <1>1 DEF NeverOpened
<1> QED BY <1>1, <1>2, <1>3 DEF Whole, Hops

(* The deferred closes of the server's handlers.                           *)
LEMMA WholeServerReturns ==
  ASSUME Shape, HandlerInv, NEW r \in [Hops -> Nat], NEW w \in [Hops -> Nat], Flow(r, w),
         Whole(w), OpenFails \/ NoRequest \/ WebSocketFails \/ ServerDone
  PROVE  Whole(w)'
<1>0. /\ fin \in [Hops -> BOOLEAN] /\ sent \in [Peers -> 0..MaxUnits]
      /\ UnitShape /\ "service" \in Peers /\ "dnS" \in Copiers
  BY DEF Shape, FlagShape, UnitShape, Peers, Copiers
<1>1. /\ UNCHANGED <<sent, cut, cli, go>> /\ srv' = "done" /\ fin'["sv"] /\ fin'["sc"]
      /\ \A h \in Hops \ {"sc", "sv"} : fin'[h] <=> fin[h]
  BY <1>0 DEF OpenFails, NoRequest, WebSocketFails, ServerDone, ServerReturns, peers, Hops
<1>2. NeverOpened' <=> cli = "none"
  BY <1>1 DEF NeverOpened
<1> SUFFICES ASSUME ~ cut
             PROVE  /\ w["sv"] = sent["service"] /\ (fin["cs"] \/ cli = "none")
                    /\ \/ w["sc"] = sent["visitor"] /\ fin["vs"]
                       \/ fin["cs"] \/ cli = "none"
  BY <1>1, <1>2 DEF Whole, Hops, NeverOpened
<1>3. CASE srv = "open"
  <2>1. cli = "none" /\ sent["service"] = 0
    BY <1>3 DEF HandlerInv, Phases
  <2>2. w["sv"] <= 0
    <3>1. \A h \in Hops : r[h] \in Nat /\ w[h] \in Nat /\ r[h] <= w[h]
      BY <1>0, Chain
    <3>2. w["sv"] <= r["cs"] /\ w["cs"] <= r["lc"] /\ w["lc"] <= 0
      BY <1>0, <2>1, Chain
    <3> QED BY <3>1, <3>2 DEF Hops
  <2> QED BY <2>1, <2>2 DEF Hops
<1>4. CASE WebSocketFails
  <2>1. srv \in Early /\ ~ fin["sc"] /\ ~ fin["sv"] /\ go["dnS"] = "off"
    BY <1>4 DEF WebSocketFails, HandlerInv, Phases, Sockets, Early
  <2>2. ~ WriteFails("sc") /\ ~ WriteFails("sv")
    BY <2>1, LinkIsLink DEF WriteFails, HandlerInv, Sockets, Hops
  <2>3. q["cs"] = <<>> /\ fin["cs"]
    BY <1>4, <2>2 DEF WebSocketFails, AtEnd
  <2>4. w["cs"] = r["cs"] + 0
    BY <2>3 DEF Flow, OnTheWay, Holds, Hops
  <2>5. r["cs"] = w["sv"] + 0
    <3>1. hand["dnS"] = 0
      BY <1>0, <2>1 DEF HandlerInv, IdleHands
    <3> QED BY <1>0, <2>1, <3>1, Ways DEF Flow, Carries
  <2>6. w["cs"] = sent["service"]
    BY <2>3 DEF Whole
  <2> QED BY <2>3, <2>4, <2>5, <2>6 DEF Hops
<1>5. CASE ServerDone
  <2>1. fin["sc"] /\ fin["sv"]
    BY <1>5, Ways DEF ServerDone, HandlerInv, DoneCloses, Copiers
  <2> QED BY <2>1 DEF Whole, NeverOpened
<1> QED BY <1>3, <1>4, <1>5 DEF OpenFails, NoRequest

(* The local port is closed: nothing was sent, and nothing will be.        *)
LEMMA WholeDialFails ==
  ASSUME Shape, HandlerInv, NEW r \in [Hops -> Nat], NEW w \in [Hops -> Nat], Flow(r, w),
         Whole(w), DialFails
  PROVE  Whole(w)'
<1>0. fin \in [Hops -> BOOLEAN] /\ UnitShape
  BY DEF Shape, FlagShape
<1>1. /\ UNCHANGED <<sent, cut, srv, go>> /\ cli = "dial" /\ cli' = "done" /\ fin'["cs"]
      /\ \A h \in Hops \ {"cs"} : fin'[h] <=> fin[h]
  BY <1>0 DEF DialFails, peers, Hops
<1>2. go["dnC"] = "off" /\ sent["service"] = 0
  BY <1>1 DEF HandlerInv, Phases
<1>3. w["cs"] = 0
  <2>1. \A h \in Hops : r[h] \in Nat /\ w[h] \in Nat /\ r[h] <= w[h]
    BY <1>0, Chain
  <2>2. w["cs"] <= r["lc"] /\ w["lc"] <= 0
    BY <1>0, <1>2, Chain
  <2> QED BY <2>1, <2>2 DEF Hops
<1>4. ~ NeverOpened
  BY <1>1 DEF NeverOpened
<1> QED BY <1>1, <1>2, <1>3, <1>4 DEF Whole, Hops

(* A peer sends: the way of its data has not been closed anywhere.         *)
LEMMA WholeSend ==
  ASSUME Shape, HandlerInv, NEW w \in [Hops -> Nat], NEW w2 \in [Hops -> Nat], Kept(w, w2),
         Whole(w), NEW p \in Peers, Send(p)
  PROVE  Whole(w2)'
<1>0. sent \in [Peers -> 0..MaxUnits] /\ "visitor" \in Peers /\ "service" \in Peers
  BY DEF Shape, UnitShape, Peers
<1>1. UNCHANGED <<fin, cut, srv, cli, go>> /\ ~ fin[Out[p]]
  BY DEF Send, WriteFails
<1>2. NeverOpened' <=> NeverOpened
  BY <1>1 DEF NeverOpened
<1>3. /\ fin["sv"] => w2["sv"] = w["sv"]
      /\ fin["cs"] => w2["cs"] = w["cs"]
      /\ fin["sc"] => w2["sc"] = w["sc"]
      /\ fin["cl"] => w2["cl"] = w["cl"]
  BY DEF Kept, Hops
<1>4. CASE p = "visitor"
  <2>1. ~ fin["vs"] /\ sent'["service"] = sent["service"]
    BY <1>0, <1>1, <1>4, Ways DEF Send
  <2> QED BY <1>1, <1>2, <1>3, <2>1 DEF Whole
<1>5. CASE p = "service"
  <2>1. ~ fin["lc"] /\ sent'["visitor"] = sent["visitor"] /\ go["dnC"] # "off"
    BY <1>0, <1>1, <1>5, Ways DEF Send, Connected
  <2>2. cli # "none"
    BY <2>1 DEF HandlerInv, Phases
  <2>3. ~ cut => ~ fin["cs"] /\ ~ fin["sv"]
    BY <2>1, <2>2 DEF Whole, NeverOpened
  <2> QED BY <1>1, <1>2, <1>3, <2>1, <2>3 DEF Whole
<1> QED BY <1>4, <1>5 DEF Peers

---------------------------------------------------------------------------
(* The inductive invariant.                                                *)

LEMMA PipeInit == Init => PipeInv
<1> SUFFICES ASSUME Init PROVE PipeInv
  OBVIOUS
<1>1. Shape /\ HandlerInv
  BY ShapeInit, HandlerInit
<1> DEFINE z == [h \in Hops |-> 0]
<1>2. z \in [Hops -> Nat] /\ \A h \in Hops : z[h] = 0
  OBVIOUS
<1> HIDE DEF z
<1>3. Holds(<<>>, 0, 0)
  BY DEF Holds
<1>4. \A h \in Hops : OnTheWay(z, z, h)
  BY <1>2, <1>3 DEF OnTheWay, Init
<1>5. ASSUME NEW g \in Copiers PROVE Carries(z, z, g)
  <2>1. z[Dst[g]] = 0 /\ z[Src[g]] = 0 /\ hand[g] = 0
    BY <1>2, OneWriterOneReader DEF Init
  <2> QED BY <2>1 DEF Carries
<1>6. \A p \in Peers : Sends(z, p) /\ Reads(z, p)
  BY <1>2, <1>3, OneWriterOneReader DEF Sends, Reads, Init
<1>7. Whole(z)
  BY DEF Whole, Init, Hops
<1> QED BY <1>1, <1>2, <1>4, <1>5, <1>6, <1>7 DEF PipeInv, Counts, Flow

LEMMA CountsStep ==
  ASSUME Shape, HandlerInv, Counts, [Next]_vars
  PROVE  Counts'
<1>0. PICK r \in [Hops -> Nat], w \in [Hops -> Nat] : Flow(r, w) /\ Whole(w)
  BY DEF Counts
<1>1. /\ UnitShape /\ hand \in [Copiers -> Nat] /\ fin \in [Hops -> BOOLEAN]
      /\ go \in [Copiers -> {"off", "run", "done"}]
      /\ \A h \in Hops : fin[h] => fin'[h]
  BY FinStays DEF Shape, UnitShape, FlagShape, PlaceShape
<1>2. Kept(w, w)
  BY DEF Kept
<1>3. ASSUME NEW r2 \in [Hops -> Nat], NEW w2 \in [Hops -> Nat], Flow(r2, w2)', Whole(w2)'
      PROVE  Counts'
  BY <1>3 DEF Counts
<1>4. ASSUME UNCHANGED <<fin, sent, cut, srv, cli, go>>, NEW w2 \in [Hops -> Nat], Kept(w, w2)
      PROVE  Whole(w2)'
  BY <1>0, <1>4, WholeStays DEF NeverOpened
<1>5. ASSUME NEW p \in Peers, Send(p) PROVE Counts'
  <2>1. PICK w2 \in [Hops -> Nat] : Flow(r, w2)' /\ Kept(w, w2)
    BY <1>0, <1>1, <1>5, FlowSend
  <2> QED BY <1>0, <1>3, <1>5, <2>1, WholeSend
<1>6. ASSUME NEW p \in Peers, Receive(p) PROVE Counts'
  <2>1. PICK r2 \in [Hops -> Nat] : Flow(r2, w)'
    BY <1>0, <1>1, <1>6, FlowReceive
  <2>2. UNCHANGED <<fin, sent, cut, srv, cli, go>>
    BY <1>6 DEF Receive
  <2> QED BY <1>2, <1>3, <1>4, <2>1, <2>2
<1>7. ASSUME NEW g \in Copiers, Copying(g) PROVE Counts'
  <2>1. UNCHANGED <<fin, sent, cut, srv, cli, go>>
    BY <1>7 DEF Copying, CopyRead, CopyWrite, peers
  <2>2. CASE CopyRead(g)
    <3>1. PICK r2 \in [Hops -> Nat] : Flow(r2, w)'
      BY <1>0, <1>1, <2>2, FlowCopyRead
    <3> QED BY <1>2, <1>3, <1>4, <2>1, <3>1
  <2>3. CASE CopyWrite(g)
    <3>1. PICK w2 \in [Hops -> Nat] : Flow(r, w2)' /\ Kept(w, w2)
      BY <1>0, <1>1, <2>3, FlowCopyWrite
    <3> QED BY <1>3, <1>4, <2>1, <3>1
  <2> QED BY <1>7, <2>2, <2>3 DEF Copying
<1>8. ASSUME NEW p \in Peers, FinishSending(p) \/ CloseSocket(p) PROVE Counts'
  <2>1. UNCHANGED <<q, hand, sent, got, cut, srv, cli, go>> /\ fin' = [fin EXCEPT ![Out[p]] = TRUE]
    BY <1>8 DEF FinishSending, CloseSocket, peers
  <2>2. Flow(r, w)'
    BY <1>0, <1>1, <2>1, FlowStays
  <2>3. \A h \in {"sv", "cs", "sc", "cl"} : fin'[h] <=> fin[h]
    <3>1. Out[p] = "vs" \/ Out[p] = "lc"
      BY Ways DEF Peers
    <3> QED BY <1>1, <2>1, <3>1 DEF Hops
  <2>4. \A h \in {"vs", "lc"} : fin[h] => fin'[h]
    BY <1>1 DEF Hops
  <2>5. NeverOpened => NeverOpened'
    BY <2>1 DEF NeverOpened
  <2>6. Whole(w)'
    BY <1>0, <1>2, <2>1, <2>3, <2>4, <2>5, WholeStays
  <2> QED BY <1>3, <2>2, <2>6
<1>9. ASSUME UNCHANGED <<q, fin, hand, sent, got, cut, srv, cli, go>> PROVE Counts'
  BY <1>0, <1>2, <1>3, <1>4, <1>9, FlowStays
<1>10. ASSUME NEW p \in Peers, SeesEnd(p) PROVE Counts'
  BY <1>9, <1>10 DEF SeesEnd, net
<1>11. CASE (\E l \in Links : Reset(l)) \/ SessionLost \/ StreamCloseTimeout
  <2>1. PICK l \in Links, keep \in BOOLEAN : Break(l, keep)
    BY <1>11, Breaks
  <2>2. PICK w2 \in [Hops -> Nat] : Flow(r, w2)'
    BY <1>0, <1>1, <2>1, FlowBreak
  <2>3. Whole(w2)'
    BY <2>1 DEF Break, Whole
  <2> QED BY <1>3, <2>2, <2>3
<1>12. CASE AllQuiet \/ UNCHANGED vars
  BY <1>9, <1>12 DEF AllQuiet, vars
<1>13. CASE ServerStep
  <2>1. CASE OpenFails \/ NoRequest \/ WebSocketFails \/ ServerDone
    <3>1. UNCHANGED <<q, hand, sent, got, cut>>
      BY <2>1 DEF OpenFails, NoRequest, WebSocketFails, ServerDone, ServerReturns, peers
    <3>2. Flow(r, w)'
      BY <1>0, <1>1, <3>1, FlowStays
    <3>3. Whole(w)'
      BY <1>0, <2>1, WholeServerReturns
    <3> QED BY <1>3, <3>2, <3>3
  <2>2. CASE OpenStream
    <3>1. /\ UNCHANGED <<q, hand, sent, got, cut, fin>> /\ srv = "open" /\ cli' = "dial"
          /\ cli = "none"
      BY <2>2 DEF OpenStream, peers, net, HandlerInv, Phases
    <3>2. Flow(r, w)'
      BY <1>0, <3>1, FlowStays
    <3>3. Whole(w)'
      BY <1>0, <1>2, <3>1, WholeStays DEF NeverOpened
    <3> QED BY <1>3, <3>2, <3>3
  <2>3. CASE WebSocketRequest \/ WebSocketResponse
    <3>1. UNCHANGED <<fin, hand, sent, got, cut, cli>> /\ srv \in Early /\ go'["dnC"] = go["dnC"]
      BY <1>1, <2>3 DEF WebSocketRequest, WebSocketResponse, StartCopying, peers, Early, Copiers
    <3>2. PICK g \in Copiers :
            /\ ~ fin[Dst[g]] /\ go[g] = "off"
            /\ \E n \in 1..Len(q[Src[g]]) : Shift(Src[g], Dst[g], n)
      <4>1. CASE WebSocketRequest
        BY <3>1, <4>1, Ways DEF WebSocketRequest, WriteFails, Copiers, HandlerInv, Phases
      <4>2. CASE WebSocketResponse
        BY <3>1, <4>2, Ways DEF WebSocketResponse, WriteFails, Copiers, HandlerInv, Phases
      <4> QED BY <2>3, <4>1, <4>2
    <3>3. hand[g] = 0
      BY <3>2 DEF HandlerInv, IdleHands
    <3>4. PICK r2 \in [Hops -> Nat], w2 \in [Hops -> Nat] : Flow(r2, w2)' /\ Kept(w, w2)
      BY <1>0, <1>1, <3>1, <3>2, <3>3, FlowShift
    <3>5. Whole(w2)'
      BY <1>0, <3>1, <3>4, WholeStays DEF NeverOpened, Early
    <3> QED BY <1>3, <3>4, <3>5
  <2>4. CASE ServerUpEnds
    <3>1. /\ "upS" \in Copiers /\ hand' = [hand EXCEPT !["upS"] = 0] /\ fin'[Dst["upS"]]
          /\ UNCHANGED <<q, sent, got, cut>>
      BY <1>1, <2>4, Ways DEF ServerUpEnds, CopyOver, peers, Hops, Copiers
    <3>2. Flow(r, w)'
      BY <1>0, <1>1, <3>1, FlowCopyOver
    <3> QED BY <1>0, <1>3, <2>4, <3>2, WholeServerUp
  <2>5. CASE ServerDownEnds
    <3>1. /\ "dnS" \in Copiers /\ hand' = [hand EXCEPT !["dnS"] = 0] /\ fin'[Dst["dnS"]]
          /\ UNCHANGED <<q, sent, got, cut>>
      BY <1>1, <2>5, Ways DEF ServerDownEnds, CopyOver, peers, Hops, Copiers
    <3>2. Flow(r, w)'
      BY <1>0, <1>1, <3>1, FlowCopyOver
    <3> QED BY <1>0, <1>3, <2>5, <3>2, WholeServerDown
  <2> QED BY <1>13, <2>1, <2>2, <2>3, <2>4, <2>5 DEF ServerStep
<1>14. CASE ClientStep
  <2>1. CASE DialSucceeds
    <3>1. /\ UNCHANGED <<q, hand, sent, got, cut, fin, srv>> /\ cli = "dial" /\ cli' = "copy"
      BY <2>1 DEF DialSucceeds, peers, net
    <3>2. Flow(r, w)'
      BY <1>0, <3>1, FlowStays
    <3>3. Whole(w)'
      BY <1>0, <1>2, <3>1, WholeStays DEF NeverOpened
    <3> QED BY <1>3, <3>2, <3>3
  <2>2. CASE DialFails
    <3>1. UNCHANGED <<q, hand, sent, got, cut>>
      BY <2>2 DEF DialFails, peers
    <3>2. Flow(r, w)'
      BY <1>0, <1>1, <3>1, FlowStays
    <3> QED BY <1>0, <1>3, <2>2, <3>2, WholeDialFails
  <2>3. CASE ClientDone
    <3>1. /\ UNCHANGED <<q, hand, sent, got, cut, srv, go>> /\ cli = "copy" /\ go["dnC"] # "off"
          /\ go["upC"] = "done" /\ go["dnC"] = "done"
      BY <2>3 DEF ClientDone, peers
    <3>2. Flow(r, w)'
      BY <1>0, <1>1, <3>1, FlowStays
    <3>3. fin["cl"] /\ fin["cs"]
      BY <3>1, Ways DEF HandlerInv, DoneCloses, Copiers
    <3>4. \A h \in {"sv", "cs", "sc", "cl", "vs", "lc"} : fin'[h] <=> fin[h]
      BY <1>1, <2>3, <3>3 DEF ClientDone, Hops
    <3>5. Whole(w)'
      BY <1>0, <1>2, <3>1, <3>4, WholeStays DEF NeverOpened
    <3> QED BY <1>3, <3>2, <3>5
  <2>4. CASE ClientUpEnds
    <3>1. /\ "upC" \in Copiers /\ hand' = [hand EXCEPT !["upC"] = 0] /\ fin'[Dst["upC"]]
          /\ UNCHANGED <<q, sent, got, cut>>
      BY <1>1, <2>4, Ways DEF ClientUpEnds, CopyOver, peers, Hops, Copiers
    <3>2. Flow(r, w)'
      BY <1>0, <1>1, <3>1, FlowCopyOver
    <3> QED BY <1>0, <1>3, <2>4, <3>2, WholeClientUp
  <2>5. CASE ClientDownEnds
    <3>1. /\ "dnC" \in Copiers /\ hand' = [hand EXCEPT !["dnC"] = 0] /\ fin'[Dst["dnC"]]
          /\ UNCHANGED <<q, sent, got, cut>>
      BY <1>1, <2>5, Ways DEF ClientDownEnds, CopyOver, peers, Hops, Copiers
    <3>2. Flow(r, w)'
      BY <1>0, <1>1, <3>1, FlowCopyOver
    <3> QED BY <1>0, <1>3, <2>5, <3>2, WholeClientDown
  <2> QED BY <1>14, <2>1, <2>2, <2>3, <2>4, <2>5 DEF ClientStep
<1> QED BY <1>5, <1>6, <1>7, <1>8, <1>10, <1>11, <1>12, <1>13, <1>14 DEF Next

LEMMA PipeStep ==
  ASSUME PipeInv, [Next]_vars
  PROVE  PipeInv'
BY ShapeStep, HandlerStep, CountsStep DEF PipeInv

---------------------------------------------------------------------------
(* What the invariant says.                                                *)

LEMMA InUnits ==
  ASSUME NEW s \in Seq(Nat), NEW a \in Nat, NEW b \in 0..MaxUnits, Holds(s, a, b)
  PROVE  s \in Seq(Units) /\ Len(s) <= MaxUnits
<1>1. s \in [1..Len(s) -> Nat] /\ Len(s) \in Nat
  BY LenProperties
<1>2. MaxUnits \in Nat /\ b = a + Len(s)
  BY BoundsAssumption DEF Holds
<1>3. \A i \in 1..Len(s) : s[i] \in Units
  <2> SUFFICES ASSUME NEW i \in 1..Len(s) PROVE s[i] \in Units
    OBVIOUS
  <2>1. s[i] = a + i
    BY DEF Holds
  <2> QED BY <1>1, <1>2, <2>1 DEF Units
<1>4. s \in [1..Len(s) -> Units]
  BY <1>1, <1>3
<1>5. s \in Seq(Units)
  BY <1>1, <1>4, SeqDef
<1> QED BY <1>1, <1>2, <1>5

LEMMA PipeTypes == PipeInv => TypeOK
<1> SUFFICES ASSUME PipeInv PROVE TypeOK
  OBVIOUS
<1>1. Shape /\ UnitShape
  BY DEF PipeInv, Shape
<1>2. PICK r \in [Hops -> Nat], w \in [Hops -> Nat] : Flow(r, w)
  BY DEF PipeInv, Counts
<1>3. sent \in [Peers -> 0..MaxUnits] /\ MaxUnits \in Nat
  BY <1>1, BoundsAssumption DEF UnitShape
<1>4. \A h \in Hops : r[h] \in 0..MaxUnits /\ w[h] \in 0..MaxUnits
  <2>1. sent["visitor"] <= MaxUnits /\ sent["service"] <= MaxUnits
        /\ sent["visitor"] \in Nat /\ sent["service"] \in Nat
    BY <1>3 DEF Peers
  <2>2. \A h \in Hops : r[h] \in Nat /\ w[h] \in Nat /\ r[h] <= w[h]
    BY <1>1, <1>2, Chain
  <2>3. /\ w["sv"] <= r["cs"] /\ w["cs"] <= r["lc"] /\ w["lc"] <= sent["service"]
        /\ w["cl"] <= r["sc"] /\ w["sc"] <= r["vs"] /\ w["vs"] <= sent["visitor"]
    BY <1>1, <1>2, Chain
  <2>4. \A h \in Hops : w[h] <= MaxUnits
    BY <1>3, <2>1, <2>2, <2>3 DEF Hops
  <2> QED BY <1>3, <2>2, <2>4
<1>5. \A h \in Hops : q[h] \in Seq(Units) /\ Len(q[h]) <= MaxUnits
  BY <1>1, <1>2, <1>4, InUnits DEF UnitShape, Flow, OnTheWay
<1>6. \A p \in Peers : got[p] \in Seq(Units) /\ Len(got[p]) <= MaxUnits
  <2> SUFFICES ASSUME NEW p \in Peers PROVE got[p] \in Seq(Units) /\ Len(got[p]) <= MaxUnits
    OBVIOUS
  <2>1. got[p] \in Seq(Nat) /\ r[In[p]] \in 0..MaxUnits /\ Holds(got[p], 0, r[In[p]])
    BY <1>1, <1>2, <1>4, OneWriterOneReader DEF UnitShape, Flow, Reads
  <2> QED BY <2>1, InUnits
<1>7. hand \in [Copiers -> Units \cup {0}]
  <2>1. ASSUME NEW g \in Copiers PROVE hand[g] \in Units \cup {0}
    <3>1. hand[g] \in Nat /\ (hand[g] # 0 => hand[g] = r[Src[g]]) /\ r[Src[g]] \in 0..MaxUnits
      BY <1>1, <1>2, <1>4, OneWriterOneReader DEF UnitShape, Flow, Carries
    <3> QED BY <1>3, <3>1 DEF Units
  <2> QED BY <1>1, <2>1 DEF UnitShape
<1> QED BY <1>1, <1>3, <1>5, <1>6, <1>7 DEF TypeOK, Shape, FlagShape, PlaceShape

(* A first part of 1, 2, ..., n.                                           *)
LEMMA Counted ==
  ASSUME NEW s \in Seq(Nat), NEW n \in Nat, NEW m \in 0..n, Holds(s, 0, m)
  PROVE  IsPrefix(s, Numbered(n))
<1> DEFINE t == Numbered(n)
<1>1. t \in Seq(Nat) /\ Len(t) = n /\ \A i \in 1..n : t[i] = i
  <2>1. t \in [1..n -> Nat]
    BY DEF Numbered
  <2>2. t \in Seq(Nat)
    BY <2>1, SeqDef
  <2>3. Len(t) = n
    BY <2>1, <2>2, LenProperties
  <2> QED BY <2>2, <2>3 DEF Numbered
<1> HIDE DEF t
<1>2. Len(s) = m /\ m \in Nat /\ \A i \in 1..m : s[i] = i
  BY LenProperties DEF Holds
<1>3. m \in 0..Len(s) /\ m \in 0..Len(t)
  BY <1>1, <1>2
<1>4. /\ SubSeq(s, 1, m) \in Seq(Nat) /\ Len(SubSeq(s, 1, m)) = m
      /\ \A i \in 1..m : SubSeq(s, 1, m)[i] = s[i]
  BY <1>3, FirstPart
<1>5. /\ SubSeq(t, 1, m) \in Seq(Nat) /\ Len(SubSeq(t, 1, m)) = m
      /\ \A i \in 1..m : SubSeq(t, 1, m)[i] = t[i]
  BY <1>1, <1>3, FirstPart
<1>6. \A i \in 1..m : SubSeq(s, 1, m)[i] = SubSeq(t, 1, m)[i]
  BY <1>1, <1>2, <1>4, <1>5
<1>7. SubSeq(s, 1, m) = SubSeq(t, 1, m)
  BY <1>4, <1>5, <1>6, SeqEqual
<1>8. IsPrefix(s, t)
  BY <1>1, <1>2, <1>7 DEF IsPrefix
<1> QED BY <1>8 DEF t

LEMMA PipeInOrder == PipeInv => InOrder
<1> SUFFICES ASSUME PipeInv PROVE InOrder
  OBVIOUS
<1>1. UnitShape
  BY DEF PipeInv, Shape
<1>2. PICK r \in [Hops -> Nat], w \in [Hops -> Nat] : Flow(r, w)
  BY DEF PipeInv, Counts
<1>3. /\ sent["visitor"] \in Nat /\ sent["service"] \in Nat
      /\ got["visitor"] \in Seq(Nat) /\ got["service"] \in Seq(Nat)
  BY <1>1, BoundsAssumption DEF UnitShape, Peers
<1>4. r["sv"] \in 0..sent["service"] /\ r["cl"] \in 0..sent["visitor"]
  <2>1. \A h \in Hops : r[h] \in Nat /\ w[h] \in Nat /\ r[h] <= w[h]
    BY <1>1, <1>2, Chain
  <2>2. /\ w["sv"] <= r["cs"] /\ w["cs"] <= r["lc"] /\ w["lc"] <= sent["service"]
        /\ w["cl"] <= r["sc"] /\ w["sc"] <= r["vs"] /\ w["vs"] <= sent["visitor"]
    BY <1>1, <1>2, Chain
  <2>3. /\ r["sv"] \in Nat /\ w["sv"] \in Nat /\ r["sv"] <= w["sv"]
        /\ r["cs"] \in Nat /\ w["cs"] \in Nat /\ r["cs"] <= w["cs"]
        /\ r["lc"] \in Nat /\ w["lc"] \in Nat /\ r["lc"] <= w["lc"]
    BY <2>1 DEF Hops
  <2>4. /\ r["cl"] \in Nat /\ w["cl"] \in Nat /\ r["cl"] <= w["cl"]
        /\ r["sc"] \in Nat /\ w["sc"] \in Nat /\ r["sc"] <= w["sc"]
        /\ r["vs"] \in Nat /\ w["vs"] \in Nat /\ r["vs"] <= w["vs"]
    BY <2>1 DEF Hops
  <2>5. sent["visitor"] \in Nat /\ sent["service"] \in Nat
    BY <1>3
  <2>6. r["sv"] <= w["cs"] /\ r["cl"] <= w["sc"]
    BY <2>2, <2>3, <2>4
  <2>7. w["cs"] <= sent["service"] /\ w["sc"] <= sent["visitor"]
    BY <2>2, <2>3, <2>4, <2>5
  <2> QED BY <2>3, <2>4, <2>5, <2>6, <2>7
<1>5. Holds(got["visitor"], 0, r["sv"]) /\ Holds(got["service"], 0, r["cl"])
  BY <1>2, Ways DEF Flow, Reads, Peers
<1> QED BY <1>3, <1>4, <1>5, Counted DEF InOrder

LEMMA PipeWhole == PipeInv => WholeTransfers
<1> SUFFICES ASSUME PipeInv, ~ cut
             PROVE  /\ end["visitor"] = "eof" => Len(got["visitor"]) = sent["service"]
                    /\ end["service"] = "eof" /\ ~ fin["lc"]
                         => Len(got["service"]) = sent["visitor"]
  BY DEF WholeTransfers
<1>1. PICK r \in [Hops -> Nat], w \in [Hops -> Nat] : Flow(r, w) /\ Whole(w)
  BY DEF PipeInv, Counts
<1>2. got["visitor"] \in Seq(Nat) /\ got["service"] \in Seq(Nat)
  BY DEF PipeInv, Shape, UnitShape, Peers
<1>3. Len(got["visitor"]) = r["sv"] /\ Len(got["service"]) = r["cl"]
  <2>1. r["sv"] = 0 + Len(got["visitor"]) /\ r["cl"] = 0 + Len(got["service"])
    BY <1>1, Ways DEF Flow, Reads, Holds, Peers
  <2> QED BY <1>2, <2>1, LenProperties
<1>4. ASSUME NEW h \in Hops, q[h] = <<>> PROVE w[h] = r[h]
  <2>1. w[h] = r[h] + 0
    BY <1>1, <1>4 DEF Flow, OnTheWay, Holds
  <2> QED BY <2>1
<1>5. /\ end["visitor"] = "eof" => q["sv"] = <<>> /\ fin["sv"]
      /\ end["service"] = "eof" => q["cl"] = <<>> /\ fin["cl"]
  BY Ways DEF PipeInv, HandlerInv, Ended, Peers
<1>6. /\ end["visitor"] = "eof" => w["sv"] = r["sv"] /\ fin["sv"]
      /\ end["service"] = "eof" => w["cl"] = r["cl"] /\ fin["cl"]
  BY <1>4, <1>5 DEF Hops
<1> QED BY <1>1, <1>3, <1>6 DEF Whole

(* The inductive invariant: for each way there are counts of what has been *)
(* read from it and written to it that account for every unit on the way   *)
(* and in a goroutine's hand, and every close follows from the handlers.   *)
THEOREM PipeInvariant == Spec => []PipeInv
BY PipeInit, PipeStep, PTL DEF Spec

(* Types, and no way ever holds more than the peer at its start may send:  *)
(* what io.Copy or a flush moves leaves the buffer it came from.           *)
THEOREM DataPlaneTypes == Spec => []TypeOK
BY PipeInvariant, PipeTypes, PTL

(* What a peer has read of a tunnelled connection is a first part of what  *)
(* the other peer has sent, for handleTCPConn and for proxyWebSocket with  *)
(* its two flushes, whatever breaks.                                       *)
THEOREM PipeKeepsOrder == Spec => []InOrder
BY PipeInvariant, PipeInOrder, PTL

(* If nothing was reset, timed out or lost its session, the end a visitor  *)
(* reads comes after all that the service sent, and the end a service      *)
(* reads, before it has finished itself, after all that the visitor sent.  *)
THEOREM PipeIsWhole == Spec => []WholeTransfers
BY PipeInvariant, PipeWhole, PTL
=============================================================================
