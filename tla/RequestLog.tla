----------------------------- MODULE RequestLog -----------------------------
(***************************************************************************)
(* The in-memory request log (request_log.go), the adapter that forwards   *)
(* new entries to the dashboard (request_log_adapter.go) and the event     *)
(* streams that show them (serveSSE).                                      *)
(*                                                                         *)
(* An entry passes from a request's goroutine (Add) over the channel src   *)
(* to the forwarding goroutine, and over dst to the event-stream handler.  *)
(* Both channels hold ChanSize entries and both senders drop an entry      *)
(* rather than wait.                                                       *)
(***************************************************************************)
EXTENDS Naturals, Sequences, SequencesExt, FiniteSets, FiniteSetsExt

CONSTANTS
  Entries,        \* the log entries: one per request
  Tunnels,        \* the tunnels they belong to, each with its own masked key
  TunnelOf,       \* Entries -> Tunnels
  Streams,        \* the event streams that are opened
  Filter,         \* Streams -> SUBSET Tunnels: one key's tunnels, or all
  MaxLogEntries,  \* the size of the ring
  ChanSize        \* the size of the channels

ASSUME LogAssumption ==
  /\ IsFiniteSet(Entries) /\ Entries \cap {"none", "recv", "done"} = {}
  /\ TunnelOf \in [Entries -> Tunnels]
  /\ Filter \in [Streams -> SUBSET Tunnels]
  /\ MaxLogEntries \in Nat \ {0} /\ ChanSize \in Nat \ {0}

VARIABLES
  entries,    \* the ring: 0..MaxLogEntries-1 -> Entries, or None where unused
  pos, full,
  adding,     \* Add of each entry: "no", "stored", "sending", "added"
  todo,       \* the channels that Add has still to visit in its loop
  subs,       \* rl.subs, by stream
  src, dst,   \* the channels of each stream
  closed,     \* the channels that have been closed
  fwd,        \* the forwarding goroutine: "none", "recv", an entry, "done"
  sse,        \* serveSSE: "idle", "serving", "leaving", "unsubscribed", "done"
  shown,      \* what each stream has written
  log,        \* history: the entries in the order they were stored
  offered,    \* history: what Add offered to each stream, in order
  dropped,    \* history: the streams for which an entry was dropped
  panicked    \* a send on a closed channel, or a second close

logVars == <<entries, pos, full, adding, todo, subs, src, dst, closed, fwd,
             sse, shown, log, offered, dropped, panicked>>
ringVars == <<entries, pos, full, log>>
addVars == <<adding, todo, offered>>
chanVars == <<src, dst, closed, dropped>>

None == "none"
Channels == {"src", "dst"} \X Streams

LogTypeOK ==
  /\ entries \in [0..MaxLogEntries - 1 -> Entries \cup {None}]
  /\ pos \in 0..MaxLogEntries - 1 /\ full \in BOOLEAN
  /\ adding \in [Entries -> {"no", "stored", "sending", "added"}]
  /\ todo \in [Entries -> SUBSET Streams] /\ subs \subseteq Streams
  /\ \A h \in Streams :
       /\ src[h] \in Seq(Entries) /\ Len(src[h]) <= ChanSize
       /\ dst[h] \in Seq(Entries) /\ Len(dst[h]) <= ChanSize
       /\ {shown[h], offered[h]} \subseteq Seq(Entries)
  /\ closed \subseteq Channels /\ dropped \subseteq Streams
  /\ fwd \in [Streams -> Entries \cup {None, "recv", "done"}]
  /\ sse \in [Streams -> {"idle", "serving", "leaving", "unsubscribed", "done"}]
  /\ panicked \in BOOLEAN

LogInit ==
  /\ entries = [i \in 0..MaxLogEntries - 1 |-> None]
  /\ pos = 0 /\ full = FALSE
  /\ adding = [e \in Entries |-> "no"] /\ todo = [e \in Entries |-> {}]
  /\ subs = {} /\ closed = {} /\ dropped = {} /\ panicked = FALSE
  /\ src = [h \in Streams |-> <<>>] /\ dst = [h \in Streams |-> <<>>]
  /\ fwd = [h \in Streams |-> None] /\ sse = [h \in Streams |-> "idle"]
  /\ shown = [h \in Streams |-> <<>>] /\ offered = [h \in Streams |-> <<>>]
  /\ log = <<>>

(***************************************************************************)
(* Add: the ring under mu, then the fan-out under subMu.RLock.             *)
(***************************************************************************)

(* Faulty variant: the position runs past the end of the ring.             *)
Store_NoWrap(e) ==
  /\ adding[e] = "no"
  /\ adding' = [adding EXCEPT ![e] = "stored"]
  /\ entries' = [entries EXCEPT ![pos] = e]
  /\ pos' = pos + 1
  /\ full' = (full \/ pos + 1 >= MaxLogEntries)
  /\ log' = Append(log, e)
  /\ UNCHANGED <<todo, subs, chanVars, fwd, sse, shown, offered, panicked>>

Store(e) ==
  /\ adding[e] = "no"
  /\ adding' = [adding EXCEPT ![e] = "stored"]
  /\ entries' = [entries EXCEPT ![pos] = e]
  /\ pos' = (pos + 1) % MaxLogEntries
  /\ full' = (full \/ pos + 1 >= MaxLogEntries)
  /\ log' = Append(log, e)
  /\ UNCHANGED <<todo, subs, chanVars, fwd, sse, shown, offered, panicked>>

(* subMu.RLock: the loop will visit the channels that are subscribed now.  *)
FanOut(e) ==
  /\ adding[e] = "stored"
  /\ adding' = [adding EXCEPT ![e] = IF subs = {} THEN "added" ELSE "sending"]
  /\ todo' = [todo EXCEPT ![e] = subs]
  /\ UNCHANGED <<ringVars, subs, chanVars, fwd, sse, shown, offered, panicked>>

(* select { case ch <- e: default: }; subMu.RUnlock after the last.        *)
FanOutSend(e) ==
  /\ adding[e] = "sending"
  /\ \E h \in todo[e] :
       /\ todo' = [todo EXCEPT ![e] = @ \ {h}]
       /\ adding' = [adding EXCEPT ![e] = IF todo[e] = {h} THEN "added" ELSE @]
       /\ offered' = [offered EXCEPT ![h] = Append(@, e)]
       /\ IF Len(src[h]) < ChanSize
          THEN src' = [src EXCEPT ![h] = Append(@, e)] /\ UNCHANGED dropped
          ELSE dropped' = dropped \cup {h} /\ UNCHANGED src
       /\ panicked' = (panicked \/ <<"src", h>> \in closed)
  /\ UNCHANGED <<ringVars, subs, dst, closed, fwd, sse, shown>>

NoReader == \A e \in Entries : adding[e] # "sending"

(***************************************************************************)
(* serveSSE, the adapter's Subscribe and Unsubscribe.                      *)
(***************************************************************************)

(* The subscription under subMu.Lock, srcOf, and the new goroutine.        *)
Subscribe(h) ==
  /\ sse[h] = "idle" /\ NoReader
  /\ sse' = [sse EXCEPT ![h] = "serving"]
  /\ subs' = subs \cup {h}
  /\ fwd' = [fwd EXCEPT ![h] = "recv"]
  /\ UNCHANGED <<ringVars, addVars, chanVars, shown, panicked>>

(* Faulty variant: entries of every key are written.                       *)
ShowEntry_Unfiltered(h) ==
  /\ sse[h] = "serving" /\ dst[h] # <<>>
  /\ dst' = [dst EXCEPT ![h] = Tail(@)]
  /\ shown' = [shown EXCEPT ![h] = Append(@, Head(dst[h]))]
  /\ UNCHANGED <<ringVars, addVars, subs, src, closed, dropped, fwd, sse,
                 panicked>>

(* case entry, ok := <-ch, with the filter.                                *)
ShowEntry(h) ==
  /\ sse[h] = "serving" /\ dst[h] # <<>>
  /\ dst' = [dst EXCEPT ![h] = Tail(@)]
  /\ shown' = IF TunnelOf[Head(dst[h])] \in Filter[h]
              THEN [shown EXCEPT ![h] = Append(@, Head(dst[h]))]
              ELSE shown
  /\ UNCHANGED <<ringVars, addVars, subs, src, closed, dropped, fwd, sse,
                 panicked>>

(* case <-r.Context().Done(): the viewer has gone.                         *)
ViewerLeaves(h) ==
  /\ sse[h] = "serving"
  /\ sse' = [sse EXCEPT ![h] = "leaving"]
  /\ UNCHANGED <<ringVars, addVars, subs, chanVars, fwd, shown, panicked>>

(* Faulty variant: subMu is not taken.                                     *)
Unsubscribe_Unlocked(h) ==
  /\ sse[h] = "leaving"
  /\ sse' = [sse EXCEPT ![h] = "unsubscribed"]
  /\ subs' = subs \ {h}
  /\ UNCHANGED <<ringVars, addVars, chanVars, fwd, shown, panicked>>

(* srcOf is taken out, then rl.Unsubscribe deletes under subMu.Lock ...    *)
Unsubscribe(h) ==
  /\ sse[h] = "leaving" /\ NoReader
  /\ sse' = [sse EXCEPT ![h] = "unsubscribed"]
  /\ subs' = subs \ {h}
  /\ UNCHANGED <<ringVars, addVars, chanVars, fwd, shown, panicked>>

Close(c) ==
  /\ closed' = closed \cup {c}
  /\ panicked' = (panicked \/ c \in closed)

(* Faulty variant: the channel is not closed.                              *)
CloseSrc_LeftOpen(h) ==
  /\ sse[h] = "unsubscribed"
  /\ sse' = [sse EXCEPT ![h] = "done"]
  /\ UNCHANGED <<ringVars, addVars, subs, chanVars, fwd, shown, panicked>>

(* ... and closes the channel after it has unlocked.                       *)
CloseSrc(h) ==
  /\ sse[h] = "unsubscribed"
  /\ sse' = [sse EXCEPT ![h] = "done"]
  /\ Close(<<"src", h>>)
  /\ UNCHANGED <<ringVars, addVars, subs, src, dst, dropped, fwd, shown>>

(***************************************************************************)
(* The forwarding goroutine: for e := range src.                           *)
(***************************************************************************)
Forward(h) ==
  /\ fwd[h] = "recv" /\ src[h] # <<>>
  /\ fwd' = [fwd EXCEPT ![h] = Head(src[h])]
  /\ src' = [src EXCEPT ![h] = Tail(@)]
  /\ UNCHANGED <<ringVars, addVars, subs, dst, closed, dropped, sse, shown,
                 panicked>>

(* select { case dst <- toDBEntry(e): default: }                           *)
ForwardSend(h) ==
  /\ fwd[h] \in Entries
  /\ fwd' = [fwd EXCEPT ![h] = "recv"]
  /\ IF Len(dst[h]) < ChanSize
     THEN dst' = [dst EXCEPT ![h] = Append(@, fwd[h])] /\ UNCHANGED dropped
     ELSE dropped' = dropped \cup {h} /\ UNCHANGED dst
  /\ panicked' = (panicked \/ <<"dst", h>> \in closed)
  /\ UNCHANGED <<ringVars, addVars, subs, src, closed, sse, shown>>

ForwardEnds(h) ==
  /\ fwd[h] = "recv" /\ src[h] = <<>> /\ <<"src", h>> \in closed
  /\ fwd' = [fwd EXCEPT ![h] = "done"]
  /\ Close(<<"dst", h>>)
  /\ UNCHANGED <<ringVars, addVars, subs, src, dst, dropped, sse, shown>>

AddStep(e) == FanOut(e) \/ FanOutSend(e)
LeaveStep(h) == Unsubscribe(h) \/ CloseSrc(h)
ForwardStep(h) == Forward(h) \/ ForwardSend(h) \/ ForwardEnds(h)
StreamStep(h) ==
  \/ Subscribe(h) \/ ShowEntry(h) \/ ViewerLeaves(h)
  \/ LeaveStep(h) \/ ForwardStep(h)

(***************************************************************************)
(* Queries.                                                                *)
(***************************************************************************)

(* Faulty variant: the ring is read from its first place.                  *)
snapshot_Unrotated ==
  IF full THEN Reverse([i \in 1..MaxLogEntries |-> entries[i - 1]])
          ELSE Reverse([i \in 1..pos |-> entries[i - 1]])

(* The stored entries, newest first: from the ring, rotated once it wraps. *)
snapshot ==
  LET size == IF full THEN MaxLogEntries ELSE pos
      first == IF full THEN pos ELSE 0
  IN  Reverse([i \in 1..size |-> entries[(first + i - 1) % MaxLogEntries]])

(* The loop that keeps the entries of one key, in their order.             *)
Only(s, filter) ==
  LET kept[i \in 0..Len(s)] ==
        IF i = 0 THEN <<>>
        ELSE IF TunnelOf[s[i]] \in filter THEN Append(kept[i - 1], s[i])
        ELSE kept[i - 1]
  IN  kept[Len(s)]

Recent(limit, filter) ==
  LET all == Only(snapshot, filter)
  IN  IF limit = 0 \/ limit >= Len(all) THEN all ELSE SubSeq(all, 1, limit)

(* Faulty variant: the buckets are in the wrong order.                     *)
TrafficStats_NewestFirst(minutes, filter, age) ==
  LET all == Recent(0, filter)
      Minute(i) == age[all[i]] \div 2
  IN  [k \in 1..minutes |->
         Cardinality({i \in DOMAIN all : Minute(i) = k - 1})]

(* Requests per minute of the last `minutes`, oldest first; age[e] is the  *)
(* age of an entry in halves of a minute.                                  *)
TrafficStats(minutes, filter, age) ==
  LET all == Recent(0, filter)
      Minute(i) == age[all[i]] \div 2
      Counted(i) == age[all[i]] <= 2 * minutes /\ Minute(i) < minutes
  IN  [k \in 1..minutes |->
         Cardinality({i \in DOMAIN all : Counted(i) /\ Minute(i) = minutes - k})]

(***************************************************************************)
(* Properties.                                                             *)
(***************************************************************************)
Newest(s, n) == SubSeq(Reverse(s), 1, IF n < Len(s) THEN n ELSE Len(s))

(* Recent shows exactly the last entries that were stored, newest first,   *)
(* filtered and cut to the limit, before and after the ring has wrapped.   *)
RecentIsNewest ==
  \A limit \in 0..MaxLogEntries, filter \in {Filter[h] : h \in Streams} :
    LET kept == Newest(log, MaxLogEntries)
        mine == Only(kept, filter)
    IN  Recent(limit, filter) =
          IF limit = 0 THEN mine ELSE Newest(Reverse(mine), limit)

(* TrafficStats counts every stored entry younger than the window in one   *)
(* bucket, the bucket of its minute, whatever the ages are.                *)
TrafficAccounts ==
  LET stored == ToSet(snapshot)
      Of(P(_)) == Cardinality({e \in stored : P(e)})
  IN  \A age \in [stored -> {1, 2, 4}] :
        LET stats == TrafficStats(2, Tunnels, age)
        IN  /\ stats[1] = Of(LAMBDA e : age[e] \in 2..3)
            /\ stats[2] = Of(LAMBDA e : age[e] \in 0..1)

(* Neither Add nor the forwarding goroutine sends on a channel that        *)
(* Unsubscribe has closed, and no channel is closed twice: either would    *)
(* panic and end the server.                                               *)
NoPanic == ~panicked

(* An event stream shows its own entries only, in the order they were      *)
(* offered, none twice; and if no channel was ever full, each of them has  *)
(* been shown or is still on its way.                                      *)
Held(h) == IF fwd[h] \in Entries THEN <<fwd[h]>> ELSE <<>>
Position(s, e) == CHOOSE i \in DOMAIN s : s[i] = e
StreamIsFaithful ==
  \A h \in Streams :
    LET way == shown[h] \o Only(dst[h] \o Held(h) \o src[h], Filter[h])
    IN  /\ ToSet(way) \subseteq ToSet(offered[h])
        /\ \A i, j \in DOMAIN way :
             i < j => Position(offered[h], way[i]) < Position(offered[h], way[j])
        /\ ToSet(shown[h]) \subseteq {e \in Entries : TunnelOf[e] \in Filter[h]}
        /\ h \notin dropped => way = Only(offered[h], Filter[h])

(* Once a viewer has gone, its forwarding goroutine ends, even if dst was  *)
(* full and nobody reads it any more.                                      *)
ForwarderEnds ==
  \A h \in Streams : sse[h] = "leaving" ~> fwd[h] = "done"
=============================================================================
