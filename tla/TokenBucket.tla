---------------------------- MODULE TokenBucket ----------------------------
(***************************************************************************)
(* What a rate limiter promises: every client has a bucket that starts     *)
(* full, gains a token per tick up to Burst, and pays one for each event   *)
(* that is allowed.  Over any period of n ticks a client is therefore      *)
(* allowed at most Burst + n events.                                       *)
(***************************************************************************)
EXTENDS Naturals

CONSTANTS
  Clients, Burst,
  MayRefuse   \* a client may be refused although it has tokens left

VARIABLES
  level,   \* the tokens left
  verdict  \* the last event: <<client, allowed>>

Refill(n) == IF n < Burst THEN n + 1 ELSE Burst

BucketInit == level = [c \in Clients |-> Burst] /\ verdict = <<>>

Spend(c) ==
  /\ level[c] > 0 /\ level' = [level EXCEPT ![c] = @ - 1]
  /\ verdict' = <<c, TRUE>>
Refuse(c) ==
  /\ level[c] = 0 \/ MayRefuse
  /\ verdict' = <<c, FALSE>> /\ UNCHANGED level
BucketTick ==
  level' = [c \in Clients |-> Refill(level[c])] /\ UNCHANGED verdict

BucketNext == BucketTick \/ \E c \in Clients : Spend(c) \/ Refuse(c)
BucketSpec == BucketInit /\ [][BucketNext]_<<level, verdict>>
=============================================================================
