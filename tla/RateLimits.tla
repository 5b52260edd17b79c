----------------------------- MODULE RateLimits -----------------------------
(***************************************************************************)
(* The rate limiters of auth.go: connections per address before            *)
(* authentication (ipRateLimiter, whose idle entries a goroutine deletes), *)
(* and tunnel requests per token and in total (RateLimiter).               *)
(*                                                                         *)
(* A limiter of n events per minute holds n tokens and gains one every     *)
(* 60/n seconds, which is a tick here; a minute has Burst ticks.           *)
(***************************************************************************)
EXTENDS Naturals

CONSTANTS
  Addresses,    \* client addresses
  Tokens,       \* tokens that ask for tunnels
  Burst,        \* connections per minute and address
  TokenBurst,   \* requests per minute and token
  GlobalBurst,  \* requests per minute in total
  StaleAfter    \* ticks after which cleanup deletes an entry

(* The code deletes entries after ten minutes.                             *)
ASSUME LimitsAssumption ==
  /\ Burst \in Nat \ {0} /\ TokenBurst \in Nat \ {0}
  /\ GlobalBurst \in Nat \ {0}
  /\ StaleAfter \in Nat /\ StaleAfter >= Burst

VARIABLES
  known,     \* the addresses with an entry in limiters
  tokens,    \* the tokens left in an address's limiter
  idle,      \* ticks since lastSeen, counted up to StaleAfter + 1
  perTok,    \* the tokens with a limiter
  tokensOf,  \* the tokens left in a token's limiter
  global,    \* the tokens left in the global limiter
  admitted,  \* the last verdict of ipRateLimiter.Allow
  granted    \* the last verdict of RateLimiter.Allow

vars == <<known, tokens, idle, perTok, tokensOf, global, admitted, granted>>

TypeOK ==
  /\ known \subseteq Addresses
  /\ tokens \in [Addresses -> 0..Burst]
  /\ idle \in [Addresses -> 0..StaleAfter + 1]
  /\ perTok \subseteq Tokens /\ tokensOf \in [Tokens -> 0..TokenBurst]
  /\ global \in 0..GlobalBurst
  /\ admitted \in {<<>>} \cup (Addresses \X BOOLEAN)
  /\ granted \in {<<>>} \cup (Tokens \X BOOLEAN)

Init ==
  /\ known = {}
  /\ tokens = [a \in Addresses |-> Burst]
  /\ idle = [a \in Addresses |-> 0]
  /\ perTok = {} /\ tokensOf = [k \in Tokens |-> TokenBurst]
  /\ global = GlobalBurst
  /\ admitted = <<>> /\ granted = <<>>

(* ipRateLimiter.Allow.  An address without an entry gets a new limiter,   *)
(* with all its tokens.                                                    *)
Left(a) == IF a \in known THEN tokens[a] ELSE Burst
Pay(n) == IF n > 0 THEN n - 1 ELSE 0

Allow(a) ==
  /\ known' = known \cup {a}
  /\ tokens' = [tokens EXCEPT ![a] = Pay(Left(a))]
  /\ idle' = [idle EXCEPT ![a] = 0]
  /\ admitted' = <<a, Left(a) > 0>>
  /\ UNCHANGED <<perTok, tokensOf, global, granted>>

(* Faulty variant: entries are deleted before they are full again.         *)
Cleanup_Early ==
  /\ known' = {a \in known : idle[a] + 1 < Burst}
  /\ UNCHANGED <<tokens, idle, perTok, tokensOf, global, admitted, granted>>

(* cleanup, on its ticker: entries last seen before the cutoff go.         *)
Cleanup ==
  /\ known' = {a \in known : idle[a] <= StaleAfter}
  /\ UNCHANGED <<tokens, idle, perTok, tokensOf, global, admitted, granted>>

(* RateLimiter.Allow: the global limiter is asked, and pays, first; it is  *)
(* not paid back when the token's own limiter refuses.                     *)
LeftOf(k) == IF k \in perTok THEN tokensOf[k] ELSE TokenBurst

GloballyRefused(k) ==
  /\ global = 0
  /\ granted' = <<k, FALSE>>
  /\ UNCHANGED <<known, tokens, idle, perTok, tokensOf, global, admitted>>

(* Faulty variant: a new limiter is not put into the map.                  *)
Request_NotStored(k) ==
  /\ global > 0 /\ global' = global - 1
  /\ tokensOf' = [tokensOf EXCEPT ![k] = Pay(LeftOf(k))]
  /\ granted' = <<k, LeftOf(k) > 0>>
  /\ UNCHANGED <<known, tokens, idle, perTok, admitted>>

Request(k) ==
  /\ global > 0 /\ global' = global - 1
  /\ perTok' = perTok \cup {k}
  /\ tokensOf' = [tokensOf EXCEPT ![k] = Pay(LeftOf(k))]
  /\ granted' = <<k, LeftOf(k) > 0>>
  /\ UNCHANGED <<known, tokens, idle, admitted>>

UpTo(n, max) == IF n < max THEN n ELSE max

(* Limiters gain tokens as time passes.                                    *)
Tick ==
  /\ tokens' = [a \in Addresses |-> UpTo(tokens[a] + 1, Burst)]
  /\ idle' = [a \in Addresses |-> UpTo(idle[a] + 1, StaleAfter + 1)]
  /\ tokensOf' = [k \in Tokens |-> UpTo(tokensOf[k] + 1, TokenBurst)]
  /\ global' = UpTo(global + 1, GlobalBurst)
  /\ UNCHANGED <<known, perTok, admitted, granted>>

Next ==
  \/ \E a \in Addresses : Allow(a)
  \/ \E k \in Tokens : GloballyRefused(k) \/ Request(k)
  \/ Cleanup \/ Tick

Spec == Init /\ [][Next]_vars

(***************************************************************************)
(* Properties.                                                             *)
(***************************************************************************)

(* Per address, ipRateLimiter is a token bucket for good: no address gets  *)
(* fresh tokens because cleanup deleted its entry, and none is refused     *)
(* while it has tokens left.                                               *)
Bucket == INSTANCE TokenBucket WITH
            Clients <- Addresses, MayRefuse <- FALSE,
            level <- [a \in Addresses |-> Left(a)], verdict <- admitted
ConnectionsAreMetered == Bucket!BucketSpec

(* Every tunnel request that is granted is paid for from the token's own   *)
(* bucket, whatever the global limiter and other tokens do.                *)
TokenBuckets == INSTANCE TokenBucket WITH
                  Clients <- Tokens, Burst <- TokenBurst, MayRefuse <- TRUE,
                  level <- [k \in Tokens |-> LeftOf(k)], verdict <- granted
RequestsAreMetered == TokenBuckets!BucketSpec

(* Why cleanup is harmless: an entry that has been idle has been refilled. *)
RefilledWhenIdle ==
  \A a \in known : tokens[a] >= UpTo(idle[a], Burst)
=============================================================================
