-------------------------- MODULE RateLimitsProofs --------------------------
(***************************************************************************)
(* Proofs that both rate limiters are token buckets, for any addresses,    *)
(* tokens and rates: the limiter of an address although cleanup deletes    *)
(* entries, the limiter of a token although the global one comes first.    *)
(***************************************************************************)
EXTENDS RateLimits, TLAPS

RLInv == TypeOK /\ RefilledWhenIdle

LEMMA PayType == ASSUME NEW max \in Nat, NEW n \in 0..max PROVE Pay(n) \in 0..max
BY DEF Pay

LEMMA UpToType == ASSUME NEW max \in Nat, NEW n \in Nat PROVE UpTo(n, max) \in 0..max
BY DEF UpTo

(* A running limiter gains what an ideal bucket gains.                     *)
LEMMA UpToRefills ==
  ASSUME NEW max \in Nat, NEW n \in 0..max
  PROVE  UpTo(n + 1, max) = IF n < max THEN n + 1 ELSE max
BY DEF UpTo

LEMMA LeftType ==
  ASSUME TypeOK
  PROVE  /\ \A a \in Addresses : Left(a) \in 0..Burst
         /\ \A k \in Tokens : LeftOf(k) \in 0..TokenBurst
BY LimitsAssumption DEF TypeOK, Left, LeftOf

LEMMA RLInitInv == Init => RLInv
BY LimitsAssumption DEF Init, RLInv, TypeOK, RefilledWhenIdle

LEMMA RLNextInv == RLInv /\ [Next]_vars => RLInv'
<1> SUFFICES ASSUME RLInv, [Next]_vars PROVE RLInv'
  OBVIOUS
<1> USE LimitsAssumption DEF RLInv
<1>1. ASSUME NEW a \in Addresses, Allow(a) PROVE RLInv'
  <2>1. Pay(Left(a)) \in 0..Burst
    BY LeftType, PayType
  <2>2. TypeOK'
    <3>1. (Left(a) > 0) \in BOOLEAN
      BY LeftType
    <3>2. admitted' \in Addresses \X BOOLEAN
      BY <1>1, <3>1, Zenon DEF Allow
    <3> QED BY <1>1, <2>1, <3>2 DEF Allow, TypeOK
  <2>3. ASSUME NEW b \in known' PROVE tokens'[b] >= UpTo(idle'[b], Burst)
    <3>1. CASE b = a
      BY <3>1, <1>1, <2>1 DEF Allow, TypeOK, UpTo
    <3>2. CASE b # a
      BY <3>2, <2>3, <1>1 DEF Allow, TypeOK, RefilledWhenIdle
    <3> QED BY <3>1, <3>2
  <2> QED BY <2>2, <2>3 DEF RefilledWhenIdle
<1>2. ASSUME NEW k \in Tokens, GloballyRefused(k) PROVE RLInv'
  BY <1>2 DEF GloballyRefused, TypeOK, RefilledWhenIdle
<1>3. ASSUME NEW k \in Tokens, Request(k) PROVE RLInv'
  <2>1. Pay(LeftOf(k)) \in 0..TokenBurst
    BY LeftType, PayType
  <2>2. (LeftOf(k) > 0) \in BOOLEAN
    BY LeftType
  <2>3. granted' \in Tokens \X BOOLEAN
    BY <1>3, <2>2, Zenon DEF Request
  <2>4. global' \in 0..GlobalBurst
    BY <1>3 DEF Request, TypeOK
  <2>5. TypeOK'
    BY <1>3, <2>1, <2>3, <2>4 DEF Request, TypeOK
  <2> QED BY <1>3, <2>5 DEF Request, RefilledWhenIdle
<1>4. CASE Cleanup
  BY <1>4 DEF Cleanup, TypeOK, RefilledWhenIdle
<1>5. CASE Tick
  <2>1. /\ \A a \in Addresses : UpTo(tokens[a] + 1, Burst) \in 0..Burst
        /\ \A a \in Addresses : UpTo(idle[a] + 1, StaleAfter + 1) \in 0..StaleAfter + 1
        /\ \A k \in Tokens : UpTo(tokensOf[k] + 1, TokenBurst) \in 0..TokenBurst
        /\ UpTo(global + 1, GlobalBurst) \in 0..GlobalBurst
    <3>1. /\ \A a \in Addresses : tokens[a] + 1 \in Nat /\ idle[a] + 1 \in Nat
          /\ \A k \in Tokens : tokensOf[k] + 1 \in Nat
          /\ global + 1 \in Nat
          /\ {Burst, StaleAfter + 1, TokenBurst, GlobalBurst} \subseteq Nat
      BY DEF TypeOK
    <3> QED BY <3>1, UpToType
  <2>2. TypeOK'
    BY <1>5, <2>1 DEF Tick, TypeOK
  <2>3. ASSUME NEW a \in known' PROVE tokens'[a] >= UpTo(idle'[a], Burst)
    <3>1. /\ a \in Addresses /\ tokens[a] \in 0..Burst /\ idle[a] \in 0..StaleAfter + 1
          /\ tokens[a] >= UpTo(idle[a], Burst)
          /\ tokens'[a] = UpTo(tokens[a] + 1, Burst)
          /\ idle'[a] = UpTo(idle[a] + 1, StaleAfter + 1)
      BY <2>3, <1>5 DEF Tick, TypeOK, RefilledWhenIdle
    <3> QED BY <3>1 DEF UpTo
  <2> QED BY <2>2, <2>3 DEF RefilledWhenIdle
<1>6. CASE UNCHANGED vars
  BY <1>6 DEF vars, TypeOK, RefilledWhenIdle
<1> QED BY <1>1, <1>2, <1>3, <1>4, <1>5, <1>6 DEF Next

(* Type correctness of the limiters of auth.go: no limiter ever holds more *)
(* tokens than its burst or fewer than none.                               *)
THEOREM LimiterTypes == Spec => []TypeOK
<1>1. RLInv => TypeOK
  BY DEF RLInv
<1> QED BY <1>1, RLInitInv, RLNextInv, PTL DEF Spec

(* What makes cleanup harmless: an entry it deletes has been idle for more *)
(* than a minute and is full, as the new one of a returning address is.    *)
LEMMA CleanupKeepsLevels ==
  ASSUME RLInv, Cleanup, NEW a \in Addresses PROVE Left(a)' = Left(a)
<1> USE LimitsAssumption DEF RLInv
<1>1. CASE a \notin known \/ idle[a] <= StaleAfter
  BY <1>1 DEF Cleanup, Left
<1>2. CASE a \in known /\ ~ (idle[a] <= StaleAfter)
  <2>1. tokens[a] >= UpTo(idle[a], Burst) /\ tokens[a] \in 0..Burst /\ idle[a] \in Nat
    BY <1>2 DEF TypeOK, RefilledWhenIdle
  <2>2. tokens[a] = Burst
    BY <1>2, <2>1 DEF UpTo
  <2> QED BY <1>2, <2>2 DEF Cleanup, Left
<1> QED BY <1>1, <1>2

(* ConnectionsAreMetered: ipRateLimiter.Allow with cleanup implements one  *)
(* token bucket per address, for any number of addresses and any rate.     *)
THEOREM AddressesAreMetered == Spec => ConnectionsAreMetered
<1>1. Init => Bucket!BucketInit
  BY DEF Init, Bucket!BucketInit, Left
<1>2. ASSUME RLInv, [Next]_vars
      PROVE  [Bucket!BucketNext]_<<[a \in Addresses |-> Left(a)], admitted>>
  <2> DEFINE L == [a \in Addresses |-> Left(a)]
  <2> USE <1>2, LimitsAssumption
  <2>0. \A a \in Addresses : Left(a) \in 0..Burst
    BY LeftType DEF RLInv
  <2>1. ASSUME NEW a \in Addresses, Allow(a)
        PROVE  Bucket!Spend(a) \/ Bucket!Refuse(a)
    <3>1. a \in known' /\ tokens'[a] = Pay(Left(a))
      BY <2>1 DEF Allow, RLInv, TypeOK
    <3>2. \A b \in Addresses : Left(b)' = IF b = a THEN Pay(Left(a)) ELSE Left(b)
      BY <2>1, <3>1 DEF Allow, RLInv, TypeOK, Left
    <3>3. CASE Left(a) > 0
      BY <2>0, <2>1, <3>2, <3>3 DEF Allow, Pay, Bucket!Spend
    <3>4. CASE ~ (Left(a) > 0)
      <4>1. Left(a) = 0
        BY <2>0, <3>4
      <4>2. L' = L
        BY <3>2, <4>1 DEF Pay
      <4>3. admitted' = <<a, FALSE>>
        <5>1. (Left(a) > 0) = FALSE
          BY <4>1
        <5> QED BY <2>1, <5>1, Zenon DEF Allow
      <4> QED BY <4>1, <4>2, <4>3 DEF Bucket!Refuse
    <3> QED BY <3>3, <3>4
  <2>2. CASE Cleanup
    <3>1. \A a \in Addresses : Left(a)' = Left(a)
      BY <2>2, CleanupKeepsLevels
    <3> QED BY <2>2, <3>1 DEF Cleanup
  <2>3. CASE Tick
    <3>1. \A a \in Addresses : Left(a)' = Bucket!Refill(Left(a))
      BY <2>3, UpToRefills DEF Tick, Left, RLInv, TypeOK, Bucket!Refill
    <3>2. L' = [a \in Addresses |-> Bucket!Refill(L[a])]
      BY <3>1
    <3> QED BY <2>3, <3>2 DEF Tick, Bucket!BucketNext, Bucket!BucketTick
  <2>4. ASSUME NEW k \in Tokens, GloballyRefused(k) \/ Request(k)
        PROVE  UNCHANGED <<L, admitted>>
    BY <2>4 DEF GloballyRefused, Request, Left
  <2>5. CASE UNCHANGED vars
    BY <2>5 DEF vars, Left
  <2> QED BY <2>1, <2>2, <2>3, <2>4, <2>5 DEF Next, Bucket!BucketNext
<1>3. Bucket!BucketInit /\ [][Bucket!BucketNext]_<<[a \in Addresses |-> Left(a)], admitted>>
        => ConnectionsAreMetered
  BY DEF ConnectionsAreMetered, Bucket!BucketSpec
<1> QED BY <1>1, <1>2, <1>3, RLInitInv, RLNextInv, PTL DEF Spec

(* RequestsAreMetered: RateLimiter.Allow implements one token bucket per   *)
(* token, which may be refused by the global limiter but never gets more   *)
(* than its own rate.                                                      *)
THEOREM TokensAreMetered == Spec => RequestsAreMetered
<1>1. Init => TokenBuckets!BucketInit
  BY DEF Init, TokenBuckets!BucketInit, LeftOf
<1>2. ASSUME RLInv, [Next]_vars
      PROVE  [TokenBuckets!BucketNext]_<<[k \in Tokens |-> LeftOf(k)], granted>>
  <2> DEFINE L == [k \in Tokens |-> LeftOf(k)]
  <2> USE <1>2, LimitsAssumption
  <2>0. \A k \in Tokens : LeftOf(k) \in 0..TokenBurst
    BY LeftType DEF RLInv
  <2>1. ASSUME NEW k \in Tokens, Request(k)
        PROVE  TokenBuckets!Spend(k) \/ TokenBuckets!Refuse(k)
    <3>1. k \in perTok' /\ tokensOf'[k] = Pay(LeftOf(k))
      BY <2>1 DEF Request, RLInv, TypeOK
    <3>2. \A j \in Tokens : LeftOf(j)' = IF j = k THEN Pay(LeftOf(k)) ELSE LeftOf(j)
      BY <2>1, <3>1 DEF Request, RLInv, TypeOK, LeftOf
    <3>3. CASE LeftOf(k) > 0
      BY <2>0, <2>1, <3>2, <3>3 DEF Request, Pay, TokenBuckets!Spend
    <3>4. CASE ~ (LeftOf(k) > 0)
      <4>1. LeftOf(k) = 0
        BY <2>0, <3>4
      <4>2. L' = L
        BY <3>2, <4>1 DEF Pay
      <4>3. granted' = <<k, FALSE>>
        <5>1. (LeftOf(k) > 0) = FALSE
          BY <4>1
        <5> QED BY <2>1, <5>1, Zenon DEF Request
      <4> QED BY <4>1, <4>2, <4>3 DEF TokenBuckets!Refuse
    <3> QED BY <3>3, <3>4
  <2>2. ASSUME NEW k \in Tokens, GloballyRefused(k) PROVE TokenBuckets!Refuse(k)
    BY <2>2 DEF GloballyRefused, LeftOf, TokenBuckets!Refuse
  <2>3. CASE Tick
    <3>1. \A k \in Tokens : LeftOf(k)' = TokenBuckets!Refill(LeftOf(k))
      BY <2>3, UpToRefills DEF Tick, LeftOf, RLInv, TypeOK, TokenBuckets!Refill
    <3>2. L' = [k \in Tokens |-> TokenBuckets!Refill(L[k])]
      BY <3>1
    <3> QED BY <2>3, <3>2 DEF Tick, TokenBuckets!BucketNext, TokenBuckets!BucketTick
  <2>4. ASSUME Cleanup \/ \E a \in Addresses : Allow(a)
        PROVE  UNCHANGED <<L, granted>>
    BY <2>4 DEF Cleanup, Allow, LeftOf
  <2>5. CASE UNCHANGED vars
    BY <2>5 DEF vars, LeftOf
  <2> QED BY <2>1, <2>2, <2>3, <2>4, <2>5 DEF Next, TokenBuckets!BucketNext
<1>3. TokenBuckets!BucketInit /\ [][TokenBuckets!BucketNext]_<<[k \in Tokens |-> LeftOf(k)], granted>>
        => RequestsAreMetered
  BY DEF RequestsAreMetered, TokenBuckets!BucketSpec
<1> QED BY <1>1, <1>2, <1>3, RLInitInv, RLNextInv, PTL DEF Spec
=============================================================================
