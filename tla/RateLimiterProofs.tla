-------------------------- MODULE RateLimiterProofs --------------------------
(***************************************************************************)
(* Machine-checked proofs about detail::RateLimiter, for any set of        *)
(* callers, any rate and behaviours of any length.                         *)
(***************************************************************************)
EXTENDS RateLimiter, TLAPS

\* One grant appended to the history: its length, its last element, the rest.
LEMMA AppendFacts ==
    ASSUME NEW s \in Seq(Nat), NEW t \in Nat
    PROVE  /\ Append(s, t) \in Seq(Nat)
           /\ Append(s, t) # <<>>
           /\ Len(Append(s, t)) = Len(s) + 1
           /\ Append(s, t)[Len(Append(s, t))] = t
           /\ \A i \in 1..Len(s) : Append(s, t)[i] = s[i]
    OBVIOUS

\* What the refill computes, once its arguments are in range.
LEMMA RefillFacts ==
    ASSUME TypeOK, last <= now
    PROVE  /\ Refilled \in 0..Interval
           /\ Refilled >= Interval => Refilled = Interval
           /\ ~disabled /\ Refilled < Interval
                => Refilled = tokens + (now - last)
    BY LimiterAssumption DEF TypeOK, Refilled

-----------------------------------------------------------------------------

(* The mutex discipline, the credit held by the bucket and the types hold   *)
(* initially.                                                               *)
LEMMA InitInv == Init => TypeOK /\ PacingInv
    BY LimiterAssumption
    DEF Init, TypeOK, Locations, PacingInv, LockInv, CreditInv, NobodyInside

(* Every step of any caller and every tick keeps the types.                 *)
LEMMA TypeStep ==
    ASSUME TypeOK, PacingInv, [Next]_vars
    PROVE  TypeOK'
<1> USE LimiterAssumption DEF TypeOK, Locations
<1>1. CASE Tick
    BY <1>1 DEF Tick
<1>2. ASSUME NEW c \in Callers, WaitDisabled(c)
      PROVE  TypeOK'
    BY <1>2, AppendFacts DEF WaitDisabled
<1>3. ASSUME NEW c \in Callers, Wait(c)
      PROVE  TypeOK'
    BY <1>3 DEF Wait
<1>4. ASSUME NEW c \in Callers, TakeToken(c)
      PROVE  TypeOK'
    BY <1>4, AppendFacts, RefillFacts DEF TakeToken, PacingInv, CreditInv
<1>5. ASSUME NEW c \in Callers, Refill(c)
      PROVE  TypeOK'
    BY <1>5, RefillFacts DEF Refill, PacingInv, CreditInv
<1>6. ASSUME NEW c \in Callers, BeginSleep(c)
      PROVE  TypeOK'
    BY <1>6 DEF BeginSleep
<1>7. ASSUME NEW c \in Callers, Wake(c)
      PROVE  TypeOK'
    BY <1>7, AppendFacts DEF Wake
<1>8. CASE UNCHANGED vars
    BY <1>8 DEF vars
<1> QED
    BY <1>1, <1>2, <1>3, <1>4, <1>5, <1>6, <1>7, <1>8 DEF Next, Advance

(* Every step keeps the mutex discipline: a caller is inside its critical   *)
(* section exactly while it owns the mutex, and nobody is in a disabled one. *)
LEMMA LockStep ==
    ASSUME TypeOK, PacingInv, [Next]_vars
    PROVE  LockInv' /\ (disabled => NobodyInside)'
<1> USE LimiterAssumption
    DEF TypeOK, Locations, PacingInv, LockInv, NobodyInside
<1>1. CASE Tick
    BY <1>1 DEF Tick
<1>2. ASSUME NEW c \in Callers, WaitDisabled(c)
      PROVE  LockInv' /\ (disabled => NobodyInside)'
    BY <1>2 DEF WaitDisabled
<1>3. ASSUME NEW c \in Callers, Wait(c)
      PROVE  LockInv' /\ (disabled => NobodyInside)'
    BY <1>3 DEF Wait
<1>4. ASSUME NEW c \in Callers, TakeToken(c)
      PROVE  LockInv' /\ (disabled => NobodyInside)'
    BY <1>4 DEF TakeToken
<1>5. ASSUME NEW c \in Callers, Refill(c)
      PROVE  LockInv' /\ (disabled => NobodyInside)'
    BY <1>5 DEF Refill
<1>6. ASSUME NEW c \in Callers, BeginSleep(c)
      PROVE  LockInv' /\ (disabled => NobodyInside)'
    BY <1>6 DEF BeginSleep
<1>7. ASSUME NEW c \in Callers, Wake(c)
      PROVE  LockInv' /\ (disabled => NobodyInside)'
    BY <1>7 DEF Wake
<1>8. CASE UNCHANGED vars
    BY <1>8 DEF vars
<1> QED
    BY <1>1, <1>2, <1>3, <1>4, <1>5, <1>6, <1>7, <1>8 DEF Next, Advance

(* Every step keeps the account of the credit: what the bucket holds was    *)
(* earned since the last grant, and no sleeper wakes too early.             *)
LEMMA CreditStep ==
    ASSUME TypeOK, PacingInv, [Next]_vars
    PROVE  CreditInv'
<1> USE LimiterAssumption
    DEF TypeOK, Locations, PacingInv, LockInv, CreditInv, NobodyInside, LastGrant
<1>1. CASE Tick
    BY <1>1 DEF Tick
<1>2. ASSUME NEW c \in Callers, WaitDisabled(c)
      PROVE  CreditInv'
    BY <1>2, AppendFacts DEF WaitDisabled
<1>3. ASSUME NEW c \in Callers, Wait(c)
      PROVE  CreditInv'
    BY <1>3 DEF Wait
<1>4. ASSUME NEW c \in Callers, TakeToken(c)
      PROVE  CreditInv'
  <2>1. grants' # <<>> /\ LastGrant' = now /\ now' = now /\ last' = now
    BY <1>4, AppendFacts DEF TakeToken
  <2>2. mutex' = NoCaller /\ tokens' = 0
    BY <1>4, RefillFacts DEF TakeToken
  <2>3. \A d \in Callers : pc'[d] # "sleeping"
    BY <1>4 DEF TakeToken
  <2> QED
    BY <2>1, <2>2, <2>3
<1>5. ASSUME NEW c \in Callers, Refill(c)
      PROVE  CreditInv'
  <2>0. ~disabled
    BY <1>5 DEF Refill
  <2>1. /\ UNCHANGED <<disabled, now, wake, grants>>
        /\ last' = now
        /\ tokens' = tokens + (now - last)
        /\ tokens' < Interval
        /\ mutex = NoCaller
        /\ mutex' # NoCaller
    BY <1>5, <2>0, RefillFacts DEF Refill
  <2>2. grants # <<>> /\ ~disabled
    BY <2>0, <2>1
  <2>3. \A d \in Callers : pc'[d] # "sleeping"
    BY <1>5 DEF Refill
  <2>4. LastGrant \in Nat /\ LastGrant' = LastGrant
    BY <2>1, <2>2
  <2>5. LastGrant <= last /\ tokens = last - LastGrant /\ last <= now
    BY <2>2
  <2>6. LastGrant' <= now' /\ LastGrant' <= last' /\ last' <= now'
    BY <2>1, <2>4, <2>5
  <2>7. tokens' = last' - LastGrant'
    BY <2>1, <2>4, <2>5
  <2> QED
    BY <2>1, <2>2, <2>3, <2>6, <2>7
<1>6. ASSUME NEW c \in Callers, BeginSleep(c)
      PROVE  CreditInv'
  <2>1. grants # <<>> /\ ~disabled
    BY <1>6 DEF BeginSleep
  <2>2. LastGrant \in Nat
    BY <2>1
  <2>3. wake'[c] >= LastGrant + Interval
    BY <1>6, <2>1, <2>2 DEF BeginSleep
  <2> QED
    BY <1>6, <2>1, <2>3 DEF BeginSleep
<1>7. ASSUME NEW c \in Callers, Wake(c)
      PROVE  CreditInv'
  <2>1. grants' # <<>> /\ LastGrant' = now /\ now' = now /\ last' = now
    BY <1>7, AppendFacts DEF Wake
  <2>2. mutex' = NoCaller /\ tokens' = 0
    BY <1>7 DEF Wake
  <2>3. \A d \in Callers : pc'[d] # "sleeping"
    BY <1>7 DEF Wake
  <2> QED
    BY <2>1, <2>2, <2>3
<1>8. CASE UNCHANGED vars
    BY <1>8 DEF vars
<1> QED
    BY <1>1, <1>2, <1>3, <1>4, <1>5, <1>6, <1>7, <1>8 DEF Next, Advance

(* The types are an invariant of the limiter.                               *)
THEOREM TypeCorrect == Spec => []TypeOK
<1>1. TypeOK /\ PacingInv /\ [Next]_vars => (TypeOK /\ PacingInv)'
    BY TypeStep, LockStep, CreditStep DEF PacingInv
<1> QED
    BY InitInv, <1>1, PTL DEF Spec

(* The mutex discipline and the account of the credit are invariants.       *)
THEOREM PacingCorrect == Spec => []PacingInv
<1>1. TypeOK /\ PacingInv /\ [Next]_vars => (TypeOK /\ PacingInv)'
    BY TypeStep, LockStep, CreditStep DEF PacingInv
<1> QED
    BY InitInv, <1>1, PTL DEF Spec

-----------------------------------------------------------------------------

(* A step of an enabled limiter either gives no grant or gives one at the   *)
(* present time, a full interval after the grant before it.                 *)
LEMMA GrantStep ==
    ASSUME TypeOK, PacingInv, [Next]_vars, ~disabled
    PROVE  \/ UNCHANGED <<now, grants>>
           \/ now' = now + 1 /\ UNCHANGED grants
           \/ /\ UNCHANGED now
              /\ grants' = Append(grants, now)
              /\ grants # <<>> => now - LastGrant >= Interval
<1> DEFINE Goal ==
        \/ UNCHANGED <<now, grants>>
        \/ now' = now + 1 /\ UNCHANGED grants
        \/ /\ UNCHANGED now
           /\ grants' = Append(grants, now)
           /\ grants # <<>> => now - LastGrant >= Interval
<1>1. grants # <<>> => LastGrant \in Nat
    BY DEF TypeOK, LastGrant
<1>2. CASE Tick
    BY <1>2 DEF Tick
<1>3. ASSUME NEW c \in Callers, WaitDisabled(c)
      PROVE  Goal
    BY <1>3 DEF WaitDisabled
<1>4. ASSUME NEW c \in Callers, Wait(c)
      PROVE  Goal
    BY <1>4 DEF Wait
<1>5. ASSUME NEW c \in Callers, TakeToken(c)
      PROVE  Goal
    BY <1>1, <1>5, LimiterAssumption
    DEF TakeToken, TypeOK, PacingInv, CreditInv, NobodyInside, Refilled
<1>6. ASSUME NEW c \in Callers, Refill(c)
      PROVE  Goal
    BY <1>6 DEF Refill
<1>7. ASSUME NEW c \in Callers, BeginSleep(c)
      PROVE  Goal
    BY <1>7 DEF BeginSleep
<1>8. ASSUME NEW c \in Callers, Wake(c)
      PROVE  Goal
    BY <1>1, <1>8, LimiterAssumption
    DEF Wake, TypeOK, PacingInv, CreditInv, NobodyInside
<1>9. CASE UNCHANGED vars
    BY <1>9 DEF vars
<1> QED
    BY <1>2, <1>3, <1>4, <1>5, <1>6, <1>7, <1>8, <1>9 DEF Next, Advance

\* Whether the limiter is disabled is settled by its constructor; the clock
\* alone is seen of a disabled one.
LEMMA ClockStep ==
    ASSUME [Next]_vars
    PROVE  /\ UNCHANGED disabled
           /\ now' = now + 1 \/ UNCHANGED now
    BY DEF Next, Advance, Tick, WaitDisabled, Wait, TakeToken, Refill,
        BeginSleep, Wake, vars

(* The limiter implements its promise: every behaviour of the token bucket, *)
(* seen through the clock and the grants alone, is one of PacedGrants.      *)
THEOREM LimiterPaces == Spec => Paced
<1>1. Init => Promise!Init
    BY DEF Init, Promise!Init, PacedOnes
<1>2. TypeOK /\ PacingInv /\ [Next]_vars => [Promise!Next]_(Promise!vars)
  <2> SUFFICES ASSUME TypeOK, PacingInv, [Next]_vars
               PROVE  [Promise!Next]_(Promise!vars)
    OBVIOUS
  <2> USE ClockStep
      DEF Promise!Next, Promise!Tick, Promise!Grant, Promise!vars,
          Promise!LastGrant
  <2>1. CASE disabled
    <3>1. PacedOnes = <<>> /\ PacedOnes' = <<>>
      BY <2>1 DEF PacedOnes
    <3> QED
      BY <3>1
  <2>2. CASE ~disabled
    <3>1. PacedOnes = grants /\ PacedOnes' = grants'
      BY <2>2 DEF PacedOnes
    <3> QED
      BY <2>2, <3>1, GrantStep DEF LastGrant
  <2> QED
    BY <2>1, <2>2
<1> QED
    BY <1>1, <1>2, TypeCorrect, PacingCorrect, PTL DEF Spec, Paced, Promise!Spec

-----------------------------------------------------------------------------

\* One interval more: the product in BurstFree grows by Interval.
LEMMA OneMoreInterval ==
    ASSUME NEW k \in Nat
    PROVE  (k + 1) * Interval = k * Interval + Interval
    BY LimiterAssumption

(* One further grant leaves the history free of bursts.                     *)
LEMMA BurstStep ==
    ASSUME TypeOK, PacingInv, BurstFree, [Next]_vars
    PROVE  BurstFree'
<1> SUFFICES ASSUME ~disabled
             PROVE  BurstFree'
    BY ClockStep DEF BurstFree
<1>0. ~disabled'
    BY ClockStep
<1>1. CASE UNCHANGED grants
    BY <1>0, <1>1 DEF BurstFree
<1>2. CASE /\ grants' = Append(grants, now)
           /\ grants # <<>> => now - LastGrant >= Interval
  <2> DEFINE n == Len(grants)
  <2>1. /\ grants \in Seq(Nat)
        /\ now \in Nat
        /\ n \in Nat
        /\ Len(grants') = n + 1
        /\ DOMAIN grants' = 1..(n + 1)
        /\ grants'[n + 1] = now
        /\ \A i \in 1..n : grants'[i] = grants[i] /\ grants[i] \in Nat
    BY <1>2, AppendFacts DEF TypeOK
  <2>2. \A i \in 1..n :
            (n + 1 - i) * Interval <= grants'[n + 1] - grants'[i]
    <3> TAKE i \in 1..n
    <3>1. (n - i) * Interval <= grants[n] - grants[i]
      BY <2>1 DEF BurstFree
    <3>2. now - grants[n] >= Interval
      BY <1>2, <2>1 DEF LastGrant
    <3>3. ((n - i) + 1) * Interval = (n - i) * Interval + Interval
      BY <2>1, OneMoreInterval
    <3>4. (n - i) * Interval \in Nat /\ grants[n] \in Nat
      BY <2>1, LimiterAssumption
    <3>5. n + 1 - i = (n - i) + 1
      BY <2>1
    <3> HIDE DEF n
    <3>6. (n - i) * Interval + Interval <= now - grants[i]
      <4>1. now \in Nat /\ Interval \in Nat /\ grants[i] \in Nat
        BY <2>1, LimiterAssumption
      <4> QED
        BY ONLY <3>1, <3>2, <3>4, <4>1
    <3>7. (n + 1 - i) * Interval = (n - i) * Interval + Interval
      BY <3>3, <3>5
    <3>8. grants'[n + 1] = now /\ grants'[i] = grants[i]
      BY <2>1
    <3> QED
      BY ONLY <3>6, <3>7, <3>8
  <2>3. \A i, j \in 1..n :
            i <= j => (j - i) * Interval <= grants'[j] - grants'[i]
    <3> TAKE i, j \in 1..n
    <3>1. HAVE i <= j
    <3>2. i \in DOMAIN grants /\ j \in DOMAIN grants
      BY <2>1
    <3>3. (j - i) * Interval <= grants[j] - grants[i]
      BY <3>1, <3>2, Zenon DEF BurstFree
    <3>4. grants'[i] = grants[i] /\ grants'[j] = grants[j]
      BY <2>1
    <3> QED
      BY <3>3, <3>4
  <2>4. (n + 1 - (n + 1)) * Interval <= grants'[n + 1] - grants'[n + 1]
    BY <2>1, LimiterAssumption
  <2>5. ASSUME NEW i \in 1..(n + 1), NEW j \in 1..(n + 1), i <= j
        PROVE  (j - i) * Interval <= grants'[j] - grants'[i]
    <3>1. CASE j # n + 1
      <4>1. i \in 1..n /\ j \in 1..n
        BY <2>1, <2>5, <3>1
      <4> QED
        BY <2>3, <2>5, <4>1
    <3>2. CASE j = n + 1 /\ i # n + 1
      BY <2>1, <2>2, <3>2
    <3>3. CASE j = n + 1 /\ i = n + 1
      BY <2>4, <3>3
    <3> QED
      BY <3>1, <3>2, <3>3
  <2> QED
    BY <2>1, <2>5 DEF BurstFree
<1> QED
    BY <1>1, <1>2, GrantStep

(* No window of k intervals holds more than k grants after its first,       *)
(* whatever the threads do: the promise of ratelimit.hpp:12-13.             *)
THEOREM NoBurst == Spec => []BurstFree
<1>1. Init => BurstFree
    BY DEF Init, BurstFree
<1>2. TypeOK /\ PacingInv /\ BurstFree /\ [Next]_vars => BurstFree'
    BY BurstStep
<1> QED
    BY <1>1, <1>2, TypeCorrect, PacingCorrect, PTL DEF Spec

(* Only a caller that came early is delayed.                                *)
THEOREM NoIdleSleep == Spec => NoNeedlessSleep
<1> DEFINE A == \A c \in Callers :
        pc[c] = "locking" /\ pc'[c] = "refilled"
            => grants # <<>> /\ now - LastGrant < Interval
<1>1. TypeOK /\ PacingInv /\ [Next]_vars => [A]_vars
  <2> SUFFICES ASSUME TypeOK, PacingInv, Next,
                      NEW c \in Callers, pc[c] = "locking", pc'[c] = "refilled"
               PROVE  grants # <<>> /\ now - LastGrant < Interval
    BY DEF vars
  <2>1. Refill(c)
    BY DEF Next, Advance, Tick, WaitDisabled, Wait, TakeToken, Refill,
        BeginSleep, Wake, TypeOK, Locations
  <2>2. ~disabled
    BY DEF PacingInv, NobodyInside
  <2>3. mutex = NoCaller /\ tokens + (now - last) < Interval
    BY <2>1, <2>2, RefillFacts DEF Refill, PacingInv, CreditInv
  <2>4. grants # <<>>
    BY <2>2, <2>3, LimiterAssumption DEF TypeOK, PacingInv, CreditInv
  <2>5. LastGrant \in Nat
    BY <2>4 DEF TypeOK, LastGrant
  <2> QED
    BY <2>2, <2>3, <2>4, <2>5, LimiterAssumption
    DEF TypeOK, PacingInv, CreditInv
<1> QED
    BY <1>1, TypeCorrect, PacingCorrect, PTL DEF Spec, NoNeedlessSleep

=============================================================================
