----------------------------- MODULE RateLimiter -----------------------------
(***************************************************************************)
(* detail::RateLimiter (include/vtapi/detail/ratelimit.hpp), the token     *)
(* bucket of capacity one that every request of the client goes through.   *)
(*                                                                         *)
(* Any number of threads may call wait(): the class protects itself with a *)
(* mutex, which it keeps while it sleeps.  Time is a discrete clock.  One  *)
(* token is Interval units of credit and one tick earns one unit, so that  *)
(* tokens_ + elapsed * rate_ is tokens + (now - last), without rounding.   *)
(* A limiter built with requests_per_minute <= 0 is disabled (rate_ == 0). *)
(***************************************************************************)
EXTENDS Integers, Sequences

CONSTANTS
    Callers,    \* the threads that call wait()
    NoCaller,   \* the mutex is free
    Interval,   \* ticks per token, when the limiter is not disabled
    MaxTime,    \* bound: the clock only passes it to let a sleeper wake
    MaxCalls    \* bound: how many calls of wait() a behaviour makes

ASSUME LimiterAssumption ==
    /\ NoCaller \notin Callers
    /\ Interval \in Nat \ {0}
    /\ MaxTime \in Nat
    /\ MaxCalls \in Nat

VARIABLES
    disabled, \* rate_ == 0, settled by the constructor
    now,      \* std::chrono::steady_clock
    mutex,    \* mutex_: the caller that owns it, or NoCaller
    tokens,   \* tokens_, in units of 1/Interval token
    last,     \* last_
    pc,       \* where each caller is in wait()
    wake,     \* the earliest end of each caller's sleep_for
    calls,    \* number of calls of wait() so far
    grants    \* history: the times at which wait() let a caller through

vars == <<disabled, now, mutex, tokens, last, pc, wake, calls, grants>>

Locations == {"idle", "locking", "refilled", "sleeping"}

LastGrant == grants[Len(grants)]

\* Mutant of Refilled: the capacity of one token is forgotten.
RefilledUncapped == tokens + (now - last)

\* tokens_ after the refill: std::min(1.0, tokens_ + elapsed * rate_).
Refilled ==
    LET earned == tokens + (IF disabled THEN 0 ELSE now - last)
    IN  IF earned < Interval THEN earned ELSE Interval

-----------------------------------------------------------------------------

\* Mutant of Init: the bucket starts empty.
InitEmpty ==
    /\ disabled \in BOOLEAN
    /\ now = 0
    /\ mutex = NoCaller
    /\ tokens = 0
    /\ last = 0
    /\ pc = [c \in Callers |-> "idle"]
    /\ wake = [c \in Callers |-> 0]
    /\ calls = 0
    /\ grants = <<>>

Init ==
    /\ disabled \in BOOLEAN
    /\ now = 0
    /\ mutex = NoCaller
    /\ tokens = Interval
    /\ last = 0
    /\ pc = [c \in Callers |-> "idle"]
    /\ wake = [c \in Callers |-> 0]
    /\ calls = 0
    /\ grants = <<>>

\* Time passes.  Nothing makes a thread run promptly: any step may be late.
Tick ==
    /\ \/ now < MaxTime
       \/ \E c \in Callers : pc[c] = "sleeping" /\ now < wake[c]
    /\ now' = now + 1
    /\ UNCHANGED <<disabled, mutex, tokens, last, pc, wake, calls, grants>>

\* wait() on a disabled limiter returns at once, without the mutex.
WaitDisabled(c) ==
    /\ disabled
    /\ pc[c] = "idle"
    /\ calls < MaxCalls
    /\ calls' = calls + 1
    /\ grants' = Append(grants, now)
    /\ UNCHANGED <<disabled, now, mutex, tokens, last, pc, wake>>

\* wait() on an enabled limiter goes for the mutex.
Wait(c) ==
    /\ ~disabled
    /\ pc[c] = "idle"
    /\ calls < MaxCalls
    /\ calls' = calls + 1
    /\ pc' = [pc EXCEPT ![c] = "locking"]
    /\ UNCHANGED <<disabled, now, mutex, tokens, last, wake, grants>>

\* Mutant of TakeToken: the token is not taken out of the bucket.
TakeTokenForFree(c) ==
    /\ pc[c] = "locking"
    /\ mutex = NoCaller
    /\ Refilled >= Interval
    /\ last' = now
    /\ tokens' = Refilled
    /\ grants' = Append(grants, now)
    /\ pc' = [pc EXCEPT ![c] = "idle"]
    /\ UNCHANGED <<disabled, now, mutex, wake, calls>>

\* A token is there: it is taken, and leaving the scope frees the mutex.
TakeToken(c) ==
    /\ pc[c] = "locking"
    /\ mutex = NoCaller
    /\ Refilled >= Interval
    /\ last' = now
    /\ tokens' = Refilled - Interval
    /\ grants' = Append(grants, now)
    /\ pc' = [pc EXCEPT ![c] = "idle"]
    /\ UNCHANGED <<disabled, now, mutex, wake, calls>>

\* Mutant of Refill: the mutex is not waited for.
RefillUnlocked(c) ==
    /\ pc[c] = "locking"
    /\ Refilled < Interval
    /\ mutex' = c
    /\ last' = now
    /\ tokens' = Refilled
    /\ pc' = [pc EXCEPT ![c] = "refilled"]
    /\ UNCHANGED <<disabled, now, wake, calls, grants>>

\* No token yet: the caller keeps the mutex and is about to sleep.
Refill(c) ==
    /\ pc[c] = "locking"
    /\ mutex = NoCaller
    /\ Refilled < Interval
    /\ mutex' = c
    /\ last' = now
    /\ tokens' = Refilled
    /\ pc' = [pc EXCEPT ![c] = "refilled"]
    /\ UNCHANGED <<disabled, now, wake, calls, grants>>

\* sleep_for(need) counts from the moment it is called, which may be later
\* than the clock reading that need was computed from.  A rate of zero would
\* make need a division by zero, a sleep that is given no end here.
BeginSleep(c) ==
    /\ pc[c] = "refilled"
    /\ ~disabled
    /\ wake' = [wake EXCEPT ![c] = now + (Interval - tokens)]
    /\ pc' = [pc EXCEPT ![c] = "sleeping"]
    /\ UNCHANGED <<disabled, now, mutex, tokens, last, calls, grants>>

\* Mutants of Wake: the time slept is credited a second time; and the mutex
\* stays locked.
WakeKeepingLast(c) ==
    /\ pc[c] = "sleeping"
    /\ now >= wake[c]
    /\ tokens' = 0
    /\ grants' = Append(grants, now)
    /\ mutex' = NoCaller
    /\ pc' = [pc EXCEPT ![c] = "idle"]
    /\ UNCHANGED <<disabled, now, last, wake, calls>>

WakeKeepingMutex(c) ==
    /\ pc[c] = "sleeping"
    /\ now >= wake[c]
    /\ last' = now
    /\ tokens' = 0
    /\ grants' = Append(grants, now)
    /\ pc' = [pc EXCEPT ![c] = "idle"]
    /\ UNCHANGED <<disabled, now, mutex, wake, calls>>

\* The sleep is over, at its deadline or later; the token it was for is spent.
Wake(c) ==
    /\ pc[c] = "sleeping"
    /\ now >= wake[c]
    /\ last' = now
    /\ tokens' = 0
    /\ grants' = Append(grants, now)
    /\ mutex' = NoCaller
    /\ pc' = [pc EXCEPT ![c] = "idle"]
    /\ UNCHANGED <<disabled, now, wake, calls>>

Advance(c) == TakeToken(c) \/ Refill(c) \/ BeginSleep(c) \/ Wake(c)

Next ==
    \/ Tick
    \/ \E c \in Callers : WaitDisabled(c) \/ Wait(c) \/ Advance(c)

Spec == Init /\ [][Next]_vars

\* The operating system runs a runnable thread and the clock goes on; nothing
\* is assumed of which thread gets the mutex, and callers may stop calling.
FairSpec ==
    /\ Spec
    /\ WF_vars(Tick)
    /\ \A c \in Callers : WF_vars(Advance(c))

-----------------------------------------------------------------------------

(* The types of the variables. *)
TypeOK ==
    /\ disabled \in BOOLEAN
    /\ now \in Nat
    /\ mutex \in Callers \cup {NoCaller}
    /\ tokens \in 0..Interval
    /\ last \in Nat
    /\ pc \in [Callers -> Locations]
    /\ wake \in [Callers -> Nat]
    /\ calls \in Nat
    /\ grants \in Seq(Nat)

(* ratelimit.hpp:12-13: capacity is one token, so callers can never burst   *)
(* ahead of the configured rate.  Between the i-th and the j-th grant, to   *)
(* whichever threads they went, at least j - i intervals have gone by: no   *)
(* window of k intervals ever holds more than k grants after its first.     *)
BurstFree ==
    \A i, j \in DOMAIN grants :
        ~disabled /\ i <= j => (j - i) * Interval <= grants[j] - grants[i]

(* The other side of pacing: wait() sleeps only for a caller that arrived   *)
(* less than one interval after the last grant.  The first caller, and one  *)
(* that finds a full interval of credit, is never delayed.                  *)
NoNeedlessSleep ==
    [][\A c \in Callers :
        pc[c] = "locking" /\ pc'[c] = "refilled"
            => grants # <<>> /\ now - LastGrant < Interval]_vars

(* A sleeper keeps the mutex, yet somebody gets through: while a call of    *)
(* wait() is pending, a further grant is eventually given.  (Not that each  *)
(* caller gets one: std::mutex is not fair.)  Nor does a disabled limiter   *)
(* keep anybody (ratelimit.hpp:13): a caller that went past its early       *)
(* return would sleep forever with the mutex.                               *)
Progress ==
    \A n \in 0..(MaxCalls - 1) :
        (Len(grants) = n /\ \E c \in Callers : pc[c] # "idle")
            ~> Len(grants) > n

(* The strengthening that makes pacing inductive.  A free limiter holds no  *)
(* credit older than its last grant; a caller inside holds the mutex alone, *)
(* with exactly the credit earned since the last grant, and will not wake   *)
(* before one interval after it.  Nobody is inside a disabled limiter.      *)
LockInv ==
    \A c \in Callers : mutex = c <=> pc[c] \in {"refilled", "sleeping"}

CreditInv ==
    /\ last <= now
    /\ grants # <<>> => LastGrant <= now
    /\ ~disabled /\ grants = <<>> => mutex = NoCaller /\ tokens = Interval
    /\ ~disabled /\ grants # <<>> =>
        /\ LastGrant <= last
        /\ tokens = last - LastGrant
        /\ mutex = NoCaller => tokens = 0
        /\ \A c \in Callers :
            pc[c] = "sleeping" => wake[c] >= LastGrant + Interval

NobodyInside == \A c \in Callers : pc[c] = "idle"

PacingInv ==
    /\ LockInv
    /\ CreditInv
    /\ disabled => NobodyInside

\* The grants that the configured rate is a promise about.
PacedOnes == IF disabled THEN <<>> ELSE grants

(* The limiter implements its promise.  The clock and the grants are the    *)
(* abstract ones, none when it is disabled; all the rest is hidden.         *)
Promise == INSTANCE PacedGrants WITH grants <- PacedOnes

Paced == Promise!Spec

=============================================================================
