----------------------------- MODULE AwaitAnalysis -----------------------------
(***************************************************************************)
(* VirusTotal::await_analysis (src/client.cpp): get_analysis in a loop,    *)
(* through the rate limiter, until the analysis is completed or the time   *)
(* is over.  Of the limiter only its promise is used, PacedGrants, which   *)
(* RateLimiter is proved to keep.                                          *)
(*                                                                         *)
(* Time is in seconds.  A step of the client is late by Slack at most and  *)
(* a transfer takes Transfer at most (CURLOPT_TIMEOUT): the variable due   *)
(* is the latest time of the step the client is at.                        *)
(***************************************************************************)
EXTENDS Integers, Sequences

CONSTANTS
    Timeouts,     \* the values given for timeout
    Intervals,    \* the values given for interval
    Pace,         \* seconds per token of the limiter, 0 when it is disabled
    Transfer,     \* the longest transfer
    Slack         \* how late a step may be

ASSUME AwaitAssumption ==
    /\ Timeouts \subseteq Int /\ Intervals \subseteq Int
    /\ Pace \in Nat /\ Transfer \in Nat /\ Slack \in Nat

VARIABLES
    now,        \* std::chrono::steady_clock
    grants,     \* the times at which the limiter let the client through
    arrivals,   \* history: the times at which the polls were at the server
    asked,      \* the arguments timeout and interval
    timeout,    \* timeout after the clamps
    interval,   \* interval after the clamps
    start,      \* start
    pc,         \* where await_analysis is
    due,        \* the latest time of its next step
    wake,       \* the earliest end of its sleep_for
    seen,       \* last.status: the status in the answer under way or decoded
    doneAt      \* when the server completed the analysis, or Never

settings == <<asked, timeout, interval, start>>

vars == <<now, grants, arrivals, settings, pc, due, wake, seen, doneAt>>

Limiter == INSTANCE PacedGrants WITH Interval <- Pace

Never == -1

Later(s, t) == IF s < t THEN t ELSE s

Locations ==
    {"called", "waiting", "requesting", "answering", "checking", "sleeping",
     "returned", "timed_out", "failed"}

Ended == pc \in {"returned", "timed_out", "failed"}

\* When a call of wait() at this time will have returned: at once, or when a
\* token has been earned (NoNeedlessSleep of RateLimiter), and Slack later.
WaitDue ==
    Slack + IF grants = <<>> THEN now ELSE Later(now, Limiter!LastGrant + Pace)

-----------------------------------------------------------------------------

\* The client may have got a token just before, for the scan it now awaits.
Init ==
    /\ now = 0
    /\ grants \in {<<>>, <<0>>}
    /\ arrivals = <<>>
    /\ asked \in [timeout : Timeouts, interval : Intervals]
    /\ timeout = asked.timeout
    /\ interval = asked.interval
    /\ start = 0
    /\ pc = "called"
    /\ due = Slack
    /\ wake = 0
    /\ seen = "none"
    /\ doneAt = Never

Tick ==
    /\ ~Ended
    /\ now < due
    /\ Limiter!Tick
    /\ UNCHANGED <<arrivals, settings, pc, due, wake, seen, doneAt>>

\* The server finishes the analysis.
Complete ==
    /\ ~Ended
    /\ doneAt = Never
    /\ doneAt' = now
    /\ UNCHANGED <<arrivals, now, grants, settings, pc, due, wake, seen>>

\* An empty id is refused.
Reject ==
    /\ pc = "called"
    /\ pc' = "failed"
    /\ UNCHANGED <<arrivals, now, grants, settings, due, wake, seen, doneAt>>

\* Mutant of Begin: interval is taken as it comes.
BeginUnclamped ==
    /\ pc = "called"
    /\ interval' = asked.interval
    /\ timeout' = Later(asked.timeout, interval')
    /\ start' = now
    /\ pc' = "waiting"
    /\ due' = WaitDue
    /\ UNCHANGED <<arrivals, now, grants, asked, wake, seen, doneAt>>

\* The clamps, the reading of the clock, and the first call of get_analysis.
Begin ==
    /\ pc = "called"
    /\ interval' = Later(asked.interval, 2)
    /\ timeout' = Later(asked.timeout, interval')
    /\ start' = now
    /\ pc' = "waiting"
    /\ due' = WaitDue
    /\ UNCHANGED <<arrivals, now, grants, asked, wake, seen, doneAt>>

\* Mutant of Request: the limiter is not waited for.
RequestUnpaced ==
    /\ pc = "waiting"
    /\ grants' = Append(grants, now)
    /\ pc' = "requesting"
    /\ due' = now + Slack + Transfer
    /\ UNCHANGED <<arrivals, now, settings, wake, seen, doneAt>>

\* limiter_.wait() returns and the request is on its way.
Request ==
    /\ pc = "waiting"
    /\ Limiter!Grant
    /\ pc' = "requesting"
    /\ due' = now + Slack + Transfer
    /\ UNCHANGED <<arrivals, settings, wake, seen, doneAt>>

\* The server answers with the status the analysis has at this moment.
Answer ==
    /\ pc = "requesting"
    /\ seen' = IF doneAt = Never THEN "queued" ELSE "completed"
    /\ pc' = "answering"
    /\ arrivals' = Append(arrivals, now)
    /\ UNCHANGED <<now, grants, settings, due, wake, doneAt>>

\* The answer has arrived and is decoded.
Arrive ==
    /\ pc = "answering"
    /\ pc' = "checking"
    /\ due' = now + Slack
    /\ UNCHANGED <<arrivals, now, grants, settings, wake, seen, doneAt>>

\* A transport error, a status that is no success, or a model that cannot be
\* parsed: the exception of get_analysis leaves the loop at once.
Fail ==
    /\ pc \in {"requesting", "answering"}
    /\ pc' = "failed"
    /\ UNCHANGED <<arrivals, now, grants, settings, due, wake, seen, doneAt>>

Return ==
    /\ pc = "checking"
    /\ seen = "completed"
    /\ pc' = "returned"
    /\ UNCHANGED <<arrivals, now, grants, settings, due, wake, seen, doneAt>>

\* Mutant of TimeOut: it is noticed one interval ahead, before the last sleep.
TimeOutAhead ==
    /\ pc = "checking"
    /\ seen # "completed"
    /\ now + interval - start >= timeout
    /\ pc' = "timed_out"
    /\ UNCHANGED <<arrivals, now, grants, settings, due, wake, seen, doneAt>>

TimeOut ==
    /\ pc = "checking"
    /\ seen # "completed"
    /\ now - start >= timeout
    /\ pc' = "timed_out"
    /\ UNCHANGED <<arrivals, now, grants, settings, due, wake, seen, doneAt>>

\* Mutant of Sleep: the time is over only when it has been exceeded by far.
SleepOnce ==
    /\ pc = "checking"
    /\ seen # "completed"
    /\ now - start < timeout + interval
    /\ pc' = "sleeping"
    /\ wake' = now + interval
    /\ due' = wake' + Slack
    /\ UNCHANGED <<arrivals, now, grants, settings, seen, doneAt>>

\* Mutant of Sleep: the interval is counted from the request.
SleepFromRequest ==
    /\ pc = "checking"
    /\ seen # "completed"
    /\ now - start < timeout
    /\ pc' = "sleeping"
    /\ wake' = Later(now, Limiter!LastGrant + interval)
    /\ due' = wake' + Slack
    /\ UNCHANGED <<arrivals, now, grants, settings, seen, doneAt>>

Sleep ==
    /\ pc = "checking"
    /\ seen # "completed"
    /\ now - start < timeout
    /\ pc' = "sleeping"
    /\ wake' = now + interval
    /\ due' = wake' + Slack
    /\ UNCHANGED <<arrivals, now, grants, settings, seen, doneAt>>

\* The loop goes round: the next call of get_analysis.
Wake ==
    /\ pc = "sleeping"
    /\ now >= wake
    /\ pc' = "waiting"
    /\ due' = WaitDue
    /\ UNCHANGED <<arrivals, now, grants, settings, wake, seen, doneAt>>

Next ==
    \/ Tick \/ Complete
    \/ Reject \/ Begin
    \/ Request \/ Answer \/ Arrive \/ Fail
    \/ Return \/ TimeOut \/ Sleep \/ Wake

Spec == Init /\ [][Next]_vars

-----------------------------------------------------------------------------

(* The types of the variables, with the clamps of client.hpp:263. *)
TypeOK ==
    /\ now \in Nat
    /\ grants \in Seq(Nat) /\ arrivals \in Seq(Nat)
    /\ asked \in [timeout : Timeouts, interval : Intervals]
    /\ timeout \in Int /\ interval \in Int
    /\ pc \notin {"called", "failed"} => interval >= 2 /\ timeout >= interval
    /\ start \in Nat
    /\ pc \in Locations
    /\ due \in Nat
    /\ wake \in Nat
    /\ seen \in {"none", "queued", "completed"}
    /\ doneAt \in Nat \cup {Never}

(* client.hpp:262-264: the timeout is thrown no earlier than asked for, and *)
(* not without a late look: when the analysis was complete early enough to  *)
(* be seen by the last poll in time, await_analysis does not time out.      *)
TimeOutIsDue ==
    pc = "timed_out" =>
        /\ now - start >= asked.timeout
        /\ doneAt # Never => doneAt >= start + timeout - Transfer - 2 * Slack

(* What a timeout costs at most: the caller is back by the deadline and one *)
(* more round of sleeping or being paced, a transfer, and what each of the  *)
(* last steps may be late.                                                  *)
Overrun == Later(interval + Slack, Pace) + Transfer + 3 * Slack

NotMuchLate ==
    pc \notin {"called", "failed"} => now < start + timeout + Overrun

(* client.hpp:263: whatever interval is asked for, two polls are no closer  *)
(* than two seconds, than that interval, and than the pace of the limiter.  *)
PollsApart ==
    \A i \in 2..(Len(grants) - 1) :
        grants[i + 1] - grants[i] >= Later(2, Later(asked.interval, Pace))

(* The same as the server sees it, where a poll may come as late after its  *)
(* grant as a transfer takes: any two are as far apart as the sleeps between *)
(* them, and as the pace of all but the first of the polls in between.      *)
PollsArriveApart ==
    \A i, j \in DOMAIN arrivals :
        i < j => arrivals[j] - arrivals[i]
                    >= Later((j - i) * Later(2, asked.interval),
                             (j - i - 1) * Pace)

-----------------------------------------------------------------------------

\* The strengthening that makes TimeOutIsDue, NotMuchLate and PollsApart
\* inductive: a step is never later than due; the arguments are clamped once;
\* where the loop is bounds how far due may be from the last second in which it
\* goes on; an answer that did not see the completion is not much older than
\* it; and the loop comes back to the limiter an interval after its last poll.
ClockInv ==
    /\ now <= due
    /\ start <= now
    /\ grants # <<>> => Limiter!LastGrant <= now

ClampInv ==
    pc \notin {"called", "failed"} =>
        /\ interval = Later(asked.interval, 2)
        /\ timeout = Later(asked.timeout, interval)

LastLook == start + timeout - 1

Round == Later(interval + Slack, Pace)

RoundInv ==
    /\ pc = "sleeping" =>
        /\ due <= LastLook + interval + Slack
        /\ grants # <<>> => Limiter!LastGrant <= LastLook
    /\ pc = "waiting" => due <= LastLook + Round + Slack
    /\ pc \in {"requesting", "answering"} =>
        due <= LastLook + Round + Transfer + 2 * Slack
    /\ pc \in {"checking", "returned", "timed_out"} =>
        due <= LastLook + Round + Transfer + 3 * Slack

AnswerInv ==
    /\ pc \in {"requesting", "answering"} => due <= now + Slack + Transfer
    /\ pc = "checking" => due <= now + Slack
    /\ seen # "completed" /\ doneAt # Never =>
        /\ pc = "answering" => due <= doneAt + Slack + Transfer
        /\ pc \in {"checking", "timed_out"} =>
            due <= doneAt + 2 * Slack + Transfer
    /\ pc = "timed_out" => now - start >= timeout /\ seen # "completed"

GapInv ==
    /\ pc = "called" => Len(grants) <= 1
    /\ pc = "sleeping" /\ grants # <<>> =>
        wake >= Limiter!LastGrant + interval
    /\ pc = "waiting" /\ Len(grants) >= 2 =>
        now >= Limiter!LastGrant + interval
    /\ PollsApart

LoopInv == ClockInv /\ ClampInv /\ RoundInv /\ AnswerInv /\ GapInv

\* The strengthening that makes PollsArriveApart inductive: a poll is at the
\* server no earlier than it was granted, an interval after the poll before it,
\* and every grant since the first one after a poll came at the limiter's pace.
LastPoll == Len(arrivals) + IF pc = "requesting" THEN 1 ELSE 0

ArrivalInv ==
    /\ pc = "called" => arrivals = <<>>
    /\ arrivals # <<>> \/ pc = "requesting" => grants # <<>>
    /\ \A i \in DOMAIN arrivals : arrivals[i] <= now
    /\ arrivals # <<>> =>
        /\ pc = "sleeping" => wake >= arrivals[Len(arrivals)] + interval
        /\ pc \in {"waiting", "requesting"} =>
            now >= arrivals[Len(arrivals)] + interval
    /\ pc # "failed" =>
        \A i \in DOMAIN arrivals :
            i < LastPoll =>
                Limiter!LastGrant >= arrivals[i] + (LastPoll - i - 1) * Pace
    /\ PollsArriveApart

=============================================================================
