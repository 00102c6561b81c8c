-------------------------- MODULE AwaitAnalysisProofs --------------------------
(***************************************************************************)
(* Machine-checked proofs about await_analysis, for any timeout, interval  *)
(* and pace, any longest transfer and any lateness of its steps.           *)
(***************************************************************************)
EXTENDS AwaitAnalysis, TLAPS

\* One time appended to a history: its length, its last element, the rest.
LEMMA AppendFacts ==
    ASSUME NEW s \in Seq(Nat), NEW t \in Nat
    PROVE  /\ Append(s, t) \in Seq(Nat)
           /\ Append(s, t) # <<>>
           /\ Len(Append(s, t)) = Len(s) + 1
           /\ Append(s, t)[Len(Append(s, t))] = t
           /\ \A i \in 1..Len(s) : Append(s, t)[i] = s[i]
    OBVIOUS

\* Later is the maximum.
LEMMA LaterFacts ==
    ASSUME NEW s \in Int, NEW t \in Int
    PROVE  /\ Later(s, t) \in Int
           /\ Later(s, t) >= s /\ Later(s, t) >= t
           /\ Later(s, t) \in {s, t}
    BY DEF Later

\* A round is a sleep or a token, whichever is longer.
LEMMA RoundFacts ==
    ASSUME NEW i \in Int
    PROVE  /\ Later(i + Slack, Pace) \in Int
           /\ Later(i + Slack, Pace) >= Pace
           /\ Later(i + Slack, Pace) >= i + Slack
    BY AwaitAssumption DEF Later

\* The last grant is a time.
LEMMA LastGrantFacts ==
    ASSUME TypeOK, grants # <<>>
    PROVE  Limiter!LastGrant \in Nat
    BY DEF TypeOK, Limiter!LastGrant

\* When the limiter will have let the client through.
LEMMA WaitDueFacts ==
    ASSUME TypeOK, ClockInv
    PROVE  /\ WaitDue \in Nat
           /\ now <= WaitDue
           /\ WaitDue <= now + Pace + Slack
           /\ \A t \in Int :
                  (grants # <<>> => Limiter!LastGrant <= t)
                      => WaitDue <= now + Slack \/ WaitDue <= t + Pace + Slack
<1> USE AwaitAssumption DEF TypeOK, ClockInv
<1>1. CASE grants = <<>>
    BY <1>1 DEF WaitDue
<1>2. CASE grants # <<>>
  <2>1. Limiter!LastGrant \in Nat
    BY <1>2, LastGrantFacts
  <2> QED
    BY <1>2, <2>1 DEF WaitDue, Later
<1> QED
    BY <1>1, <1>2

-----------------------------------------------------------------------------

(* The types hold at first, and every step of the loop, of the server and   *)
(* of the clock keeps them.                                                 *)
LEMMA TypeInit == Init => TypeOK
<1> SUFFICES ASSUME Init
             PROVE  TypeOK
    OBVIOUS
<1>1. <<>> \in Seq(Nat) /\ <<0>> \in Seq(Nat)
    OBVIOUS
<1>2. grants \in Seq(Nat) /\ arrivals \in Seq(Nat)
    BY <1>1 DEF Init
<1>3. asked.timeout \in Int /\ asked.interval \in Int
    BY AwaitAssumption DEF Init
<1> QED
    BY <1>2, <1>3, AwaitAssumption DEF Init, TypeOK, Locations

LEMMA TypeStep ==
    ASSUME TypeOK, ClockInv, [Next]_vars
    PROVE  TypeOK'
<1> USE AwaitAssumption DEF TypeOK, Locations, Never, settings
<1>1. CASE Tick
    BY <1>1 DEF Tick, Limiter!Tick
<1>2. CASE Complete
    BY <1>2 DEF Complete
<1>3. CASE Reject \/ Fail
    BY <1>3 DEF Reject, Fail
<1>4. CASE Begin
  <2>1. asked.interval \in Int /\ asked.timeout \in Int
    OBVIOUS
  <2>2. interval' \in Int /\ interval' >= 2
    BY <1>4, <2>1, LaterFacts DEF Begin
  <2>3. timeout' \in Int /\ timeout' >= interval'
    BY <1>4, <2>1, <2>2, LaterFacts DEF Begin
  <2>4. due' \in Nat
    BY <1>4, WaitDueFacts DEF Begin
  <2> QED
    BY <1>4, <2>2, <2>3, <2>4 DEF Begin
<1>5. CASE Request
    BY <1>5, AppendFacts DEF Request, Limiter!Grant
<1>6. CASE Answer
    BY <1>6, AppendFacts DEF Answer
<1>7. CASE Arrive
    BY <1>7 DEF Arrive
<1>8. CASE Return \/ TimeOut
    BY <1>8 DEF Return, TimeOut
<1>9. CASE Sleep
    BY <1>9 DEF Sleep
<1>10. CASE Wake
  <2>1. due' \in Nat
    BY <1>10, WaitDueFacts DEF Wake
  <2> QED
    BY <1>10, <2>1 DEF Wake
<1>11. CASE UNCHANGED vars
    BY <1>11 DEF vars
<1> QED
    BY <1>1, <1>2, <1>3, <1>4, <1>5, <1>6, <1>7, <1>8, <1>9, <1>10, <1>11
    DEF Next

-----------------------------------------------------------------------------

(* Nothing has been polled at first.                                        *)
LEMMA LoopInit == Init => LoopInv
<1> SUFFICES ASSUME Init
             PROVE  LoopInv
    OBVIOUS
<1>1. now = 0 /\ start = 0 /\ pc = "called" /\ due = Slack
    BY DEF Init
<1>2. Len(<<0>>) = 1 /\ <<0>>[1] = 0 /\ Len(<<>>) = 0
    OBVIOUS
<1>3. grants # <<>> => Limiter!LastGrant = 0
    BY <1>2 DEF Init, Limiter!LastGrant
<1>4. Len(grants) \in 0..1
    BY <1>2 DEF Init
<1>5. PollsApart
    BY <1>4 DEF PollsApart
<1> QED
    BY <1>1, <1>3, <1>4, <1>5, AwaitAssumption
    DEF LoopInv, ClockInv, ClampInv, RoundInv, AnswerInv, GapInv

\* A grant is an interval, and the pace, after the one before it.
LEMMA RequestGap ==
    ASSUME TypeOK, LoopInv, Request
    PROVE  /\ PollsApart'
           /\ Limiter!LastGrant' = now
           /\ grants' # <<>>
<1> USE DEF TypeOK
<1>1. grants' = Append(grants, now) /\ asked' = asked /\ now' = now
    BY DEF Request, Limiter!Grant, settings
<1>2. /\ grants' # <<>> /\ Len(grants') = Len(grants) + 1
      /\ grants'[Len(grants')] = now
      /\ \A i \in 1..Len(grants) : grants'[i] = grants[i]
    BY <1>1, AppendFacts
<1>3. ASSUME NEW i \in 2..(Len(grants') - 1)
      PROVE  grants'[i + 1] - grants'[i]
                 >= Later(2, Later(asked.interval, Pace))
  <2>1. CASE i = Len(grants)
    <3>1. grants # <<>> /\ Len(grants) >= 2
      BY <1>2, <2>1
    <3>2. now - Limiter!LastGrant >= Pace
      BY <3>1 DEF Request, Limiter!Grant
    <3>3. now >= Limiter!LastGrant + Later(asked.interval, 2)
      BY <3>1 DEF LoopInv, GapInv, ClampInv, Request
    <3>4. Limiter!LastGrant \in Nat /\ grants'[i] = Limiter!LastGrant
      BY <1>2, <2>1, <3>1 DEF Limiter!LastGrant
    <3>5. asked.interval \in Int
      BY AwaitAssumption
    <3> QED
      BY <1>2, <2>1, <3>2, <3>3, <3>4, <3>5, AwaitAssumption DEF Later
  <2>2. CASE i # Len(grants)
    <3>1. i \in 2..(Len(grants) - 1) /\ i + 1 \in 1..Len(grants)
      BY <1>2, <2>2
    <3> QED
      BY <1>2, <3>1 DEF LoopInv, GapInv, PollsApart
  <2> QED
    BY <2>1, <2>2
<1> QED
    BY <1>1, <1>2, <1>3 DEF PollsApart, Limiter!LastGrant

(* Every step keeps the invariant of the loop.                              *)
LEMMA LoopStep ==
    ASSUME TypeOK, LoopInv, [Next]_vars
    PROVE  LoopInv'
<1> DEFINE last == Limiter!LastGrant
<1>1. TypeOK'
    BY TypeStep DEF LoopInv
<1>2. grants # <<>> => last \in Nat
    BY LastGrantFacts
<1>3. /\ asked.interval \in Int /\ asked.timeout \in Int
      /\ interval \in Int /\ timeout \in Int
      /\ now \in Nat /\ due \in Nat /\ start \in Nat /\ wake \in Nat
      /\ doneAt \in Nat \cup {Never}
      /\ Pace \in Nat /\ Slack \in Nat /\ Transfer \in Nat
    BY AwaitAssumption DEF TypeOK
<1>4. /\ Round \in Int /\ Round >= Pace /\ Round >= interval + Slack
      /\ interval' \in Int => Round' \in Int /\ Round' >= Pace
    BY <1>3, RoundFacts DEF Round
<1>5. pc \notin {"called", "failed"} => interval >= 2 /\ timeout >= interval
    BY DEF TypeOK
<1>6. grants' = grants => last' = last /\ (asked' = asked => PollsApart')
    BY DEF Limiter!LastGrant, PollsApart, LoopInv, GapInv
<1>7. UNCHANGED settings =>
          /\ Round' = Round /\ LastLook' = LastLook
          /\ UNCHANGED <<asked, timeout, interval, start>>
    BY DEF settings, Round, LastLook
<1>8. WaitDue \in Nat /\ now <= WaitDue /\ WaitDue <= now + Pace + Slack
    BY WaitDueFacts DEF LoopInv
<1> USE DEF LoopInv, ClockInv, ClampInv, RoundInv, AnswerInv, GapInv
<1> HIDE DEF last
<1>9. CASE Tick
    BY <1>2, <1>3, <1>5, <1>6, <1>7, <1>9 DEF Tick, Limiter!Tick, Ended, last
<1>10. CASE Complete
    BY <1>2, <1>3, <1>6, <1>7, <1>10 DEF Complete, Ended, last
<1>11. CASE Reject \/ Fail
    BY <1>2, <1>3, <1>6, <1>7, <1>11 DEF Reject, Fail, last
<1>12. CASE Begin
  <2>1. /\ interval' = Later(asked.interval, 2)
        /\ timeout' = Later(asked.timeout, interval')
        /\ start' = now /\ pc' = "waiting" /\ due' = WaitDue
        /\ UNCHANGED <<now, grants, asked, wake, seen, doneAt>>
        /\ pc = "called"
    BY <1>12 DEF Begin
  <2>2. interval' \in Int /\ interval' >= 2
    BY <1>3, <2>1 DEF Later
  <2>3. timeout' \in Int /\ timeout' >= interval'
    BY <1>3, <2>1, <2>2 DEF Later
  <2>4. Round' \in Int /\ Round' >= Pace
    BY <1>4, <2>2
  <2>5. due' <= LastLook' + Round' + Slack
    BY <1>3, <1>8, <2>1, <2>2, <2>3, <2>4 DEF LastLook
  <2> QED
    BY <1>2, <1>3, <1>6, <1>8, <2>1, <2>5 DEF last
<1>13. CASE Request
  <2>1. /\ pc = "waiting" /\ pc' = "requesting"
        /\ due' = now + Slack + Transfer
        /\ UNCHANGED <<now, settings, wake, seen, doneAt>>
    BY <1>13 DEF Request, Limiter!Grant
  <2>2. PollsApart' /\ Limiter!LastGrant' = now /\ grants' # <<>>
    BY <1>13, RequestGap
  <2>3. LastLook \in Int
    BY <1>3 DEF LastLook
  <2> QED
    BY <1>3, <1>4, <1>7, <2>1, <2>2, <2>3
<1>14. CASE Answer
    BY <1>2, <1>3, <1>6, <1>7, <1>14 DEF Answer, Never, last
<1>15. CASE Arrive
  <2>1. LastLook \in Int
    BY <1>3 DEF LastLook
  <2> QED
    BY <1>2, <1>3, <1>4, <1>6, <1>7, <1>15, <2>1 DEF Arrive, Never, last
<1>16. CASE Return \/ TimeOut
    BY <1>2, <1>3, <1>6, <1>7, <1>16 DEF Return, TimeOut, last
<1>17. CASE Sleep
  <2>1. /\ pc = "checking" /\ pc' = "sleeping"
        /\ now <= LastLook
        /\ wake' = now + interval /\ due' = now + interval + Slack
        /\ UNCHANGED <<now, grants, settings, seen, doneAt>>
    BY <1>3, <1>17 DEF Sleep, LastLook
  <2>2. LastLook \in Int /\ LastLook' = LastLook /\ Round' = Round
    BY <1>3, <1>7, <2>1 DEF LastLook
  <2>3. interval >= 2
    BY <1>5, <2>1
  <2>4. ClockInv' /\ ClampInv'
    BY <1>2, <1>3, <1>6, <1>7, <2>1, <2>3 DEF last
  <2>5. RoundInv'
    <3>1. pc' = "sleeping" /\ due' <= LastLook' + interval' + Slack
      <4>1. now \in Int /\ interval \in Int /\ Slack \in Int
        BY <1>3
      <4>2. interval' = interval
        BY ONLY <2>1 DEF settings
      <4> QED
        BY ONLY <2>1, <2>2, <4>1, <4>2
    <3>2. grants' # <<>> => Limiter!LastGrant' <= LastLook'
      BY <1>2, <1>3, <1>6, <1>7, <2>1, <2>2 DEF last
    <3> QED
      BY ONLY <3>1, <3>2 DEF RoundInv
  <2>6. AnswerInv'
    <3>1. pc' = "sleeping"
      BY <2>1
    <3> QED
      BY ONLY <3>1 DEF AnswerInv
  <2>7. GapInv'
    BY <1>2, <1>3, <1>6, <1>7, <2>1, <2>3 DEF last
  <2> QED
    BY <2>4, <2>5, <2>6, <2>7
<1>18. CASE Wake
  <2>1. /\ pc = "sleeping" /\ pc' = "waiting"
        /\ now >= wake /\ due' = WaitDue
        /\ UNCHANGED <<now, grants, settings, wake, seen, doneAt>>
    BY <1>18 DEF Wake
  <2>2. LastLook \in Int /\ (grants # <<>> => Limiter!LastGrant <= LastLook)
    BY <1>3, <2>1 DEF LastLook
  <2>3. WaitDue <= now + Slack \/ WaitDue <= LastLook + Pace + Slack
    BY <2>2, WaitDueFacts
  <2>4. due' <= LastLook + Round + Slack
    BY <1>3, <1>4, <1>8, <2>1, <2>2, <2>3
  <2>5. Len(grants) >= 2 => grants # <<>>
    OBVIOUS
  <2> QED
    BY <1>2, <1>3, <1>6, <1>7, <1>8, <2>1, <2>4, <2>5 DEF last
<1>19. CASE UNCHANGED vars
    BY <1>2, <1>6, <1>7, <1>19 DEF vars, last
<1> QED
    BY <1>9, <1>10, <1>11, <1>12, <1>13, <1>14, <1>15, <1>16, <1>17, <1>18,
       <1>19
    DEF Next

LEMMA Safety == Spec => [](TypeOK /\ LoopInv)
<1>1. TypeOK /\ LoopInv /\ [Next]_vars => (TypeOK /\ LoopInv)'
    BY TypeStep, LoopStep DEF LoopInv
<1> QED
    BY <1>1, TypeInit, LoopInit, PTL DEF Spec

-----------------------------------------------------------------------------

(* The types are an invariant, and the clamps with them: once the loop has  *)
(* begun, the interval is at least two seconds and the timeout no shorter.  *)
THEOREM TypeCorrect == Spec => []TypeOK
    BY Safety, PTL

(* Whatever the arguments, two polls are no closer than two seconds, than   *)
(* the interval asked for, and than the pace of the limiter.                *)
THEOREM PollsKeptApart == Spec => []PollsApart
<1>1. LoopInv => PollsApart
    BY DEF LoopInv, GapInv
<1> QED
    BY <1>1, Safety, PTL

(* await_analysis times out no earlier than asked for, and never when the   *)
(* analysis was complete in time for the last poll.                         *)
THEOREM NoEarlyTimeOut == Spec => []TimeOutIsDue
<1>1. TypeOK /\ LoopInv => TimeOutIsDue
  <2> SUFFICES ASSUME TypeOK, LoopInv, pc = "timed_out"
               PROVE  /\ now - start >= asked.timeout
                      /\ doneAt # Never =>
                          doneAt >= start + timeout - Transfer - 2 * Slack
    BY DEF TimeOutIsDue
  <2>1. /\ asked.timeout \in Int /\ interval \in Int /\ timeout \in Int
        /\ now \in Nat /\ due \in Nat /\ start \in Nat
        /\ doneAt \in Nat \cup {Never}
        /\ Slack \in Nat /\ Transfer \in Nat
    BY AwaitAssumption DEF TypeOK
  <2>2. timeout >= asked.timeout /\ now - start >= timeout
    BY <2>1 DEF LoopInv, ClampInv, AnswerInv, Later
  <2>3. doneAt # Never => now <= doneAt + 2 * Slack + Transfer
    BY <2>1 DEF LoopInv, AnswerInv, ClockInv
  <2> QED
    BY <2>1, <2>2, <2>3
<1> QED
    BY <1>1, Safety, PTL

(* The caller is back by the deadline, one more round of sleeping or being  *)
(* paced, a transfer, and what three steps may be late.                     *)
THEOREM BoundedOverrun == Spec => []NotMuchLate
<1>1. TypeOK /\ LoopInv => NotMuchLate
  <2> SUFFICES ASSUME TypeOK, LoopInv, pc \notin {"called", "failed"}
               PROVE  now < start + timeout + Overrun
    BY DEF NotMuchLate
  <2>1. /\ interval \in Int /\ timeout \in Int
        /\ now \in Nat /\ due \in Nat /\ start \in Nat
        /\ Slack \in Nat /\ Transfer \in Nat /\ Pace \in Nat
        /\ pc \in Locations
    BY AwaitAssumption DEF TypeOK
  <2>2. Round \in Int /\ Round >= interval + Slack
    BY <2>1, RoundFacts DEF Round
  <2>3. Overrun = Round + Transfer + 3 * Slack
    BY DEF Overrun, Round
  <2>4. due <= LastLook + Round + Transfer + 3 * Slack
    BY <2>1, <2>2 DEF LoopInv, RoundInv, Locations, LastLook
  <2> QED
    BY <2>1, <2>2, <2>3, <2>4 DEF LoopInv, ClockInv, LastLook
<1> QED
    BY <1>1, Safety, PTL

-----------------------------------------------------------------------------

\* One more interval, and one more token.
LEMMA OneMore ==
    ASSUME NEW n \in Int, NEW t \in Int
    PROVE  /\ n * t \in Int
           /\ (n + 1) * t = n * t + t
           /\ 0 * t = 0
    OBVIOUS

\* How far apart two polls are.
Distance(n) == Later(n * Later(2, asked.interval), (n - 1) * Pace)

LEMMA DistanceFacts ==
    ASSUME TypeOK, NEW n \in Int, NEW t \in Int,
           t >= n * Later(2, asked.interval), t >= (n - 1) * Pace
    PROVE  t >= Distance(n)
    BY DEF Distance, Later

(* Nothing has arrived at first.                                            *)
LEMMA ArrivalInit == Init => ArrivalInv
<1> SUFFICES ASSUME Init
             PROVE  ArrivalInv
    OBVIOUS
<1>1. arrivals = <<>> /\ pc = "called" /\ DOMAIN arrivals = {}
    BY DEF Init
<1> QED
    BY <1>1 DEF ArrivalInv, PollsArriveApart

\* A grant is at the limiter's pace, and not before what has arrived.
LEMMA RequestArrives ==
    ASSUME TypeOK, LoopInv, ArrivalInv, Request
    PROVE  /\ grants' # <<>> /\ Limiter!LastGrant' = now
           /\ \A i \in DOMAIN arrivals :
                  now >= arrivals[i] + (Len(arrivals) - i) * Pace
<1> DEFINE last == Limiter!LastGrant
<1>1. grants' # <<>> /\ Limiter!LastGrant' = now
    BY RequestGap
<1>2. /\ pc = "waiting" /\ LastPoll = Len(arrivals)
      /\ grants # <<>> => now - last >= Pace
    BY DEF Request, Limiter!Grant, LastPoll, TypeOK
<1>3. ASSUME NEW i \in DOMAIN arrivals
      PROVE  now >= arrivals[i] + (Len(arrivals) - i) * Pace
  <2>1. /\ arrivals # <<>> /\ i \in 1..Len(arrivals) /\ Len(arrivals) \in Nat
        /\ arrivals[i] \in Nat /\ now \in Nat /\ Pace \in Nat
    BY AwaitAssumption DEF TypeOK
  <2>2. grants # <<>> /\ last \in Nat
    BY <2>1, LastGrantFacts DEF ArrivalInv
  <2>3. CASE i = Len(arrivals)
    <3>1. (Len(arrivals) - i) * Pace = 0
      BY <2>1, <2>3, OneMore
    <3>2. now >= arrivals[i]
      BY DEF ArrivalInv
    <3> QED
      BY <2>1, <3>1, <3>2
  <2>4. CASE i # Len(arrivals)
    <3> DEFINE n == Len(arrivals) - i - 1
    <3>1. n \in Int /\ i < Len(arrivals) /\ Len(arrivals) - i = n + 1
      BY <2>1, <2>4
    <3>2. last >= arrivals[i] + n * Pace
      BY <1>2, <3>1 DEF ArrivalInv
    <3> HIDE DEF n, last
    <3>3. (n + 1) * Pace = n * Pace + Pace /\ n * Pace \in Int
      BY <2>1, <3>1, OneMore
    <3>4. now - last >= Pace
      BY <1>2, <2>2
    <3> QED
      BY <2>1, <2>2, <3>1, <3>2, <3>3, <3>4
  <2> QED
    BY <2>3, <2>4
<1> QED
    BY <1>1, <1>3

\* A poll arrives an interval after the one before it, and after its grant.
LEMMA AnswerArrives ==
    ASSUME TypeOK, LoopInv, ArrivalInv, Answer
    PROVE  /\ PollsArriveApart'
           /\ \A i \in DOMAIN arrivals' : arrivals'[i] <= now
           /\ DOMAIN arrivals' = 1..(Len(arrivals) + 1)
           /\ Len(arrivals') = Len(arrivals) + 1
           /\ \A i \in 1..Len(arrivals) : arrivals'[i] = arrivals[i]
<1> DEFINE last == Limiter!LastGrant
           step == Later(2, asked.interval)
           n == Len(arrivals)
<1>1. /\ pc = "requesting" /\ arrivals' = Append(arrivals, now)
      /\ UNCHANGED <<now, grants, asked>>
    BY DEF Answer, settings
<1>2. /\ arrivals \in Seq(Nat) /\ now \in Nat /\ n \in Nat
      /\ DOMAIN arrivals = 1..n
    BY DEF TypeOK
<1>3. /\ Len(arrivals') = n + 1 /\ DOMAIN arrivals' = 1..(n + 1)
      /\ arrivals'[n + 1] = now
      /\ \A i \in 1..n : arrivals'[i] = arrivals[i]
  <2>1. /\ arrivals' \in Seq(Nat) /\ Len(arrivals') = n + 1
        /\ arrivals'[Len(arrivals')] = now
        /\ \A i \in 1..n : arrivals'[i] = arrivals[i]
    BY <1>1, <1>2, AppendFacts
  <2> QED
    BY <2>1
<1>4. /\ step \in Int /\ interval = step /\ Pace \in Nat
      /\ asked.interval \in Int
  <2>1. asked.interval \in Int /\ Pace \in Nat
    BY AwaitAssumption DEF TypeOK
  <2>2. interval = Later(asked.interval, 2)
    BY <1>1 DEF LoopInv, ClampInv
  <2> QED
    BY <2>1, <2>2 DEF Later
<1>5. LastPoll = n + 1
    BY <1>1 DEF LastPoll
<1> HIDE DEF n
<1>6. ASSUME NEW i \in 1..n
      PROVE  now - arrivals[i] >= Distance(n + 1 - i)
  <2>1. i \in Nat /\ i < n + 1 /\ arrivals # <<>> /\ arrivals[i] \in Nat
    BY <1>2
  <2>2. grants # <<>> /\ last \in Nat /\ last <= now
    BY <2>1, LastGrantFacts DEF ArrivalInv, LoopInv, ClockInv
  <2>3. last >= arrivals[i] + (n + 1 - i - 1) * Pace
    <3>1. i \in DOMAIN arrivals /\ i < LastPoll /\ pc # "failed"
      BY <1>1, <1>2, <1>5, <2>1
    <3>2. last >= arrivals[i] + (LastPoll - i - 1) * Pace
      BY <3>1 DEF ArrivalInv
    <3> QED
      BY <1>2, <1>4, <1>5, <2>1, <3>2
  <2>4. (n + 1 - i - 1) * Pace \in Int
    BY <1>2, <1>4, <2>1, OneMore
  <2>5. now - arrivals[i] >= (n + 1 - i - 1) * Pace
    BY <1>2, <2>1, <2>2, <2>3, <2>4
  <2>6. now - arrivals[i] >= (n + 1 - i) * step
    <3>1. now >= arrivals[n] + interval /\ arrivals[n] \in Nat
      BY <1>1, <1>2, <2>1 DEF ArrivalInv, n
    <3>2. CASE i = n
      <4>1. (n + 1 - i) * step = step
        BY <1>2, <1>4, <3>2, OneMore
      <4> QED
        BY <1>2, <1>4, <3>1, <3>2, <4>1
    <3>3. CASE i # n
      <4>1. arrivals[n] - arrivals[i] >= Distance(n - i)
        <5>1. PollsArriveApart
          BY DEF ArrivalInv
        <5>2. i \in DOMAIN arrivals /\ n \in DOMAIN arrivals /\ i < n
          BY <1>2, <2>1, <3>3
        <5> QED
          BY <5>1, <5>2 DEF PollsArriveApart, Distance
      <4>2. /\ (n - i) * step \in Int /\ (n - i - 1) * Pace \in Int
            /\ (n - i + 1) * step = (n - i) * step + step
        BY <1>2, <1>4, <2>1, OneMore
      <4>3. Distance(n - i) \in Int /\ Distance(n - i) >= (n - i) * step
        BY <4>2 DEF Distance, Later
      <4>4. n + 1 - i = n - i + 1
        BY <1>2, <2>1
      <4> DEFINE sleeps == (n - i) * step
      <4>5. now - arrivals[i] >= sleeps + step
        <5> DEFINE gap == Distance(n - i)
                   a == arrivals[i]
                   b == arrivals[n]
        <5>1. /\ sleeps \in Int /\ gap \in Int /\ gap >= sleeps
              /\ a \in Nat /\ b \in Nat /\ b - a >= gap
              /\ now >= b + step
          BY <1>4, <2>1, <3>1, <4>1, <4>2, <4>3
        <5> HIDE DEF sleeps, gap, a, b
        <5>2. now - a >= sleeps + step
          BY <1>2, <1>4, <5>1
        <5> QED
          BY <5>2 DEF a
      <4> QED
        BY <4>2, <4>4, <4>5
    <3> QED
      BY <3>2, <3>3
  <2> DEFINE m == n + 1 - i
             t == now - arrivals[i]
  <2>7. m \in Int /\ t \in Int /\ t >= m * step /\ t >= (m - 1) * Pace
    BY <1>2, <2>1, <2>5, <2>6
  <2> HIDE DEF m, t
  <2>8. t >= Distance(m)
    BY <2>7, DistanceFacts
  <2> QED
    BY <2>8 DEF m, t
<1>7. \A i \in 1..(n + 1) : i \in 1..n \/ i = n + 1
    BY <1>2
<1>8. ASSUME NEW i \in 1..(n + 1), NEW j \in 1..(n + 1), i < j
      PROVE  arrivals'[j] - arrivals'[i] >= Distance(j - i)
  <2>1. i \in 1..n
    BY <1>2, <1>8
  <2>2. CASE j = n + 1
    <3>1. j - i = n + 1 - i
      BY <1>2, <2>1, <2>2
    <3> QED
      BY <1>3, <1>6, <2>1, <2>2, <3>1
  <2>3. CASE j # n + 1
    <3>1. j \in 1..n
      BY <1>7, <2>3
    <3>2. arrivals[j] - arrivals[i] >= Distance(j - i)
      BY <1>2, <1>8, <2>1, <3>1 DEF ArrivalInv, PollsArriveApart, Distance
    <3> QED
      BY <1>3, <2>1, <3>1, <3>2
  <2> QED
    BY <2>2, <2>3
<1>9. PollsArriveApart'
    BY <1>1, <1>3, <1>8 DEF PollsArriveApart, Distance
<1>10. \A i \in 1..(n + 1) : arrivals'[i] <= now
    BY <1>2, <1>3, <1>7 DEF ArrivalInv
<1> QED
    BY <1>3, <1>9, <1>10 DEF n

(* Every step keeps polls apart at the server.                              *)
LEMMA ArrivalStep ==
    ASSUME TypeOK, LoopInv, ArrivalInv, [Next]_vars
    PROVE  ArrivalInv'
<1> DEFINE last == Limiter!LastGrant
           n == Len(arrivals)
           Granted == arrivals # <<>> \/ pc = "requesting" => grants # <<>>
           Arrived == \A i \in DOMAIN arrivals : arrivals[i] <= now
           Spaced ==
               arrivals # <<>> =>
                   /\ pc = "sleeping" => wake >= arrivals[Len(arrivals)] + interval
                   /\ pc \in {"waiting", "requesting"} =>
                       now >= arrivals[Len(arrivals)] + interval
           Kept ==
               pc # "failed" =>
                   \A i \in DOMAIN arrivals :
                       i < LastPoll =>
                           Limiter!LastGrant
                               >= arrivals[i] + (LastPoll - i - 1) * Pace
<1>1. /\ now \in Nat /\ wake \in Nat /\ n \in Nat
      /\ DOMAIN arrivals = 1..n /\ arrivals \in Seq(Nat)
      /\ \A i \in DOMAIN arrivals : arrivals[i] \in Nat
      /\ arrivals # <<>> => n \in DOMAIN arrivals
      /\ interval \in Int
    BY DEF TypeOK
<1>2. /\ pc = "called" => arrivals = <<>>
      /\ Granted /\ Arrived /\ Spaced /\ Kept /\ PollsArriveApart
    BY DEF ArrivalInv
<1>3. UNCHANGED grants => last' = last
    BY DEF Limiter!LastGrant
<1>4. UNCHANGED <<arrivals, asked>> => PollsArriveApart'
    BY <1>2 DEF PollsArriveApart
<1>5. ASSUME UNCHANGED <<arrivals, grants, asked, interval, wake, pc>>,
             now' \in Nat, now' >= now
      PROVE  ArrivalInv'
  <2>1. LastPoll' = LastPoll
    BY <1>5 DEF LastPoll
  <2>2. Granted' /\ Kept'
    BY <1>2, <1>3, <1>5, <2>1
  <2>3. Arrived'
    BY <1>1, <1>2, <1>5
  <2>4. Spaced'
    BY <1>1, <1>2, <1>5
  <2> QED
    BY <1>2, <1>4, <1>5, <2>2, <2>3, <2>4 DEF ArrivalInv
<1>6. CASE Tick \/ Complete \/ UNCHANGED vars
  <2>1. /\ UNCHANGED <<arrivals, grants, asked, interval, wake, pc>>
        /\ now' \in Nat /\ now' >= now
    BY <1>1, <1>6 DEF Tick, Limiter!Tick, Complete, vars, settings
  <2> QED
    BY <1>5, <2>1
<1>7. ASSUME UNCHANGED <<arrivals, grants, asked, interval, now>>,
             pc \notin {"requesting", "called"}, pc' \notin {"requesting", "called"},
             pc # "failed", Spaced'
      PROVE  ArrivalInv'
  <2>1. LastPoll' = LastPoll
    BY <1>7 DEF LastPoll
  <2>2. Granted' /\ Kept' /\ Arrived'
    BY <1>2, <1>3, <1>7, <2>1
  <2> QED
    BY <1>4, <1>7, <2>2 DEF ArrivalInv
<1>8. CASE Reject \/ Begin
  <2>1. /\ pc = "called" /\ arrivals = <<>> /\ UNCHANGED <<arrivals, asked>>
        /\ pc' \in {"failed", "waiting"}
    BY <1>2, <1>8 DEF Reject, Begin, settings
  <2>2. DOMAIN arrivals = {}
    BY <2>1
  <2> QED
    BY <1>4, <2>1, <2>2 DEF ArrivalInv
<1>9. CASE Fail
  <2>1. /\ UNCHANGED <<arrivals, grants, asked, now>> /\ pc' = "failed"
    BY <1>9 DEF Fail, settings
  <2>2. Granted' /\ Arrived'
    BY <1>2, <2>1
  <2> QED
    BY <1>4, <2>1, <2>2 DEF ArrivalInv
<1>10. CASE Request
  <2>1. /\ pc = "waiting" /\ pc' = "requesting"
        /\ UNCHANGED <<arrivals, asked, interval, now, wake>>
    BY <1>10 DEF Request, Limiter!Grant, settings
  <2>2. /\ grants' # <<>> /\ last' = now
        /\ \A i \in DOMAIN arrivals : now >= arrivals[i] + (n - i) * Pace
    BY <1>10, RequestArrives
  <2>3. LastPoll' = n + 1
    BY <2>1 DEF LastPoll
  <2>4. \A i \in DOMAIN arrivals : n + 1 - i - 1 = n - i
    BY <1>1
  <2>5. Kept'
    BY <2>1, <2>2, <2>3, <2>4
  <2>6. Arrived' /\ Spaced' /\ Granted'
    BY <1>2, <2>1, <2>2
  <2> QED
    BY <1>4, <2>1, <2>5, <2>6 DEF ArrivalInv
<1>11. CASE Answer
  <2>1. /\ pc = "requesting" /\ pc' = "answering"
        /\ UNCHANGED <<grants, now>>
    BY <1>11 DEF Answer
  <2>2. /\ PollsArriveApart' /\ Arrived'
        /\ DOMAIN arrivals' = 1..(n + 1) /\ Len(arrivals') = n + 1
        /\ \A i \in 1..n : arrivals'[i] = arrivals[i]
    BY <1>11, <2>1, AnswerArrives
  <2>3. LastPoll = n + 1 /\ LastPoll' = n + 1
    BY <2>1, <2>2 DEF LastPoll
  <2>4. ASSUME NEW i \in DOMAIN arrivals', i < LastPoll'
        PROVE  last' >= arrivals'[i] + (LastPoll' - i - 1) * Pace
    <3>1. i \in 1..n
      <4> HIDE DEF n
      <4> QED
        BY <1>1, <2>2, <2>3, <2>4
    <3>2. last >= arrivals[i] + (LastPoll - i - 1) * Pace
      BY <1>1, <1>2, <2>1, <2>3, <2>4, <3>1
    <3> QED
      BY <1>3, <2>1, <2>2, <2>3, <3>1, <3>2
  <2>5. Granted'
    BY <1>2, <2>1
  <2> QED
    BY <2>1, <2>2, <2>4, <2>5 DEF ArrivalInv
<1>12. CASE Arrive \/ Return \/ TimeOut
  <2>1. /\ UNCHANGED <<arrivals, grants, asked, interval, now>>
        /\ pc \in {"answering", "checking"}
        /\ pc' \in {"checking", "returned", "timed_out"}
    BY <1>12 DEF Arrive, Return, TimeOut, settings
  <2> QED
    BY <1>7, <2>1
<1>13. CASE Sleep
  <2>1. /\ UNCHANGED <<arrivals, grants, asked, interval, now>>
        /\ pc = "checking" /\ pc' = "sleeping" /\ wake' = now + interval
    BY <1>13 DEF Sleep, settings
  <2>2. arrivals # <<>> => arrivals[n] <= now /\ arrivals[n] \in Nat
    BY <1>1, <1>2
  <2>3. Spaced'
    BY <1>1, <2>1, <2>2
  <2> QED
    BY <1>7, <2>1, <2>3
<1>14. CASE Wake
  <2>1. /\ UNCHANGED <<arrivals, grants, asked, interval, now>>
        /\ pc = "sleeping" /\ pc' = "waiting" /\ now >= wake
    BY <1>14 DEF Wake, settings
  <2>2. Spaced'
    BY <1>1, <1>2, <2>1
  <2> QED
    BY <1>7, <2>1, <2>2
<1> QED
    BY <1>6, <1>8, <1>9, <1>10, <1>11, <1>12, <1>13, <1>14 DEF Next

(* At the server any two polls, not only neighbours, are as far apart as    *)
(* the sleeps between them and as the limiter's pace of all but the first   *)
(* of the polls in between, however long each was on its way.               *)
THEOREM PollsKeptApartAtServer == Spec => []PollsArriveApart
<1>1. TypeOK /\ LoopInv /\ ArrivalInv /\ [Next]_vars
          => (TypeOK /\ LoopInv /\ ArrivalInv)'
    BY TypeStep, LoopStep, ArrivalStep DEF LoopInv
<1>2. ArrivalInv => PollsArriveApart
    BY DEF ArrivalInv
<1> QED
    BY <1>1, <1>2, TypeInit, LoopInit, ArrivalInit, PTL DEF Spec

=============================================================================
