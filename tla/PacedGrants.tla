----------------------------- MODULE PacedGrants -----------------------------
(***************************************************************************)
(* What detail::RateLimiter promises to its callers, with nothing said of  *)
(* how: a grant (a return from wait()) is given at the current time, and   *)
(* two consecutive grants are at least Interval ticks apart.               *)
(***************************************************************************)
EXTENDS Integers, Sequences

CONSTANT Interval    \* ticks per token: the inverse of the configured rate

VARIABLES
    now,     \* the steady clock
    grants   \* the times at which wait() let a caller through, oldest first

vars == <<now, grants>>

LastGrant == grants[Len(grants)]

Init ==
    /\ now = 0
    /\ grants = <<>>

Tick ==
    /\ now' = now + 1
    /\ UNCHANGED grants

Grant ==
    /\ grants # <<>> => now - LastGrant >= Interval
    /\ grants' = Append(grants, now)
    /\ UNCHANGED now

Next == Tick \/ Grant

Spec == Init /\ [][Next]_vars

=============================================================================
