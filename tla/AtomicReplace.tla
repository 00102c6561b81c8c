---------------------------- MODULE AtomicReplace ----------------------------
(***************************************************************************)
(* What download_file and download_zip promise of the destination: it      *)
(* holds what it held before or, in one step, the whole body of the        *)
(* download that reports success.                                          *)
(***************************************************************************)
CONSTANTS
    Downloads,   \* calls of download_file or download_zip
    Dests,       \* destination paths
    Old,         \* the body of a file that was there before
    NoFile       \* no file at that path

VARIABLES
    target,      \* the dest_path of each download
    outcome,     \* how each download ended, or "pending"
    installed    \* the body found at each destination

vars == <<target, outcome, installed>>

Init ==
    /\ target \in [Downloads -> Dests]
    /\ outcome = [d \in Downloads |-> "pending"]
    /\ installed \in [Dests -> {Old, NoFile}]

\* The destination is replaced and success reported in the same instant.
Install(d) ==
    /\ outcome[d] = "pending"
    /\ outcome' = [outcome EXCEPT ![d] = "ok"]
    /\ installed' = [installed EXCEPT ![target[d]] = d]
    /\ UNCHANGED target

\* The call throws, or its process dies: the destination is untouched.
GiveUp(d) ==
    /\ outcome[d] = "pending"
    /\ \E how \in {"failed", "crashed"} :
        outcome' = [outcome EXCEPT ![d] = how]
    /\ UNCHANGED <<target, installed>>

Next == \E d \in Downloads : Install(d) \/ GiveUp(d)

Spec == Init /\ [][Next]_vars

=============================================================================
