------------------------------ MODULE AtomicFile ------------------------------
(***************************************************************************)
(* download_file and download_zip (src/client.cpp) from the response on:   *)
(* write_file_atomic writes the body into a temporary sibling, dest.part,  *)
(* and renames it over the destination.                                    *)
(*                                                                         *)
(* The file system is modelled by its names and inodes, since what a       *)
(* download writes goes to the inode it opened, whatever the names have    *)
(* become.  An inode is named after the download that created it; it holds *)
(* for each chunk the download that wrote it.  Every call of download_file *)
(* is a download of its own, with a body of its own, so that a retry is    *)
(* one more download with the same target.                                 *)
(***************************************************************************)
EXTENDS Integers, FiniteSets

CONSTANTS
    Downloads,   \* calls of download_file or download_zip
    Dests,       \* destination paths
    Old,         \* the inode, and the body, of a file that was there before
    NoFile,      \* no file of that name
    Hole,        \* a chunk nobody has written
    Chunks,      \* chunks per body
    FaultSets,   \* the kinds of things that may go wrong together
    Exclusive    \* TRUE: no two live downloads have the same destination

FaultKinds == {"http", "open", "write", "flush", "rename", "remove", "crash"}

ASSUME DownloadAssumption ==
    /\ Old \notin Downloads /\ NoFile \notin Downloads /\ Hole \notin Downloads
    /\ Old # NoFile /\ Old # Hole /\ Hole # NoFile
    /\ Chunks \in Nat \ {0}
    /\ FaultSets \subseteq SUBSET FaultKinds
    /\ Exclusive \in BOOLEAN

Inodes == Downloads \cup {Old}

VARIABLES
    faults,      \* what may go wrong in this behaviour; never changes
    target,      \* the dest_path of each download
    pc,          \* where each download is
    fd,          \* the inode each download has open or has closed
    written,     \* how many chunks of its body each download has written out
    content,     \* the chunks of each inode
    destLink,    \* the inode at each dest_path
    partLink     \* the inode at each dest_path + ".part"

vars == <<faults, target, pc, fd, written, content, destLink, partLink>>

Working == {"writing", "closing", "renaming", "removing"}

Locations == {"idle", "fetched", "ok", "failed", "crashed"} \cup Working

WholeBody(b) == [k \in 1..Chunks |-> b]

Blank == WholeBody(Hole)

IsWhole(inode) == \E b \in Inodes : content[inode] = WholeBody(b)

\* The body a reader finds at x; Hole stands for any mixture.
BodyAt(x) ==
    IF destLink[x] = NoFile THEN NoFile
    ELSE IF IsWhole(destLink[x]) THEN content[destLink[x]][1]
    ELSE Hole

MayFail(kind) == kind \in faults

Goto(d, l) == pc' = [pc EXCEPT ![d] = l]

-----------------------------------------------------------------------------

Init ==
    /\ faults \in FaultSets
    /\ target \in [Downloads -> Dests]
    /\ pc = [d \in Downloads |-> "idle"]
    /\ fd = [d \in Downloads |-> NoFile]
    /\ written = [d \in Downloads |-> 0]
    /\ content = [i \in Inodes |-> IF i = Old THEN WholeBody(Old) ELSE Blank]
    /\ destLink \in [Dests -> {Old, NoFile}]
    /\ partLink = [x \in Dests |-> NoFile]

\* The request is answered with a body.
Fetch(d) ==
    /\ pc[d] = "idle"
    /\ Goto(d, "fetched")
    /\ UNCHANGED <<faults, target, fd, written, content, destLink, partLink>>

\* The transfer or its status is an error: body_or_throw throws first.
FetchFails(d) ==
    /\ MayFail("http")
    /\ pc[d] = "idle"
    /\ Goto(d, "failed")
    /\ UNCHANGED <<faults, target, fd, written, content, destLink, partLink>>

\* Mutant of Open: the body is written over the destination itself.
OpenInPlace(d) ==
    /\ pc[d] = "fetched"
    /\ LET x == target[d]
           inode == IF destLink[x] = NoFile THEN d ELSE destLink[x]
       IN  /\ fd' = [fd EXCEPT ![d] = inode]
           /\ content' = [content EXCEPT ![inode] = Blank]
           /\ destLink' = [destLink EXCEPT ![x] = inode]
    /\ Goto(d, "writing")
    /\ UNCHANGED <<faults, target, written, partLink>>

\* ofstream out(tmp, trunc): creates the file, or empties the one that is
\* there, a left-over or another download's.
Open(d) ==
    /\ pc[d] = "fetched"
    /\ Exclusive =>
        \A e \in Downloads : target[e] = target[d] => pc[e] \notin Working
    /\ LET x == target[d]
           inode == IF partLink[x] = NoFile THEN d ELSE partLink[x]
       IN  /\ fd' = [fd EXCEPT ![d] = inode]
           /\ content' = [content EXCEPT ![inode] = Blank]
           /\ partLink' = [partLink EXCEPT ![x] = inode]
    /\ Goto(d, "writing")
    /\ UNCHANGED <<faults, target, written, destLink>>

OpenFails(d) ==
    /\ MayFail("open")
    /\ pc[d] = "fetched"
    /\ Goto(d, "failed")
    /\ UNCHANGED <<faults, target, fd, written, content, destLink, partLink>>

\* Mutant of WriteChunk: one chunk too many.
WriteChunkTooMany(d) ==
    /\ pc[d] \in {"writing", "closing"}
    /\ written[d] <= Chunks
    /\ written' = [written EXCEPT ![d] = @ + 1]
    /\ content' = [content EXCEPT ![fd[d]][written[d] + 1] = d]
    /\ UNCHANGED <<faults, target, pc, fd, destLink, partLink>>

\* The next chunk of the body reaches the file, from out.write itself or from
\* the flush of the stream's buffer when out goes out of scope.
WriteChunk(d) ==
    /\ pc[d] \in {"writing", "closing"}
    /\ written[d] < Chunks
    /\ written' = [written EXCEPT ![d] = @ + 1]
    /\ content' = [content EXCEPT ![fd[d]][written[d] + 1] = d]
    /\ UNCHANGED <<faults, target, pc, fd, destLink, partLink>>

\* out.write has taken the body; what it has not written is in the buffer.
WriteReturns(d) ==
    /\ pc[d] = "writing"
    /\ Goto(d, "closing")
    /\ UNCHANGED <<faults, target, fd, written, content, destLink, partLink>>

\* Mutant of WriteFails: the temporary file is not removed.
WriteFailsForgotten(d) ==
    /\ MayFail("write")
    /\ pc[d] = "writing"
    /\ written[d] < Chunks
    /\ Goto(d, "failed")
    /\ UNCHANGED <<faults, target, fd, written, content, destLink, partLink>>

\* A chunk cannot be written while out.write runs: !out is noticed.
WriteFails(d) ==
    /\ MayFail("write")
    /\ pc[d] = "writing"
    /\ written[d] < Chunks
    /\ Goto(d, "removing")
    /\ UNCHANGED <<faults, target, fd, written, content, destLink, partLink>>

\* Mutant of Close: the rename comes before the stream is closed.
CloseLate(d) ==
    /\ pc[d] = "closing"
    /\ Goto(d, "renaming")
    /\ UNCHANGED <<faults, target, fd, written, content, destLink, partLink>>

\* out is destroyed with an empty buffer.
Close(d) ==
    /\ pc[d] = "closing"
    /\ written[d] = Chunks
    /\ Goto(d, "renaming")
    /\ UNCHANGED <<faults, target, fd, written, content, destLink, partLink>>

\* The flush of the buffer fails: the destructor of out tells nobody.
FlushFails(d) ==
    /\ MayFail("flush")
    /\ pc[d] = "closing"
    /\ written[d] < Chunks
    /\ Goto(d, "renaming")
    /\ UNCHANGED <<faults, target, fd, written, content, destLink, partLink>>

\* rename(tmp, dest, ec) replaces the destination in one step.
Rename(d) ==
    /\ pc[d] = "renaming"
    /\ partLink[target[d]] # NoFile
    /\ destLink' = [destLink EXCEPT ![target[d]] = partLink[target[d]]]
    /\ partLink' = [partLink EXCEPT ![target[d]] = NoFile]
    /\ Goto(d, "ok")
    /\ UNCHANGED <<faults, target, fd, written, content>>

\* Mutant of RenameFails: the error code is not looked at.
RenameFailsUnseen(d) ==
    /\ pc[d] = "renaming"
    /\ MayFail("rename") \/ partLink[target[d]] = NoFile
    /\ Goto(d, "ok")
    /\ UNCHANGED <<faults, target, fd, written, content, destLink, partLink>>

\* It fails when the file system says so, and when another download of the
\* same destination has already renamed or removed the temporary file.
RenameFails(d) ==
    /\ pc[d] = "renaming"
    /\ MayFail("rename") \/ partLink[target[d]] = NoFile
    /\ Goto(d, "removing")
    /\ UNCHANGED <<faults, target, fd, written, content, destLink, partLink>>

\* remove(tmp, ec), then throw VtError("cannot write file").
Remove(d) ==
    /\ pc[d] = "removing"
    /\ partLink' = [partLink EXCEPT ![target[d]] = NoFile]
    /\ Goto(d, "failed")
    /\ UNCHANGED <<faults, target, fd, written, content, destLink>>

\* The error of remove is dropped; the exception is the same.
RemoveFails(d) ==
    /\ MayFail("remove")
    /\ pc[d] = "removing"
    /\ Goto(d, "failed")
    /\ UNCHANGED <<faults, target, fd, written, content, destLink, partLink>>

\* The process of a download dies; what was in its buffer is lost.
Crash(d) ==
    /\ MayFail("crash")
    /\ pc[d] \in {"idle", "fetched"} \cup Working
    /\ Goto(d, "crashed")
    /\ UNCHANGED <<faults, target, fd, written, content, destLink, partLink>>

Step(d) ==
    \/ Fetch(d) \/ FetchFails(d)
    \/ Open(d) \/ OpenFails(d)
    \/ WriteChunk(d) \/ WriteReturns(d) \/ WriteFails(d)
    \/ Close(d) \/ FlushFails(d)
    \/ Rename(d) \/ RenameFails(d)
    \/ Remove(d) \/ RemoveFails(d)
    \/ Crash(d)

Next == \E d \in Downloads : Step(d)

Spec == Init /\ [][Next]_vars

-----------------------------------------------------------------------------

(* The types of the variables. *)
TypeOK ==
    /\ faults \subseteq FaultKinds
    /\ target \in [Downloads -> Dests]
    /\ pc \in [Downloads -> Locations]
    /\ fd \in [Downloads -> Downloads \cup {NoFile}]
    /\ written \in [Downloads -> 0..Chunks]
    /\ content \in [Inodes -> [1..Chunks -> Inodes \cup {Hole}]]
    /\ destLink \in [Dests -> Inodes \cup {NoFile}]
    /\ partLink \in [Dests -> Downloads \cup {NoFile}]

(* client.cpp:100: no partial file at the destination.  At no time, not in  *)
(* the middle of a download, not after a failed one and not after a crash,  *)
(* does a reader of dest_path find anything but a whole body, as long as    *)
(* the flush at the end of the stream, whose failure nobody sees, succeeds. *)
NeverPartial ==
    \A x \in Dests :
        ~MayFail("flush") /\ destLink[x] # NoFile => IsWhole(destLink[x])

(* client.hpp:97-100: a failed transfer never leaves a partial file.  Once  *)
(* every download of a destination has returned, the file there is whole.   *)
NothingPartialLeft ==
    \A x \in Dests :
        /\ destLink[x] # NoFile
        /\ \A d \in Downloads :
            target[d] = x => pc[d] \in {"idle", "ok", "failed"}
        => IsWhole(destLink[x])

(* What a reader finds at a destination changes only in the step in which a *)
(* download to it reports success, whatever fails around it.                *)
OnlySuccessChangesDest ==
    [][\A x \in Dests :
        BodyAt(x)' # BodyAt(x) =>
            \E d \in Downloads :
                target[d] = x /\ pc[d] # "ok" /\ pc'[d] = "ok"]_vars

(* run_tests.cpp:1939: the temporary file does not survive the call, nor    *)
(* does one that a crash of an earlier call left behind: once a call that   *)
(* opened it returns or throws, there is none, unless it cannot be removed. *)
CleansUp ==
    [][\A d \in Downloads :
        pc[d] \in Working /\ pc'[d] \in {"ok", "failed"}
            => MayFail("remove") \/ partLink'[target[d]] = NoFile]_vars

\* The strengthening that makes NeverPartial inductive when live downloads of
\* one destination are kept apart: no name leads to a download that has opened
\* nothing; a temporary file is nobody's destination; a working download owns
\* its temporary file, which holds what it has written; and, unless a flush may
\* fail unseen, what is about to be renamed is written out.
FreshInv ==
    \A d \in Downloads :
        pc[d] \in {"idle", "fetched"} =>
            /\ written[d] = 0
            /\ \A x \in Dests : destLink[x] # d /\ partLink[x] # d

PartInv ==
    \A x, y \in Dests :
        partLink[x] # NoFile =>
            /\ partLink[x] # destLink[y]
            /\ x # y => partLink[x] # partLink[y]

AloneInv ==
    \A d, e \in Downloads :
        pc[d] \in Working /\ pc[e] \in Working /\ target[d] = target[e]
            => d = e

OwnInv ==
    \A d \in Downloads :
        pc[d] \in Working =>
            /\ fd[d] \in Downloads
            /\ partLink[target[d]] = fd[d]
            /\ \A k \in 1..written[d] : content[fd[d]][k] = d
            /\ pc[d] = "renaming" /\ ~MayFail("flush") => written[d] = Chunks

FileInv ==
    /\ FreshInv /\ PartInv /\ AloneInv /\ OwnInv
    /\ NeverPartial

\* What AtomicReplace calls the outcome of a download, and the file at a
\* destination: the promise is one about file systems where a flush succeeds.
Outcome ==
    [d \in Downloads |->
        IF ~MayFail("flush") /\ pc[d] \in {"ok", "failed", "crashed"}
        THEN pc[d] ELSE "pending"]

Installed == [x \in Dests |-> IF MayFail("flush") THEN NoFile ELSE BodyAt(x)]

Abstract ==
    INSTANCE AtomicReplace WITH outcome <- Outcome, installed <- Installed

(* The writes and the rename implement an atomic replacement of the file.   *)
Implements == Abstract!Spec

=============================================================================
