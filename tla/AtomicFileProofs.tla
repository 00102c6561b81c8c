--------------------------- MODULE AtomicFileProofs ---------------------------
(***************************************************************************)
(* Machine-checked proofs about write_file_atomic, for any number of       *)
(* downloads and destinations and bodies of any length.  The types hold    *)
(* whatever goes wrong.  What is seen at the destinations is proved for    *)
(* live downloads with destinations of their own, an assumption that TLC   *)
(* shows to be needed.                                                     *)
(***************************************************************************)
EXTENDS AtomicFile, TLAPS

(* The types hold initially and every step keeps them.                      *)
LEMMA TypeInit == Init => TypeOK
    BY DownloadAssumption
    DEF Init, TypeOK, Locations, Working, Inodes, WholeBody, Blank

LEMMA TypeStep ==
    ASSUME TypeOK, [Next]_vars
    PROVE  TypeOK'
<1> USE DownloadAssumption
    DEF TypeOK, Locations, Working, Inodes, Goto
<1>1. ASSUME NEW d \in Downloads,
             \/ Fetch(d) \/ FetchFails(d) \/ OpenFails(d) \/ WriteReturns(d)
             \/ WriteFails(d) \/ Close(d) \/ FlushFails(d) \/ RenameFails(d)
             \/ RemoveFails(d) \/ Crash(d)
      PROVE  TypeOK'
    BY <1>1
    DEF Fetch, FetchFails, OpenFails, WriteReturns, WriteFails, Close,
        FlushFails, RenameFails, RemoveFails, Crash
<1>2. ASSUME NEW d \in Downloads, Open(d)
      PROVE  TypeOK'
    BY <1>2 DEF Open, Blank, WholeBody
<1>3. ASSUME NEW d \in Downloads, WriteChunk(d)
      PROVE  TypeOK'
  <2>1. written[d] + 1 \in 1..Chunks
    BY <1>3 DEF WriteChunk
  <2>2. content' \in [Inodes -> [1..Chunks -> Inodes \cup {Hole}]]
    BY <1>3, <2>1 DEF WriteChunk
  <2>3. written' \in [Downloads -> 0..Chunks]
    BY <1>3, <2>1 DEF WriteChunk
  <2> QED
    BY <1>3, <2>2, <2>3 DEF WriteChunk
<1>4. ASSUME NEW d \in Downloads, Rename(d) \/ Remove(d)
      PROVE  TypeOK'
    BY <1>4 DEF Rename, Remove
<1>5. CASE UNCHANGED vars
    BY <1>5 DEF vars
<1> QED
    BY <1>1, <1>2, <1>3, <1>4, <1>5 DEF Next, Step

(* The types are an invariant, whatever goes wrong.                         *)
THEOREM TypeCorrect == Spec => []TypeOK
    BY TypeInit, TypeStep, PTL DEF Spec

-----------------------------------------------------------------------------

(* At first nothing is open and the only file is whole.                     *)
LEMMA FileInit == Init => FileInv
<1> SUFFICES ASSUME Init
             PROVE  FileInv
    OBVIOUS
<1>1. FreshInv /\ PartInv /\ AloneInv /\ OwnInv
    BY DownloadAssumption
    DEF Init, FreshInv, PartInv, AloneInv, OwnInv, Working
<1>2. NeverPartial
    BY DEF Init, NeverPartial, IsWhole, Inodes
<1> QED
    BY <1>1, <1>2 DEF FileInv

\* A step that opens, writes and renames nothing and moves no download into
\* its working part keeps the invariant.
LEMMA QuietStep ==
    ASSUME TypeOK, FileInv,
           NEW d \in Downloads, NEW l \in Locations,
           Goto(d, l),
           UNCHANGED <<faults, target, fd, written, content, destLink, partLink>>,
           pc[d] \notin {"idle", "fetched"} => l \notin {"idle", "fetched"},
           l \in Working => pc[d] \in Working,
           l = "renaming" => MayFail("flush") \/ written[d] = Chunks
    PROVE  FileInv'
<1> USE DEF TypeOK, FileInv, Goto, MayFail
<1>1. FreshInv'
    BY DEF FreshInv
<1>2. PartInv'
    BY DEF PartInv
<1>3. AloneInv'
    BY DEF AloneInv
<1>4. OwnInv'
    BY DEF OwnInv
<1>5. NeverPartial => NeverPartial'
    BY DEF NeverPartial, IsWhole
<1> QED
    BY <1>1, <1>2, <1>3, <1>4, <1>5

\* An inode that no destination leads to may change: what the destinations
\* hold stays as it was.
LEMMA DestStable ==
    ASSUME UNCHANGED <<faults, destLink>>,
           \A x \in Dests : destLink[x] # NoFile =>
               content'[destLink[x]] = content[destLink[x]]
    PROVE  /\ NeverPartial => NeverPartial'
           /\ \A x \in Dests : BodyAt(x)' = BodyAt(x)
    BY DEF NeverPartial, IsWhole, BodyAt, MayFail

\* Opening the temporary file, which is new or nobody's destination.
LEMMA OpenStep ==
    ASSUME TypeOK, FileInv, Exclusive, NEW d \in Downloads, Open(d)
    PROVE  /\ FileInv'
           /\ \A x \in Dests : BodyAt(x)' = BodyAt(x)
<1> DEFINE t == target[d]
<1> DEFINE inode == IF partLink[t] = NoFile THEN d ELSE partLink[t]
<1> USE DEF TypeOK, FileInv, MayFail
<1>1. /\ t \in Dests
      /\ inode \in Downloads
      /\ fd' = [fd EXCEPT ![d] = inode]
      /\ content' = [content EXCEPT ![inode] = Blank]
      /\ partLink' = [partLink EXCEPT ![t] = inode]
      /\ pc' = [pc EXCEPT ![d] = "writing"]
      /\ pc[d] = "fetched"
      /\ UNCHANGED <<faults, target, written, destLink>>
    BY DEF Open, Goto
<1>2. /\ \A x \in Dests : destLink[x] # inode
      /\ \A x \in Dests : x # t => partLink[x] # inode
      /\ written[d] = 0
    BY <1>1 DEF FreshInv, PartInv
<1>3. \A e \in Downloads : target[e] = t => pc[e] \notin Working
    BY DEF Open
<1>4. \A e \in Downloads : pc[e] \in Working => fd[e] # inode
    BY <1>1, <1>2, <1>3 DEF OwnInv
<1>5. inode # d => \A e \in Downloads :
          pc[e] \in {"idle", "fetched"} => inode # e
    BY <1>1 DEF FreshInv
<1> HIDE DEF inode
<1>6. FreshInv'
    BY <1>1, <1>2, <1>5 DEF FreshInv
<1>7. PartInv'
    BY <1>1, <1>2, DownloadAssumption DEF PartInv
<1>8. AloneInv'
    BY <1>1, <1>3 DEF AloneInv, Working
<1>9. OwnInv'
  <2> SUFFICES ASSUME NEW e \in Downloads, pc'[e] \in Working
               PROVE  /\ fd'[e] \in Downloads
                      /\ partLink'[target'[e]] = fd'[e]
                      /\ \A k \in 1..written'[e] : content'[fd'[e]][k] = e
                      /\ pc'[e] = "renaming" /\ ~MayFail("flush")
                             => written'[e] = Chunks
    BY <1>1 DEF OwnInv
  <2>1. CASE e = d
    BY <1>1, <1>2, <2>1
  <2>2. CASE e # d
    <3>1. pc[e] \in Working /\ target[e] # t /\ fd[e] # inode
      BY <1>1, <1>3, <1>4, <2>2
    <3>2. fd'[e] = fd[e] /\ content'[fd[e]] = content[fd[e]]
      BY <1>1, <2>2, <3>1 DEF Inodes, OwnInv
    <3>3. partLink'[target[e]] = partLink[target[e]]
      BY <1>1, <3>1
    <3> QED
      BY <1>1, <2>2, <3>1, <3>2, <3>3 DEF OwnInv
  <2> QED
    BY <2>1, <2>2
<1>10. \A x \in Dests : destLink[x] # NoFile =>
           content'[destLink[x]] = content[destLink[x]]
    BY <1>1, <1>2 DEF Inodes
<1> QED
    BY <1>1, <1>6, <1>7, <1>8, <1>9, <1>10, DestStable

\* Writing into the temporary file a download owns.
LEMMA WriteStep ==
    ASSUME TypeOK, FileInv, Exclusive, NEW d \in Downloads, WriteChunk(d)
    PROVE  /\ FileInv'
           /\ \A x \in Dests : BodyAt(x)' = BodyAt(x)
<1> USE DEF TypeOK, FileInv, MayFail
<1>1. /\ pc[d] \in {"writing", "closing"}
      /\ pc[d] \in Working
      /\ written[d] \in Nat /\ written[d] + 1 \in 1..Chunks
      /\ written' = [written EXCEPT ![d] = written[d] + 1]
      /\ content' = [content EXCEPT ![fd[d]][written[d] + 1] = d]
      /\ UNCHANGED <<faults, target, pc, fd, destLink, partLink>>
    BY DownloadAssumption DEF WriteChunk, Working
<1>2. fd[d] \in Downloads /\ partLink[target[d]] = fd[d] /\ fd[d] \in Inodes
    BY <1>1 DEF OwnInv, Inodes
<1>3. \A x \in Dests : destLink[x] # fd[d]
    BY <1>2, DownloadAssumption DEF PartInv
<1>4. \A e \in Downloads : pc[e] \in Working /\ e # d => fd[e] # fd[d]
  <2> TAKE e \in Downloads
  <2>1. HAVE pc[e] \in Working /\ e # d
  <2>2. target[e] # target[d]
    BY <1>1, <2>1 DEF AloneInv
  <2>3. partLink[target[e]] = fd[e] /\ fd[e] \in Downloads
    BY <2>1 DEF OwnInv
  <2> QED
    BY <1>2, <2>2, <2>3, DownloadAssumption DEF PartInv
<1>5. \A i \in Inodes : i # fd[d] => content'[i] = content[i]
    BY <1>1
<1>6. \A k \in 1..Chunks :
          content'[fd[d]][k] = IF k = written[d] + 1 THEN d
                               ELSE content[fd[d]][k]
    BY <1>1, <1>2
<1>7. FreshInv'
    BY <1>1 DEF FreshInv
<1>8. PartInv' /\ AloneInv'
    BY <1>1 DEF PartInv, AloneInv
<1>9. OwnInv'
  <2> SUFFICES ASSUME NEW e \in Downloads, pc[e] \in Working
               PROVE  /\ \A k \in 1..written'[e] : content'[fd[e]][k] = e
                      /\ pc[e] = "renaming" /\ ~MayFail("flush")
                             => written'[e] = Chunks
    BY <1>1 DEF OwnInv
  <2>1. CASE e = d
    <3>1. \A k \in 1..written[d] : content[fd[d]][k] = d
      BY <1>1 DEF OwnInv
    <3> QED
      BY <1>1, <1>6, <2>1, <3>1
  <2>2. CASE e # d
    <3>1. written'[e] = written[e] /\ content'[fd[e]] = content[fd[e]]
      BY <1>1, <1>4, <1>5, <2>2 DEF OwnInv, Inodes
    <3> QED
      BY <3>1 DEF OwnInv
  <2> QED
    BY <2>1, <2>2
<1>10. \A x \in Dests : destLink[x] # NoFile =>
           content'[destLink[x]] = content[destLink[x]]
    BY <1>3, <1>5
<1> QED
    BY <1>1, <1>7, <1>8, <1>9, <1>10, DestStable

\* The rename puts the whole body of the download at its destination.
LEMMA RenameStep ==
    ASSUME TypeOK, FileInv, Exclusive, NEW d \in Downloads, Rename(d)
    PROVE  /\ FileInv'
           /\ ~MayFail("flush") => BodyAt(target[d])' = d
           /\ \A x \in Dests : x # target[d] => BodyAt(x)' = BodyAt(x)
<1> DEFINE t == target[d]
<1> USE DEF TypeOK, FileInv, MayFail
<1>1. /\ t \in Dests
      /\ pc[d] = "renaming" /\ pc[d] \in Working
      /\ destLink' = [destLink EXCEPT ![t] = partLink[t]]
      /\ partLink' = [partLink EXCEPT ![t] = NoFile]
      /\ pc' = [pc EXCEPT ![d] = "ok"]
      /\ UNCHANGED <<faults, target, fd, written, content>>
    BY DEF Rename, Goto, Working
<1>2. /\ fd[d] \in Downloads /\ fd[d] \in Inodes
      /\ partLink[t] = fd[d]
      /\ ~MayFail("flush") => written[d] = Chunks
    BY <1>1 DEF OwnInv, Inodes
<1>3. ~MayFail("flush") => content[fd[d]] = WholeBody(d)
    BY <1>1, <1>2 DEF OwnInv, WholeBody
<1>4. destLink'[t] = fd[d] /\ destLink'[t] # NoFile
    BY <1>1, <1>2, DownloadAssumption
<1>5. \A x \in Dests : x # t => destLink'[x] = destLink[x]
    BY <1>1
<1>6. ASSUME ~MayFail("flush")
      PROVE  IsWhole(destLink[t])'
  <2>1. d \in Inodes /\ content'[destLink'[t]] = WholeBody(d)
    BY <1>1, <1>3, <1>4, <1>6 DEF Inodes
  <2> QED
    BY <1>1, <2>1 DEF IsWhole, WholeBody, Inodes
<1>7. ~MayFail("flush") => BodyAt(t)' = d
    BY <1>1, <1>3, <1>4, <1>6, DownloadAssumption DEF BodyAt, WholeBody
<1>8. \A x \in Dests : x # t => BodyAt(x)' = BodyAt(x)
    BY <1>1, <1>5 DEF BodyAt, IsWhole
<1>9. NeverPartial'
    BY <1>1, <1>5, <1>6 DEF NeverPartial, IsWhole
<1>10. FreshInv'
    BY <1>1, DownloadAssumption DEF FreshInv
<1>11. PartInv'
    BY <1>1, <1>2, <1>4, <1>5, DownloadAssumption DEF PartInv
<1>12. AloneInv'
    BY <1>1 DEF AloneInv, Working
<1>13. OwnInv'
    BY <1>1 DEF OwnInv, AloneInv, Working
<1> QED
    BY <1>1, <1>7, <1>8, <1>9, <1>10, <1>11, <1>12, <1>13

\* Removing the temporary file.
LEMMA RemoveStep ==
    ASSUME TypeOK, FileInv, NEW d \in Downloads, Remove(d)
    PROVE  /\ FileInv'
           /\ \A x \in Dests : BodyAt(x)' = BodyAt(x)
<1> USE DEF TypeOK, FileInv, MayFail
<1>1. /\ target[d] \in Dests
      /\ pc[d] = "removing" /\ pc[d] \in Working
      /\ partLink' = [partLink EXCEPT ![target[d]] = NoFile]
      /\ pc' = [pc EXCEPT ![d] = "failed"]
      /\ UNCHANGED <<faults, target, fd, written, content, destLink>>
    BY DEF Remove, Goto, Working
<1>2. FreshInv'
    BY <1>1, DownloadAssumption DEF FreshInv
<1>3. PartInv'
    BY <1>1 DEF PartInv
<1>4. AloneInv'
    BY <1>1 DEF AloneInv, Working
<1>5. OwnInv'
    BY <1>1 DEF OwnInv, AloneInv, Working
<1> QED
    BY <1>1, <1>2, <1>3, <1>4, <1>5, DestStable

(* One step of one download: what it does to the invariant, and whether it  *)
(* is the abstract installation, an abstract failure or nothing to a reader. *)
LEMMA DownloadStep ==
    ASSUME TypeOK, FileInv, Exclusive, NEW d \in Downloads, Step(d)
    PROVE  /\ FileInv'
           /\ \/ Rename(d)
              \/ /\ \A x \in Dests : BodyAt(x)' = BodyAt(x)
                 /\ UNCHANGED target
                 /\ \E l \in Locations \ {"ok"} :
                        \/ pc' = [pc EXCEPT ![d] = l]
                        \/ pc' = pc
                 /\ pc[d] \notin {"ok", "failed", "crashed"}
<1> DEFINE Quiet(l) ==
        /\ Goto(d, l)
        /\ UNCHANGED <<faults, target, fd, written, content, destLink, partLink>>
<1>1. ASSUME NEW l \in Locations \ {"ok"},
             Quiet(l),
             pc[d] \notin {"ok", "failed", "crashed"},
             pc[d] \notin {"idle", "fetched"} => l \notin {"idle", "fetched"},
             l \in Working => pc[d] \in Working,
             l = "renaming" => MayFail("flush") \/ written[d] = Chunks
      PROVE  /\ FileInv'
             /\ \A x \in Dests : BodyAt(x)' = BodyAt(x)
             /\ UNCHANGED target
             /\ pc' = [pc EXCEPT ![d] = l]
    BY <1>1, QuietStep, DestStable DEF Goto
<1>2. CASE Fetch(d)
    BY <1>1, <1>2 DEF Fetch, Locations, Working
<1>3. CASE FetchFails(d) \/ OpenFails(d)
    BY <1>1, <1>3 DEF FetchFails, OpenFails, Locations, Working
<1>4. CASE Open(d)
    BY <1>4, OpenStep DEF Open, Goto, Locations, Working
<1>5. CASE WriteChunk(d)
    BY <1>5, WriteStep DEF WriteChunk, Locations, Working
<1>6. CASE WriteReturns(d) \/ WriteFails(d)
    BY <1>1, <1>6 DEF WriteReturns, WriteFails, Locations, Working
<1>7. CASE Close(d)
    BY <1>1, <1>7 DEF Close, Locations, Working
<1>8. CASE FlushFails(d)
    BY <1>1, <1>8 DEF FlushFails, Locations, Working
<1>9. CASE Rename(d)
    BY <1>9, RenameStep
<1>10. CASE RenameFails(d) \/ RemoveFails(d)
    BY <1>1, <1>10 DEF RenameFails, RemoveFails, Locations, Working
<1>11. CASE Remove(d)
    BY <1>11, RemoveStep DEF Remove, Goto, Locations, Working
<1>12. CASE Crash(d)
    BY <1>1, <1>12 DEF Crash, Locations, Working
<1> QED
    BY <1>2, <1>3, <1>4, <1>5, <1>6, <1>7, <1>8, <1>9, <1>10, <1>11, <1>12
    DEF Step

LEMMA FileStep ==
    ASSUME TypeOK, FileInv, Exclusive, [Next]_vars
    PROVE  FileInv'
<1>1. CASE Next
    BY <1>1, DownloadStep DEF Next
<1>2. CASE UNCHANGED vars
    BY <1>2
    DEF vars, FileInv, FreshInv, PartInv, AloneInv, OwnInv, NeverPartial,
        IsWhole, MayFail
<1> QED
    BY <1>1, <1>2

(* No reader of a destination ever finds a partial body there.              *)
THEOREM DestinationNeverPartial ==
    ASSUME Exclusive
    PROVE  Spec => []NeverPartial
<1>1. Init => TypeOK /\ FileInv
    BY TypeInit, FileInit
<1>2. TypeOK /\ FileInv /\ [Next]_vars => (TypeOK /\ FileInv)'
    BY TypeStep, FileStep, Exclusive
<1>3. FileInv => NeverPartial
    BY DEF FileInv
<1> QED
    BY <1>1, <1>2, <1>3, PTL DEF Spec

-----------------------------------------------------------------------------

\* What may fail and where each download goes is settled at the start.
LEMMA SettledStep ==
    ASSUME [Next]_vars
    PROVE  UNCHANGED <<faults, target>>
BY DEF Next, Step, vars, Fetch, FetchFails, Open, OpenFails, WriteChunk,
    WriteReturns, WriteFails, Close, FlushFails, Rename, RenameFails, Remove,
    RemoveFails, Crash

(* write_file_atomic implements the atomic replacement: the rename is the   *)
(* installation, every other step is a failure or shows nothing.            *)
THEOREM ReplacesAtomically ==
    ASSUME Exclusive
    PROVE  Spec => Implements
<1>1. Init => TypeOK /\ FileInv
    BY TypeInit, FileInit
<1>2. TypeOK /\ FileInv /\ [Next]_vars => (TypeOK /\ FileInv)'
    BY TypeStep, FileStep, Exclusive
<1>3. Init => Abstract!Init
  <2> SUFFICES ASSUME Init
               PROVE  Abstract!Init
    OBVIOUS
  <2>1. Outcome = [d \in Downloads |-> "pending"]
    BY DEF Init, Outcome
  <2>2. content[Old] = WholeBody(Old) /\ Old \in Inodes
    BY DEF Init, Inodes
  <2>3. ASSUME NEW x \in Dests
        PROVE  BodyAt(x) \in {Old, NoFile}
    <3>1. destLink[x] \in {Old, NoFile}
      BY DEF Init
    <3>2. CASE destLink[x] = NoFile
      BY <3>2 DEF BodyAt
    <3>3. CASE destLink[x] = Old
      <4>1. IsWhole(Old)
        BY <2>2 DEF IsWhole
      <4>2. BodyAt(x) = WholeBody(Old)[1]
        BY <2>2, <3>3, <4>1, DownloadAssumption DEF BodyAt
      <4>3. WholeBody(Old)[1] = Old
        BY DownloadAssumption DEF WholeBody
      <4> QED
        BY <4>2, <4>3
    <3> QED
      BY <3>1, <3>2, <3>3
  <2>4. Installed \in [Dests -> {Old, NoFile}]
    BY <2>3 DEF Installed
  <2> QED
    BY <2>1, <2>4 DEF Init, Abstract!Init
<1>4. TypeOK /\ FileInv /\ [Next]_vars => [Abstract!Next]_(Abstract!vars)
  <2> SUFFICES ASSUME TypeOK, FileInv, [Next]_vars, ~MayFail("flush")
               PROVE  [Abstract!Next]_(Abstract!vars)
    <3> SUFFICES ASSUME [Next]_vars, MayFail("flush")
                 PROVE  UNCHANGED Abstract!vars
      OBVIOUS
    <3>1. MayFail("flush")' /\ UNCHANGED target
      BY SettledStep DEF MayFail
    <3>2. /\ Outcome = [d \in Downloads |-> "pending"]
          /\ Outcome' = [d \in Downloads |-> "pending"]
      BY <3>1 DEF Outcome
    <3>3. /\ Installed = [x \in Dests |-> NoFile]
          /\ Installed' = [x \in Dests |-> NoFile]
      BY <3>1 DEF Installed
    <3> QED
      BY <3>1, <3>2, <3>3 DEF Abstract!vars
  <2>10. UNCHANGED <<faults, target>> /\ ~MayFail("flush")'
    BY SettledStep DEF MayFail
  <2>11. /\ Outcome = [d \in Downloads |->
               IF pc[d] \in {"ok", "failed", "crashed"} THEN pc[d]
               ELSE "pending"]
        /\ Outcome' = [d \in Downloads |->
               IF pc'[d] \in {"ok", "failed", "crashed"} THEN pc'[d]
               ELSE "pending"]
    BY <2>10 DEF Outcome
  <2>12. /\ Installed = [x \in Dests |-> BodyAt(x)]
        /\ Installed' = [x \in Dests |-> BodyAt(x)']
    BY <2>10 DEF Installed
  <2>1. ASSUME NEW d \in Downloads, Rename(d)
        PROVE  Abstract!Install(d)
    <3>1. Outcome[d] = "pending" /\ target[d] \in Dests
      BY <2>1, <2>11 DEF Rename, TypeOK
    <3>2. Outcome' = [Outcome EXCEPT ![d] = "ok"]
      BY <2>1, <2>11 DEF Rename, Goto, TypeOK
    <3>3. Installed' = [Installed EXCEPT ![target[d]] = d]
      <4>1. BodyAt(target[d])' = d
        BY <2>1, RenameStep, Exclusive
      <4>2. \A x \in Dests : x # target[d] => BodyAt(x)' = BodyAt(x)
        BY <2>1, RenameStep, Exclusive
      <4>3. UNCHANGED target
        BY <2>1 DEF Rename
      <4>4. \A x \in Dests :
                BodyAt(x)' = IF x = target[d] THEN d ELSE BodyAt(x)
        <5> TAKE x \in Dests
        <5>1. CASE x = target[d]
          BY <4>1, <4>3, <5>1
        <5>2. CASE x # target[d]
          BY <4>2, <5>2
        <5> QED
          BY <5>1, <5>2
      <4> QED
        BY <2>12, <4>4
    <3>4. UNCHANGED target
      BY <2>1 DEF Rename
    <3> QED
      BY <3>1, <3>2, <3>3, <3>4 DEF Abstract!Install
  <2>2. ASSUME NEW d \in Downloads, NEW l \in Locations \ {"ok"},
               \A x \in Dests : BodyAt(x)' = BodyAt(x),
               UNCHANGED target,
               pc' = [pc EXCEPT ![d] = l],
               pc[d] \notin {"ok", "failed", "crashed"}
        PROVE  Abstract!GiveUp(d) \/ UNCHANGED Abstract!vars
    <3>1. Installed' = Installed
      BY <2>2, <2>12
    <3>2. CASE l \in {"failed", "crashed"}
      <4>1. Outcome[d] = "pending"
        BY <2>2, <2>11
      <4>2. Outcome' = [Outcome EXCEPT ![d] = l]
        BY <2>2, <3>2, <2>11 DEF TypeOK
      <4> QED
        BY <2>2, <3>1, <3>2, <4>1, <4>2 DEF Abstract!GiveUp
    <3>3. CASE l \notin {"failed", "crashed"}
      <4>1. Outcome' = Outcome
        BY <2>2, <3>3, <2>11 DEF TypeOK
      <4> QED
        BY <2>2, <3>1, <4>1 DEF Abstract!vars
    <3> QED
      BY <3>2, <3>3
  <2>3. ASSUME \A x \in Dests : BodyAt(x)' = BodyAt(x),
               UNCHANGED <<target, pc>>
        PROVE  UNCHANGED Abstract!vars
    BY <2>3, <2>11, <2>12 DEF Abstract!vars
  <2>4. CASE Next
    <3>1. PICK d \in Downloads : Step(d)
      BY <2>4 DEF Next
    <3>2. CASE Rename(d)
      BY <2>1, <3>2 DEF Abstract!Next
    <3>3. CASE ~Rename(d)
      BY <2>2, <2>3, <3>1, <3>3, DownloadStep, Exclusive
      DEF Abstract!Next
    <3> QED
      BY <3>2, <3>3
  <2>5. CASE UNCHANGED vars
    BY <2>3, <2>5 DEF vars, BodyAt, IsWhole
  <2> QED
    BY <2>4, <2>5
<1> QED
    BY <1>1, <1>2, <1>3, <1>4, PTL DEF Spec, Implements, Abstract!Spec

-----------------------------------------------------------------------------

(* What a reader finds at a destination changes only in the step in which a *)
(* download to it reports success, whatever fails around it, also unseen.    *)
THEOREM ChangesOnSuccess ==
    ASSUME Exclusive
    PROVE  Spec => OnlySuccessChangesDest
<1> DEFINE Announced ==
        \A x \in Dests :
            BodyAt(x)' # BodyAt(x) =>
                \E d \in Downloads :
                    target[d] = x /\ pc[d] # "ok" /\ pc'[d] = "ok"
<1>1. Init => TypeOK /\ FileInv
    BY TypeInit, FileInit
<1>2. TypeOK /\ FileInv /\ [Next]_vars => (TypeOK /\ FileInv)'
    BY TypeStep, FileStep, Exclusive
<1>3. TypeOK /\ FileInv /\ [Next]_vars => [Announced]_vars
  <2> SUFFICES ASSUME TypeOK, FileInv, Next
               PROVE  Announced
    OBVIOUS
  <2>1. PICK d \in Downloads : Step(d)
    BY DEF Next
  <2>2. CASE Rename(d)
    <3>1. \A x \in Dests : x # target[d] => BodyAt(x)' = BodyAt(x)
      BY <2>2, RenameStep, Exclusive
    <3>2. pc[d] # "ok" /\ pc'[d] = "ok"
      BY <2>2 DEF Rename, Goto, TypeOK
    <3> QED
      BY <3>1, <3>2
  <2>3. CASE ~Rename(d)
    BY <2>1, <2>3, DownloadStep, Exclusive
  <2> QED
    BY <2>2, <2>3
<1> QED
    BY <1>1, <1>2, <1>3, PTL DEF Spec, OnlySuccessChangesDest

(* No temporary file survives the call that opened it, whatever else goes   *)
(* wrong and whether or not downloads share their destination, as long as   *)
(* a file can be removed.                                                   *)
THEOREM NothingTemporaryLeft == Spec => CleansUp
<1> DEFINE Clean ==
        \A d \in Downloads :
            pc[d] \in Working /\ pc'[d] \in {"ok", "failed"}
                => MayFail("remove") \/ partLink'[target[d]] = NoFile
<1>1. TypeOK /\ [Next]_vars => [Clean]_vars
  <2> SUFFICES ASSUME TypeOK, Next, NEW d \in Downloads,
                      pc[d] \in Working, pc'[d] \in {"ok", "failed"}
               PROVE  MayFail("remove") \/ partLink'[target[d]] = NoFile
    OBVIOUS
  <2>1. PICK e \in Downloads : Step(e)
    BY DEF Next
  <2>2. CASE Rename(e) \/ Remove(e)
    BY <2>2 DEF Rename, Remove, Goto, TypeOK, Working
  <2>3. CASE RemoveFails(e)
    BY <2>3 DEF RemoveFails, MayFail
  <2>4. CASE \/ Fetch(e) \/ FetchFails(e) \/ Open(e) \/ OpenFails(e)
             \/ WriteChunk(e) \/ WriteReturns(e) \/ WriteFails(e)
             \/ Close(e) \/ FlushFails(e) \/ RenameFails(e) \/ Crash(e)
    BY <2>4
    DEF Fetch, FetchFails, Open, OpenFails, WriteChunk, WriteReturns,
        WriteFails, Close, FlushFails, RenameFails, Crash, Goto, TypeOK,
        Working
  <2> QED
    BY <2>1, <2>2, <2>3, <2>4 DEF Step
<1> QED
    BY <1>1, TypeInit, TypeStep, PTL DEF Spec, CleansUp

=============================================================================
