----------------------------- MODULE EicarCliProofs -----------------------------
(***************************************************************************)
(* Machine-checked proofs about vtapi_eicar, for command lines of any      *)
(* length and files that change any number of times.                       *)
(***************************************************************************)
EXTENDS EicarCli, EndpointsProofs

\* The steps of the method behind each command.
LEMMA CommandSteps ==
    /\ Steps[Method["report"]] = <<"check", "wait", "GET", "lenient">>
    /\ Steps[Method["scan-file"]] = <<"check", "wait", "POST", "lenient">>
    /\ Steps[Method["scan-large-file"]]
           = <<"check", "wait", "GET", "string", "wait", "POST", "lenient">>
<1>1. /\ Method["report"] = "get_file_report"
      /\ Method["scan-file"] = "scan_file"
      /\ Method["scan-large-file"] = "scan_large_file"
    BY DEF Method, Commands
<1> QED
    BY <1>1, RowsOfCallees DEF Guarded, Upload

-----------------------------------------------------------------------------

(* Every step keeps the types.                                              *)
LEMMA TypeInit == Init => TypeOK
<1> SUFFICES ASSUME Init
             PROVE  TypeOK
    OBVIOUS
<1>1. "empty" \in Arguments
    BY DEF Arguments, Words
<1>2. /\ file \in 0..MaxVersions /\ 0 \in 0..MaxArgs
      /\ 0 \in (-MaxVersions)..MaxVersions
    BY CliAssumption DEF Init
<1> QED
    BY <1>1, <1>2 DEF Init, TypeOK

LEMMA TypeStep ==
    ASSUME TypeOK, CliInv, [Next]_vars
    PROVE  TypeOK'
<1> USE CliAssumption
    DEF TypeOK, args, disk, client, Exit, Reads
<1>2. Words \subseteq Arguments /\ Options \subseteq Arguments
    BY DEF Arguments
<1>3. CASE Touch
    BY <1>3 DEF Touch
<1>4. CASE TakeOption \/ TakeFlag \/ RefuseOption
    BY <1>4 DEF TakeOption, TakeFlag, RefuseOption
<1>5. CASE TakeValue
    BY <1>5 DEF TakeValue
<1>6. CASE TakeCommand \/ EndOfOptions
    BY <1>6 DEF TakeCommand, EndOfOptions
<1>7. CASE Dispatch
    BY <1>7 DEF Dispatch, Arguments, Words
<1>8. CASE TakeArgument
  <2>1. ArgumentOptions(command) \subseteq {"--hash", "--path", "--password"}
    BY DEF ArgumentOptions
  <2> QED
    BY <1>8, <2>1 DEF TakeArgument
<1>9. CASE TakeSubject
    BY <1>9 DEF TakeSubject
<1>10. CASE EndOfArguments
    BY <1>10 DEF EndOfArguments
<1>11. CASE Construct
    BY <1>11 DEF Construct
<1>12. CASE Open \/ ReadEndsEarly
    BY <1>12 DEF Open, ReadEndsEarly, CliInv, PhaseInv, Unsent
<1>13. CASE \/ OpenFails \/ ReadThrows \/ HashFile
             \/ HashFails \/ HashThrows \/ HashEndsEarly \/ DigestFails
    BY <1>13
    DEF OpenFails, ReadThrows, HashFile, HashFails, HashThrows, HashEndsEarly,
        DigestFails
<1>14. CASE Check \/ Wait \/ DecodeValue \/ MethodReturns
    BY <1>14 DEF Check, Wait, DecodeValue, MethodReturns, At, Continue
<1>15. CASE DecodeThrows
  <2>1. \A exception : ExitCode(exception) \in {"0", "1", "abort"}
    BY DEF ExitCode
  <2> QED
    BY <1>15, <2>1 DEF DecodeThrows, At
<1>16. CASE Answered
    BY <1>16 DEF Answered, Accepts, At, Continue
<1>17. CASE Unanswered
    BY <1>17 DEF Unanswered, Accepts, At
<1>18. CASE UNCHANGED vars
    BY <1>18 DEF vars
<1> QED
    BY <1>3, <1>4, <1>5, <1>6, <1>7, <1>8, <1>9, <1>10, <1>11, <1>12, <1>13,
       <1>14, <1>15, <1>16, <1>17, <1>18
    DEF Next, Compute, Transfer

-----------------------------------------------------------------------------

(* Nothing has been done at first.                                          *)
LEMMA CliStart == Init => CliInv
    BY DEF Init, CliInv, PhaseInv, FileInv, ReportInv, ScanInv, LargeScanInv,
       ExitCodesMean, PrintedIsUploaded, SuccessIsReported, Unsent

\* While arguments are read nothing is sent, and what ends the program there
\* is a usage error or "version".
LEMMA ArgumentStep ==
    ASSUME CliInv,
           pc \in {"options", "main", "arguments"},
           pc' \in {"options", "main", "arguments", "construct", "done"},
           UNCHANGED <<disk, client, printed>>,
           pc' \in {"arguments", "construct"} =>
               command' \in {"report", "scan-file", "scan-large-file"},
           \/ exit' \in {"running", "2"}
           \/ exit' = "0" /\ command' = "version"
    PROVE  CliInv'
<1> USE DEF CliInv, PhaseInv, Unsent, disk, client
<1>1. /\ status' = -1 /\ sent' = 0 /\ held' = 0 /\ printed' = 0
      /\ pc' \notin {"open", "call", "hash"}
    OBVIOUS
<1>2. PhaseInv'
    BY <1>1
<1>3. FileInv'
    BY DEF FileInv
<1>4. ReportInv' /\ ScanInv' /\ LargeScanInv'
    BY <1>1 DEF ReportInv, ScanInv, LargeScanInv
<1>5. ExitCodesMean' /\ PrintedIsUploaded' /\ SuccessIsReported'
    BY <1>1 DEF ExitCodesMean, PrintedIsUploaded, SuccessIsReported, Success
<1> QED
    BY <1>2, <1>3, <1>4, <1>5

\* A method's row is entered, or the file is read first.
LEMMA StartStep ==
    ASSUME TypeOK, CliInv,
           Construct \/ Open \/ ReadEndsEarly \/ OpenFails \/ ReadThrows
    PROVE  CliInv'
<1> USE DEF CliInv, PhaseInv, Unsent, args, disk, client, Exit
<1>1. CASE Construct
  <2>1. /\ status' = -1 /\ sent' = 0 /\ held' = 0 /\ printed' = 0
        /\ UNCHANGED <<command, file, touched>>
        /\ command \in {"report", "scan-file", "scan-large-file"}
        /\ \/ pc' = "done" /\ exit' = "1"
           \/ pc' = "call" /\ command = "report" /\ exit' = exit
           \/ pc' = "open" /\ command # "report" /\ exit' = exit
        /\ todo' = Steps[Method[command]]
        /\ exit = "running" /\ ~touched'
    BY <1>1 DEF Construct, TypeOK, FileInv
  <2>2. PhaseInv'
    BY <2>1
  <2>5. FileInv'
    BY <2>1 DEF FileInv
  <2>3. ReportInv' /\ ScanInv' /\ LargeScanInv'
    BY <2>1, CommandSteps DEF ReportInv, ScanInv, LargeScanInv
  <2>4. ExitCodesMean' /\ PrintedIsUploaded' /\ SuccessIsReported'
    BY <2>1 DEF ExitCodesMean, PrintedIsUploaded, SuccessIsReported, Success
  <2> QED
    BY <2>2, <2>5, <2>3, <2>4
<1>2. CASE Open \/ ReadEndsEarly
  <2>1. /\ status' = -1 /\ sent' = 0 /\ held' \in {file, -file} /\ printed' = 0
        /\ UNCHANGED <<command, file, touched, todo, exit>>
        /\ command \in {"scan-file", "scan-large-file"}
        /\ pc' = "call" /\ file \in Nat /\ file # 0 /\ ~touched /\ exit = "running"
        /\ todo = Steps[Method[command]]
    BY <1>2, CliAssumption DEF Open, ReadEndsEarly, TypeOK, FileInv
  <2>2. PhaseInv' /\ FileInv'
    BY <2>1 DEF FileInv
  <2>3. ReportInv' /\ ScanInv' /\ LargeScanInv'
    BY <2>1, CommandSteps DEF ReportInv, ScanInv, LargeScanInv
  <2>4. ExitCodesMean' /\ PrintedIsUploaded' /\ SuccessIsReported'
    BY <2>1 DEF ExitCodesMean, PrintedIsUploaded, SuccessIsReported, Success
  <2> QED
    BY <2>2, <2>3, <2>4
<1>3. CASE OpenFails \/ ReadThrows
  <2>1. /\ status' = -1 /\ sent' = 0 /\ held' = 0 /\ printed' = 0
        /\ UNCHANGED <<file, touched, command>>
        /\ pc' = "done" /\ exit' \in {"1", "abort"} /\ ~touched'
    BY <1>3 DEF OpenFails, ReadThrows, FileInv
  <2>2. PhaseInv'
    BY <2>1
  <2>3. FileInv'
    BY <2>1 DEF FileInv
  <2>4. ReportInv' /\ ScanInv' /\ LargeScanInv'
    BY <2>1 DEF ReportInv, ScanInv, LargeScanInv
  <2>5. ExitCodesMean' /\ PrintedIsUploaded' /\ SuccessIsReported'
    BY <2>1 DEF ExitCodesMean, PrintedIsUploaded, SuccessIsReported, Success
  <2> QED
    BY <2>2, <2>3, <2>4, <2>5
<1> QED
    BY <1>1, <1>2, <1>3

\* Once the program has ended only the last three parts of the invariant say
\* anything but that a hash is printed at the end.
LEMMA EndStep ==
    ASSUME CliInv, pc \in {"call", "hash"}, pc' = "done",
           UNCHANGED <<command, file, touched, held>>,
           ExitCodesMean', PrintedIsUploaded', SuccessIsReported'
    PROVE  CliInv'
<1>1. PhaseInv'
    BY DEF CliInv, PhaseInv
<1>2. FileInv'
    BY DEF CliInv, FileInv
<1>3. ReportInv' /\ ScanInv' /\ LargeScanInv'
    BY DEF ReportInv, ScanInv, LargeScanInv
<1> QED
    BY <1>1, <1>2, <1>3 DEF CliInv

\* While the method runs nothing is printed, and the file stays what it is.
LEMMA CallStep ==
    ASSUME TypeOK, CliInv, pc = "call", pc' = "call",
           UNCHANGED <<args, disk, held, printed, exit>>,
           ReportInv', ScanInv', LargeScanInv'
    PROVE  CliInv'
<1> USE DEF CliInv, args, disk
<1>1. exit' = "running" /\ printed' = 0
    BY DEF TypeOK, PhaseInv
<1>2. PhaseInv'
    BY <1>1 DEF PhaseInv, Unsent
<1>3. FileInv'
    BY DEF FileInv
<1>4. ExitCodesMean' /\ PrintedIsUploaded' /\ SuccessIsReported'
    BY <1>1 DEF ExitCodesMean, PrintedIsUploaded, SuccessIsReported
<1> QED
    BY <1>2, <1>3, <1>4

\* The steps that leave what was sent and answered as it is and go on.
LEMMA GoOn ==
    ASSUME TypeOK, CliInv, pc = "call", todo # <<>>,
           \/ Head(todo) \in {"check", "wait"}
           \/ Head(todo) \in Decoders /\ status \in Success,
           Continue,
           UNCHANGED <<args, disk, held, reply, sent, status, printed>>
    PROVE  CliInv'
<1>1. /\ pc' = "call" /\ todo' = Tail(todo)
      /\ UNCHANGED <<command, held, reply, sent, status, exit>>
    BY DEF Continue, args
<1>2. ASSUME command = "report"
      PROVE  ReportInv'
  <2>1. CASE todo = <<"check", "wait", "GET", "lenient">> /\ Unsent
    BY <1>1, <2>1 DEF ReportInv, Unsent
  <2>2. CASE todo = <<"wait", "GET", "lenient">> /\ Unsent
    BY <1>1, <2>2 DEF ReportInv, Unsent
  <2>3. CASE todo = <<"GET", "lenient">>
    BY <2>3 DEF Decoders
  <2>4. CASE todo = <<"lenient">>
    BY <1>1, <2>4 DEF ReportInv, Decoders
  <2> QED
    BY <1>2, <2>1, <2>2, <2>3, <2>4 DEF CliInv, ReportInv
<1>3. ASSUME command = "scan-file"
      PROVE  ScanInv'
  <2>1. CASE todo = <<"check", "wait", "POST", "lenient">> /\ Unsent
    BY <1>1, <2>1 DEF ScanInv, Unsent
  <2>2. CASE todo = <<"wait", "POST", "lenient">> /\ Unsent
    BY <1>1, <2>2 DEF ScanInv, Unsent
  <2>3. CASE todo = <<"POST", "lenient">>
    BY <2>3 DEF Decoders
  <2>4. CASE todo = <<"lenient">> /\ (status \in Success => Accepted)
    BY <1>1, <2>4 DEF ScanInv, Decoders, Accepted
  <2> QED
    BY <1>3, <2>1, <2>2, <2>3, <2>4 DEF CliInv, ScanInv
<1>4. ASSUME command = "scan-large-file"
      PROVE  LargeScanInv'
  <2>1. CASE /\ todo = <<"check", "wait", "GET", "string", "wait", "POST",
                         "lenient">>
             /\ Unsent
    BY <1>1, <2>1 DEF LargeScanInv, Unsent
  <2>2. CASE /\ todo = <<"wait", "GET", "string", "wait", "POST", "lenient">>
             /\ Unsent
    BY <1>1, <2>2 DEF LargeScanInv, Unsent
  <2>3. CASE \/ todo = <<"GET", "string", "wait", "POST", "lenient">>
             \/ todo = <<"POST", "lenient">>
    BY <2>3 DEF Decoders
  <2>4. CASE todo = <<"string", "wait", "POST", "lenient">> /\ sent = 0
    BY <1>1, <2>4 DEF LargeScanInv, Decoders
  <2>5. CASE todo = <<"wait", "POST", "lenient">> /\ status \in Success /\ sent = 0
    BY <1>1, <2>5 DEF LargeScanInv
  <2>6. CASE todo = <<"lenient">> /\ (status \in Success => Accepted)
    BY <1>1, <2>6 DEF LargeScanInv, Decoders, Accepted
  <2> QED
    BY <1>4, <2>1, <2>2, <2>3, <2>4, <2>5, <2>6 DEF CliInv, LargeScanInv
<1> QED
    BY <1>1, <1>2, <1>3, <1>4, CallStep
    DEF ReportInv, ScanInv, LargeScanInv

\* Where the method is tells what has been sent and answered.
LEMMA CallFacts ==
    ASSUME CliInv, pc = "call"
    PROVE  /\ command \in {"report", "scan-file", "scan-large-file"}
           /\ todo = <<>> =>
                  status \in Success /\ (command # "report" => Accepted)
           /\ todo # <<>> /\ Head(todo) \in {"check"} => Unsent
           /\ todo # <<>> /\ Head(todo) \in Verbs =>
                  /\ sent = 0
                  /\ \/ command = "report" /\ todo = <<"GET", "lenient">>
                     \/ command = "scan-file" /\ todo = <<"POST", "lenient">>
                     \/ /\ command = "scan-large-file"
                        /\ todo \in {<<"GET", "string", "wait", "POST", "lenient">>,
                                     <<"POST", "lenient">>}
           /\ todo # <<>> /\ Head(todo) \in Decoders =>
                  /\ JustAnswered
                  /\ \/ /\ Head(todo) = "lenient"
                        /\ command # "report" /\ status \in Success => Accepted
                     \/ command = "scan-large-file" /\ sent = 0
<1> USE DEF CliInv, Verbs, Decoders, Unsent
<1>1. command \in {"report", "scan-file", "scan-large-file"}
    BY DEF PhaseInv
<1>2. CASE command = "report"
  <2>1. CASE todo \in {<<"check", "wait", "GET", "lenient">>,
                       <<"wait", "GET", "lenient">>, <<"GET", "lenient">>}
    BY <1>2, <2>1 DEF ReportInv
  <2>2. CASE todo \in {<<"lenient">>, <<>>}
    <3>1. CASE todo = <<"lenient">>
      BY <1>2, <3>1 DEF ReportInv
    <3>2. CASE todo = <<>>
      <4>1. status \in Success
        BY <1>2, <3>2 DEF ReportInv
      <4> QED
        BY <1>1, <1>2, <3>2, <4>1
    <3> QED
      BY ONLY <2>2, <3>1, <3>2
  <2>3. \/ todo \in {<<"check", "wait", "GET", "lenient">>,
                     <<"wait", "GET", "lenient">>, <<"GET", "lenient">>}
        \/ todo \in {<<"lenient">>, <<>>}
    BY <1>2 DEF ReportInv
  <2> QED
    BY ONLY <2>1, <2>2, <2>3
<1>3. CASE command = "scan-file"
  <2>1. CASE todo \in {<<"check", "wait", "POST", "lenient">>,
                       <<"wait", "POST", "lenient">>, <<"POST", "lenient">>}
    BY <1>3, <2>1 DEF ScanInv
  <2>2. CASE todo = <<"lenient">>
    BY <1>3, <2>2 DEF ScanInv
  <2>3. CASE todo = <<>>
    <3>1. /\ Len(<<>>) = 0 /\ Len(<<"lenient">>) = 1
          /\ Len(<<"POST", "lenient">>) = 2
          /\ Len(<<"wait", "POST", "lenient">>) = 3
          /\ Len(<<"check", "wait", "POST", "lenient">>) = 4
      OBVIOUS
    <3>2. Accepted
      BY <1>3, <2>3, <3>1 DEF ScanInv
    <3> QED
      BY <1>3, <2>3, <3>2 DEF Accepted
  <2> QED
    BY <1>3, <2>1, <2>2, <2>3 DEF ScanInv
<1>4. CASE command = "scan-large-file"
  <2>1. CASE todo \in {<<"check", "wait", "GET", "string", "wait", "POST",
                         "lenient">>,
                       <<"wait", "GET", "string", "wait", "POST", "lenient">>,
                       <<"GET", "string", "wait", "POST", "lenient">>}
    BY <1>4, <2>1 DEF LargeScanInv
  <2>2. CASE todo = <<"string", "wait", "POST", "lenient">>
    BY <1>4, <2>2 DEF LargeScanInv
  <2>3. CASE todo = <<"wait", "POST", "lenient">>
    BY <1>4, <2>3 DEF LargeScanInv
  <2>4. CASE todo = <<"POST", "lenient">>
    BY <1>4, <2>4 DEF LargeScanInv
  <2>5. CASE todo = <<"lenient">>
    BY <1>4, <2>5 DEF LargeScanInv
  <2>6. CASE todo = <<>>
    <3>1. Accepted
      BY <1>4, <2>6 DEF LargeScanInv
    <3> QED
      BY <1>4, <2>6, <3>1 DEF Accepted
  <2> QED
    BY <1>4, <2>1, <2>2, <2>3, <2>4, <2>5, <2>6 DEF LargeScanInv
<1> QED
    BY <1>1, <1>2, <1>3, <1>4

-----------------------------------------------------------------------------

\* What the reading of the command line does to the invariant.
LEMMA ArgumentsStep ==
    ASSUME TypeOK, CliInv,
           \/ TakeOption \/ TakeFlag \/ TakeValue \/ RefuseOption \/ TakeCommand
           \/ EndOfOptions \/ Dispatch
           \/ TakeArgument \/ TakeSubject \/ EndOfArguments
    PROVE  CliInv'
<1>0. /\ exit \in {"running", "0", "1", "2", "abort"}
      /\ pc # "done" => exit = "running"
    BY DEF TypeOK
<1> USE DEF args, disk, client, Exit, Reads
<1>1. pc = "arguments" => command \in {"report", "scan-file", "scan-large-file"}
    BY DEF CliInv, PhaseInv
<1> DEFINE Read ==
        /\ pc \in {"options", "main", "arguments"}
        /\ pc' \in {"options", "main", "arguments", "construct", "done"}
        /\ UNCHANGED <<disk, client, printed>>
        /\ pc' \in {"arguments", "construct"} =>
               command' \in {"report", "scan-file", "scan-large-file"}
        /\ \/ exit' \in {"running", "2"}
           \/ exit' = "0" /\ command' = "version"
<1>2. CASE TakeOption \/ TakeFlag \/ RefuseOption \/ TakeCommand \/ EndOfOptions
  <2> Read
    BY <1>0, <1>2 DEF TakeOption, TakeFlag, RefuseOption, TakeCommand, EndOfOptions
  <2> QED
    BY ArgumentStep
<1>3. CASE TakeValue
  <2> Read
    BY <1>0, <1>3 DEF TakeValue
  <2> QED
    BY ArgumentStep
<1>4. CASE Dispatch
  <2> Read
    BY <1>0, <1>4 DEF Dispatch, Commands
  <2> QED
    BY ArgumentStep
<1>5. CASE TakeArgument \/ TakeSubject \/ EndOfArguments
  <2> Read
    BY <1>0, <1>1, <1>5 DEF TakeArgument, TakeSubject, EndOfArguments
  <2> QED
    BY ArgumentStep
<1> QED
    BY <1>2, <1>3, <1>4, <1>5

\* An exchange: an upload that is answered by a success has been accepted.
LEMMA AnsweredStep ==
    ASSUME TypeOK, CliInv, Answered
    PROVE  CliInv'
<1>1. PICK r \in Replies, accepted \in BOOLEAN :
          /\ r.status \in Success \cup {202} /\ Head(todo) = "POST" => accepted
          /\ Accepts(Head(todo), accepted)
          /\ reply' = r
          /\ status' = r.status
    BY DEF Answered
<1>2. /\ pc = "call" /\ pc' = "call" /\ todo # <<>> /\ Head(todo) \in Verbs
      /\ todo' = Tail(todo) /\ held' = held /\ command' = command
      /\ UNCHANGED <<args, disk, held, printed, exit>>
    BY DEF Answered, At, Continue, args
<1>3. JustAnswered'
    BY <1>1 DEF JustAnswered
<1>4. /\ Head(todo) = "GET" => sent' = sent
      /\ Head(todo) = "POST" /\ status' \in Success => sent' = held
    BY <1>1 DEF Accepts
<1>5. CASE command = "report" /\ todo = <<"GET", "lenient">>
  <2>1. todo' = <<"lenient">>
    BY <1>2, <1>5
  <2> QED
    BY <1>2, <1>3, <1>5, <2>1, CallStep DEF ReportInv, ScanInv, LargeScanInv
<1>6. CASE command = "scan-file" /\ todo = <<"POST", "lenient">>
  <2>1. todo' = <<"lenient">> /\ (status' \in Success => Accepted')
    BY <1>2, <1>4, <1>6 DEF Accepted
  <2> QED
    BY <1>2, <1>3, <1>6, <2>1, CallStep DEF ReportInv, ScanInv, LargeScanInv
<1>7. CASE /\ command = "scan-large-file"
           /\ todo = <<"GET", "string", "wait", "POST", "lenient">>
           /\ sent = 0
  <2>1. todo' = <<"string", "wait", "POST", "lenient">> /\ sent' = 0
    BY <1>2, <1>4, <1>7
  <2> QED
    BY <1>2, <1>3, <1>7, <2>1, CallStep DEF ReportInv, ScanInv, LargeScanInv
<1>8. CASE command = "scan-large-file" /\ todo = <<"POST", "lenient">>
  <2>1. todo' = <<"lenient">> /\ (status' \in Success => Accepted')
    BY <1>2, <1>4, <1>8 DEF Accepted
  <2> QED
    BY <1>2, <1>3, <1>8, <2>1, CallStep DEF ReportInv, ScanInv, LargeScanInv
<1> QED
    BY <1>2, <1>5, <1>6, <1>7, <1>8, CallFacts

\* The decoder's exception, and the exit code it comes to.
LEMMA ThrowsStep ==
    ASSUME TypeOK, CliInv, DecodeThrows
    PROVE  CliInv'
<1>1. /\ pc = "call" /\ todo # <<>> /\ Head(todo) \in Decoders
      /\ pc' = "done"
      /\ UNCHANGED <<command, file, touched, held, todo, sent, status, printed>>
    BY DEF DecodeThrows, At, Exit, args, disk, client
<1>2. PICK exception \in Decoded(Head(todo), reply) \ {"value"} :
          exit' = ExitCode(exception)
    BY DEF DecodeThrows, Exit
<1>3. printed = 0
    BY <1>1 DEF CliInv, PhaseInv
<1>4. /\ JustAnswered
      /\ \/ Head(todo) = "lenient"
         \/ command = "scan-large-file" /\ sent = 0
    BY <1>1, CallFacts
<1>5. exit' \in {"0", "1", "abort"}
    BY <1>2 DEF ExitCode
<1>6. CASE status \in Success
  <2>1. /\ exception \in {"VtError", "json::type_error"}
        /\ Head(todo) # "lenient"
    BY <1>1, <1>2, <1>4, <1>6, DecodedFacts DEF JustAnswered, Lenient
  <2>2. exit' # "0"
    BY <1>2, <2>1 DEF ExitCode
  <2> QED
    BY <1>1, <1>3, <1>4, <1>5, <2>1, <2>2, EndStep
    DEF ExitCodesMean, PrintedIsUploaded, SuccessIsReported
<1>7. CASE status \notin Success
  <2>1. exception = "NotFound" <=> status = 404
    BY <1>1, <1>2, <1>4, <1>7, DecodedFacts DEF JustAnswered
  <2>2. exit' = "0" => command = "report" /\ status = 404
    BY <1>2, <2>1 DEF ExitCode
  <2> QED
    BY <1>1, <1>3, <1>5, <1>7, <2>2, EndStep
    DEF ExitCodesMean, PrintedIsUploaded, SuccessIsReported
<1> QED
    BY <1>6, <1>7

\* The end of the method, and the hash of the file.
LEMMA HashStep ==
    ASSUME TypeOK, CliInv,
           \/ MethodReturns \/ HashFile \/ HashEndsEarly
           \/ HashFails \/ HashThrows \/ DigestFails
    PROVE  CliInv'
<1> USE DEF args, disk, client, Exit
<1>1. CASE MethodReturns
  <2>1. /\ pc = "call" /\ todo = <<>> /\ exit = "running" /\ printed = 0
        /\ UNCHANGED <<command, file, touched, held, todo, sent, status, printed>>
    BY <1>1 DEF MethodReturns, TypeOK, CliInv, PhaseInv
  <2>2. status \in Success /\ (command # "report" => Accepted)
    BY <2>1, CallFacts
  <2>3. CASE command = "report"
    BY <1>1, <2>1, <2>2, <2>3, EndStep
    DEF MethodReturns, ExitCodesMean, PrintedIsUploaded, SuccessIsReported
  <2>4. CASE command # "report"
    <3>1. pc' = "hash" /\ exit' = "running"
      BY <1>1, <2>1, <2>4 DEF MethodReturns
    <3>2. PhaseInv'
      BY <2>1, <2>2, <2>4, <3>1 DEF CliInv, PhaseInv, Accepted
    <3>3. FileInv'
      BY <2>1 DEF CliInv, FileInv
    <3>4. ReportInv' /\ ScanInv' /\ LargeScanInv'
      BY <3>1 DEF ReportInv, ScanInv, LargeScanInv
    <3>5. ExitCodesMean' /\ PrintedIsUploaded' /\ SuccessIsReported'
      BY <2>1, <3>1 DEF ExitCodesMean, PrintedIsUploaded, SuccessIsReported
    <3> QED
      BY <3>2, <3>3, <3>4, <3>5 DEF CliInv
  <2> QED
    BY <2>3, <2>4
<1>2. CASE \/ HashFile \/ HashEndsEarly
           \/ HashFails \/ HashThrows \/ DigestFails
  <2>1. /\ pc = "hash" /\ pc' = "done" /\ printed = 0
        /\ command # "report" /\ Accepted /\ held # 0 /\ todo = <<>>
        /\ UNCHANGED <<command, file, touched, held, todo, sent, status>>
        /\ file \in Nat /\ held \in Int
        /\ \/ exit' = "0" /\ printed' \in {file, -file} /\ file # 0
           \/ exit' \in {"1", "abort"} /\ printed' = 0
    BY <1>2, CliAssumption
    DEF HashFile, HashEndsEarly, HashFails, HashThrows, DigestFails, TypeOK,
        CliInv, PhaseInv
  <2>2. held > 0 /\ ~touched => file = held
    BY <2>1 DEF CliInv, FileInv
  <2>3. ExitCodesMean' /\ PrintedIsUploaded' /\ SuccessIsReported'
    BY <2>1, <2>2
    DEF Accepted, ExitCodesMean, PrintedIsUploaded, SuccessIsReported
  <2> QED
    BY <2>1, <2>3, EndStep
<1> QED
    BY <1>1, <1>2

(* Every step of the program, and of whoever changes the file, keeps the    *)
(* invariant.                                                               *)
LEMMA CliStep ==
    ASSUME TypeOK, CliInv, [Next]_vars
    PROVE  CliInv'
<1> USE DEF args, disk, client, Exit
<1>1. CASE Touch
  <2>1. /\ printed = 0 /\ exit' = "running" /\ printed' = 0
        /\ UNCHANGED <<pc, command, held, todo, reply, sent, status>>
        /\ touched' = (held # 0)
    BY <1>1 DEF Touch, TypeOK, CliInv, PhaseInv
  <2>2. PhaseInv'
    BY <2>1 DEF CliInv, PhaseInv, Unsent, Accepted
  <2>5. FileInv'
    <3>1. held # 0 => touched'
      BY <2>1
    <3>2. held > 0 => held # 0
      OBVIOUS
    <3>3. held > 0 /\ ~touched' => FALSE
      BY <3>1, <3>2
    <3> QED
      BY <2>1, <3>3 DEF CliInv, FileInv, Unsent, Accepted
  <2>3. ReportInv' /\ ScanInv' /\ LargeScanInv'
    BY <2>1
    DEF CliInv, ReportInv, ScanInv, LargeScanInv, Unsent, Accepted, JustAnswered
  <2>4. ExitCodesMean' /\ PrintedIsUploaded' /\ SuccessIsReported'
    BY <2>1 DEF ExitCodesMean, PrintedIsUploaded, SuccessIsReported
  <2> QED
    BY <2>2, <2>3, <2>4, <2>5 DEF CliInv
<1>2. CASE Check
  <2>1. PICK passed \in BOOLEAN :
            IF passed THEN Continue ELSE Exit("1") /\ UNCHANGED todo
    BY <1>2 DEF Check
  <2>2. /\ pc = "call" /\ todo # <<>> /\ Head(todo) = "check"
        /\ UNCHANGED <<args, disk, held, reply, sent, status, printed>>
    BY <1>2 DEF Check, At
  <2>3. CASE passed
    BY <2>1, <2>2, <2>3, GoOn
  <2>4. CASE ~passed
    <3>1. status = -1 /\ sent = 0 /\ printed = 0
      BY <2>2, CallFacts DEF Unsent, CliInv, PhaseInv
    <3> QED
      BY <2>1, <2>2, <2>4, <3>1, EndStep
      DEF ExitCodesMean, PrintedIsUploaded, SuccessIsReported, Success
  <2> QED
    BY <2>3, <2>4
<1>3. CASE Wait
    BY <1>3, GoOn DEF Wait, At
<1>4. CASE DecodeValue
  <2>1. /\ pc = "call" /\ todo # <<>> /\ Head(todo) \in Decoders /\ Continue
        /\ "value" \in Decoded(Head(todo), reply)
        /\ UNCHANGED <<args, disk, held, reply, sent, status, printed>>
    BY <1>4 DEF DecodeValue, At
  <2>2. JustAnswered
    BY <2>1, CallFacts
  <2>3. status \in Success
    BY <2>1, <2>2, DecodedFacts DEF JustAnswered
  <2> QED
    BY <2>1, <2>3, GoOn
<1>5. CASE Unanswered
  <2>1. /\ pc = "call" /\ pc' = "done" /\ exit' = "1" /\ status' = 0
        /\ UNCHANGED <<command, file, touched, held, printed>>
    BY <1>5 DEF Unanswered, At
  <2>2. printed = 0
    BY <2>1 DEF CliInv, PhaseInv
  <2> QED
    BY <2>1, <2>2, EndStep
    DEF ExitCodesMean, PrintedIsUploaded, SuccessIsReported, Success
<1>6. CASE UNCHANGED vars
    BY <1>6
    DEF vars, CliInv, PhaseInv, FileInv, ReportInv, ScanInv, LargeScanInv,
        ExitCodesMean, PrintedIsUploaded, SuccessIsReported, Unsent, Accepted,
        JustAnswered
<1> QED
    BY <1>1, <1>2, <1>3, <1>4, <1>5, <1>6,
       ArgumentsStep, StartStep, AnsweredStep, ThrowsStep, HashStep
    DEF Next, Compute, Transfer

(* The invariant of the program, from which the four theorems follow.       *)
LEMMA CliSafe == Spec => [](TypeOK /\ CliInv)
<1>1. Init => TypeOK /\ CliInv
    BY TypeInit, CliStart
<1>2. TypeOK /\ CliInv /\ [Next]_vars => (TypeOK /\ CliInv)'
    BY TypeStep, CliStep
<1> QED
    BY <1>1, <1>2, PTL DEF Spec

(* The variables of the program keep their types, whatever it is given.     *)
THEOREM TypeCorrect == Spec => []TypeOK
    BY CliSafe, PTL

(* README.md:156: 0 is for success, 1 for a runtime error, 2 for a usage    *)
(* error: a wrong command line sends nothing and reads no file, and 0 is    *)
(* that of "version", of a report answered by a success or by "never seen", *)
(* or of an upload that was accepted and whose hash is printed.             *)
THEOREM ExitCodesCorrect == Spec => []ExitCodesMean
<1>1. CliInv => ExitCodesMean
    BY DEF CliInv
<1> QED
    BY <1>1, CliSafe, PTL

(* main.cpp:173-175: the sha256 that is printed is that of what was         *)
(* uploaded, unless somebody has changed the file in between or one of its  *)
(* two readings stopped short, unnoticed.                                   *)
THEOREM PrintedHashCorrect == Spec => []PrintedIsUploaded
<1>1. CliInv => PrintedIsUploaded
    BY DEF CliInv
<1> QED
    BY <1>1, CliSafe, PTL

(* A success of the server ends in a failure of the program in two places   *)
(* only: before the upload, for want of an upload URL, and after it, when   *)
(* the file cannot be opened, read and hashed a second time.                *)
THEOREM SuccessReported == Spec => []SuccessIsReported
<1>1. CliInv => SuccessIsReported
    BY DEF CliInv
<1> QED
    BY <1>1, CliSafe, PTL

=============================================================================
