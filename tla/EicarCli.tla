------------------------------- MODULE EicarCli -------------------------------
(***************************************************************************)
(* One run of the demo program vtapi_eicar (src/examples/eicar_cli), from  *)
(* its command line to its exit code.  The methods it calls are rows of    *)
(* Endpoints, what they make of an answer is Responses.                    *)
(*                                                                         *)
(* The command line is chosen argument by argument as the program reads    *)
(* it.  An argument is an option, or one of a few words: "text" is long    *)
(* enough for a key, a well-formed hash and the path of the file; "number" *)
(* and "zero" are numbers, "nan" is one only to std::stod; "empty" is the  *)
(* empty text.  The file is the property of others, who may change or      *)
(* remove it at any time.                                                  *)
(*                                                                         *)
(* A content of the file is the number of its version, negative if the     *)
(* reading stopped short of the end.  A file is read by istreambuf_iterator,*)
(* which leaves the state of its stream alone, so that the tests of the    *)
(* stream after the reading never notice an error of it: with libstdc++    *)
(* the error is an exception, with libc++ and on Windows it is taken for   *)
(* the end of the file.                                                    *)
(***************************************************************************)
EXTENDS Endpoints, Responses

CONSTANTS
    MaxArgs,     \* bound: arguments of the program
    MaxVersions  \* bound: states the file goes through

ASSUME CliAssumption == MaxArgs \in Nat /\ MaxVersions \in Nat \ {0}

Commands == {"version", "report", "scan-file", "scan-large-file"}

Words == Commands \cup {"text", "number", "zero", "nan", "empty"}

\* The options with a value, before the command and after it.
Options == {"--key", "--base-url", "--timeout", "--rpm"}

ArgumentOptions(command) ==
    IF command = "report" THEN {"--hash"} ELSE {"--path", "--password"}

Arguments ==
    Words \cup Options
        \cup {"--no-verify-ssl", "--hash", "--path", "--password", "--other"}

\* The method of VirusTotal behind a command.
Method ==
    [c \in Commands \ {"version"} |->
        CASE c = "report"          -> "get_file_report"
          [] c = "scan-file"       -> "scan_file"
          [] c = "scan-large-file" -> "scan_large_file"]

VARIABLES
    pc,         \* where the program is
    argc,       \* how many arguments it has read
    option,     \* the option whose value comes next, or "none"
    key,        \* api_key
    timeout,    \* CURLOPT_TIMEOUT: "seconds", or "never" for zero and below
    command,    \* the command, or "none"
    subject,    \* hash or path
    file,       \* the version of the file, 0 when there is none
    held,       \* the content scan_file has read, 0 before
    touched,    \* history: the file is not as it was when scan_file read it
    todo,       \* the remaining steps of the method
    reply,      \* the response that waits to be decoded
    sent,       \* history: the content the server has accepted, 0 for none
    status,     \* history: the status of the last exchange, -1 for none
    printed,    \* the content whose sha256 is printed, 0 for none
    exit        \* the exit code, "running", or "abort"

args == <<argc, option, key, timeout, command, subject>>
disk == <<file, touched>>
client == <<held, todo, reply, sent, status>>
vars == <<pc, args, disk, client, printed, exit>>

-----------------------------------------------------------------------------

Init ==
    /\ pc = "options"
    /\ argc = 0 /\ option = "none"
    /\ key = "empty" /\ timeout = "seconds"
    /\ command = "none" /\ subject = "empty"
    /\ file \in 0..1 /\ touched = FALSE
    /\ held = 0 /\ todo = <<>> /\ reply = [status |-> 0, body |-> "none"]
    /\ sent = 0 /\ status = -1
    /\ printed = 0
    /\ exit = "running"

Exit(code) ==
    /\ exit' = code
    /\ pc' = "done"

\* Somebody else replaces or removes the file.
Touch ==
    /\ exit = "running"
    /\ \E version \in {0, file + 1} :
        /\ version <= MaxVersions /\ version # file
        /\ file' = version
    /\ touched' = (held # 0)
    /\ UNCHANGED <<pc, args, client, printed, exit>>

-----------------------------------------------------------------------------

\* The program reads its next argument.
Reads(argument) ==
    /\ argc < MaxArgs
    /\ argument \in Arguments
    /\ argc' = argc + 1

\* parse_options: an option that takes a value.
TakeOption ==
    /\ pc = "options" /\ option = "none"
    /\ \E argument \in Options : Reads(argument) /\ option' = argument
    /\ UNCHANGED <<pc, key, timeout, command, subject, disk, client, printed,
                   exit>>

TakeFlag ==
    /\ pc = "options" /\ option = "none"
    /\ Reads("--no-verify-ssl")
    /\ UNCHANGED <<pc, option, key, timeout, command, subject, disk, client,
                   printed, exit>>

\* What std::stoi and std::stod take.
IsNumber(o, argument) ==
    CASE o = "--timeout" -> argument \in {"number", "zero"}
      [] o = "--rpm"     -> argument \in {"number", "zero", "nan"}
      [] OTHER           -> TRUE

\* The value is whatever comes next, be it an option.
TakeValue ==
    /\ pc = "options" /\ option # "none"
    /\ \E argument \in Arguments :
        /\ Reads(argument)
        /\ IF IsNumber(option, argument) THEN UNCHANGED <<pc, exit>>
           ELSE Exit("2")
        /\ key' = IF option = "--key" THEN argument ELSE key
        /\ timeout' = IF option # "--timeout" THEN timeout
                      ELSE IF argument = "zero" THEN "never" ELSE "seconds"
    /\ option' = "none"
    /\ UNCHANGED <<command, subject, disk, client, printed>>

\* An unknown option, or an empty command.
RefuseOption ==
    /\ pc = "options" /\ option = "none"
    /\ \E argument \in {"--hash", "--path", "--password", "--other", "empty"} :
        Reads(argument)
    /\ Exit("2")
    /\ UNCHANGED <<option, key, timeout, command, subject, disk, client,
                   printed>>

TakeCommand ==
    /\ pc = "options" /\ option = "none"
    /\ \E argument \in Words \ {"empty"} :
        Reads(argument) /\ command' = argument
    /\ pc' = "main"
    /\ UNCHANGED <<option, key, timeout, subject, disk, client, printed, exit>>

\* The command line ends before there is a command.
EndOfOptions ==
    /\ pc = "options"
    /\ Exit("2")
    /\ UNCHANGED <<args, disk, client, printed>>

\* main: the key may come from the environment, and the command is chosen.
Dispatch ==
    /\ pc = "main"
    /\ \E variable \in {"empty", "number", "text"} :
        key' = IF key = "empty" THEN variable ELSE key
    /\ IF command = "version" THEN Exit("0")
       ELSE IF key' = "empty" \/ command \notin Commands THEN Exit("2")
       ELSE pc' = "arguments" /\ UNCHANGED exit
    /\ UNCHANGED <<argc, option, timeout, command, subject, disk, client,
                   printed>>

\* run_report, run_scan_file and run_scan_large_file: their own arguments.
TakeArgument ==
    /\ pc = "arguments" /\ option = "none"
    /\ \E argument \in Arguments :
        /\ Reads(argument)
        /\ IF argument \in ArgumentOptions(command)
           THEN option' = argument /\ UNCHANGED <<pc, exit>>
           ELSE Exit("2") /\ UNCHANGED option
    /\ UNCHANGED <<key, timeout, command, subject, disk, client, printed>>

TakeSubject ==
    /\ pc = "arguments" /\ option # "none"
    /\ \E argument \in Arguments :
        /\ Reads(argument)
        /\ subject' = IF option = "--password" THEN subject ELSE argument
    /\ option' = "none"
    /\ UNCHANGED <<pc, key, timeout, command, disk, client, printed, exit>>

EndOfArguments ==
    /\ pc = "arguments"
    /\ IF option # "none" \/ subject = "empty" THEN Exit("2")
       ELSE pc' = "construct" /\ UNCHANGED exit
    /\ UNCHANGED <<args, disk, client, printed>>

-----------------------------------------------------------------------------

\* The constructor of VirusTotal refuses a short key.
Construct ==
    /\ pc = "construct"
    /\ IF key # "text" THEN Exit("1")
       ELSE /\ pc' = IF command = "report" THEN "call" ELSE "open"
            /\ UNCHANGED exit
    /\ todo' = Steps[Method[command]]
    /\ UNCHANGED <<args, disk, held, reply, sent, status, printed>>

\* Mutant of Open: a large file is opened and not read.
OpenUnread ==
    /\ pc = "open"
    /\ file # 0
    /\ held' = IF command = "scan-large-file" THEN 0 ELSE file
    /\ pc' = "call"
    /\ UNCHANGED <<args, disk, todo, reply, sent, status, printed, exit>>

\* scan_file and scan_large_file of a path read the file at once.
Open ==
    /\ pc = "open"
    /\ file # 0
    /\ held' = file
    /\ pc' = "call"
    /\ UNCHANGED <<args, disk, todo, reply, sent, status, printed, exit>>

\* There is no file, or it cannot be opened.
OpenFails ==
    /\ pc = "open"
    /\ Exit("1")
    /\ UNCHANGED <<args, disk, client, printed>>

\* A read error (of a directory, for one) is an exception nothing catches.
ReadThrows ==
    /\ pc = "open"
    /\ file # 0
    /\ Exit("abort")
    /\ UNCHANGED <<args, disk, client, printed>>

\* It is taken for the end of the file: what was read goes on to the server.
ReadEndsEarly ==
    /\ pc = "open"
    /\ file # 0
    /\ held' = -file
    /\ pc' = "call"
    /\ UNCHANGED <<args, disk, todo, reply, sent, status, printed, exit>>

At(steps) == pc = "call" /\ todo # <<>> /\ Head(todo) \in steps

Continue == todo' = Tail(todo) /\ UNCHANGED <<pc, exit>>

\* is_hex_hash of the hash, or the limit of the size of the file, which the
\* file may be over or not.
Check ==
    /\ At({"check"})
    /\ \E passed \in BOOLEAN :
        /\ command = "report" => passed = (subject = "text")
        /\ IF passed THEN Continue ELSE Exit("1") /\ UNCHANGED todo
    /\ UNCHANGED <<args, disk, held, reply, sent, status, printed>>

Wait ==
    /\ At({"wait"})
    /\ Continue
    /\ UNCHANGED <<args, disk, held, reply, sent, status, printed>>

\* Mutant of Accepts: the file is read while it is sent.
AcceptsStream(verb, accepted) ==
    /\ accepted => verb = "POST"
    /\ sent' = IF accepted THEN file ELSE sent

\* What the server accepts is what scan_file holds in memory.
Accepts(verb, accepted) ==
    /\ accepted => verb = "POST"
    /\ sent' = IF accepted THEN held ELSE sent

Answered ==
    /\ At(Verbs)
    /\ \E r \in Replies, accepted \in BOOLEAN :
        /\ r.status \in Success \cup {202} /\ Head(todo) = "POST" => accepted
        /\ accepted => r.status \in Success \cup {202, 500}
        /\ Accepts(Head(todo), accepted)
        /\ reply' = r
        /\ status' = r.status
    /\ Continue
    /\ UNCHANGED <<args, disk, held, printed>>

\* The transfer fails: NetworkError.
Unanswered ==
    /\ At(Verbs)
    /\ \E accepted \in BOOLEAN : Accepts(Head(todo), accepted)
    /\ status' = 0
    /\ Exit("1")
    /\ UNCHANGED <<args, disk, held, todo, reply, printed>>

\* Mutant of DecodeValue: a body without the keys is not taken.
DecodeValueAll ==
    /\ At(Decoders)
    /\ "value" \in Decoded(Head(todo), reply)
    /\ IF reply.body = "bare" THEN Exit("1") /\ UNCHANGED todo ELSE Continue
    /\ UNCHANGED <<args, disk, held, reply, sent, status, printed>>

DecodeValue ==
    /\ At(Decoders)
    /\ "value" \in Decoded(Head(todo), reply)
    /\ Continue
    /\ UNCHANGED <<args, disk, held, reply, sent, status, printed>>

\* Mutant of ExitCode: NotFound is caught for every command.
ExitCodeOfAny(exception) ==
    CASE exception = "NotFound"         -> "0"
      [] exception = "json::type_error" -> "abort"
      [] OTHER                          -> "1"

\* run_report catches NotFound, then each command VtError; nothing catches more.
\* (The decoders of the three methods throw no exception of the JSON library.)
ExitCode(exception) ==
    CASE exception = "NotFound" /\ command = "report" -> "0"
      [] exception = "json::type_error"               -> "abort"
      [] OTHER                                        -> "1"

\* Mutant of DecodeThrows: a 429 is answered by calling again.
DecodeThrowsRetried ==
    /\ At(Decoders)
    /\ \E exception \in Decoded(Head(todo), reply) \ {"value"} :
        IF exception = "RateLimit"
        THEN todo' = Steps[Method[command]] /\ UNCHANGED <<pc, exit>>
        ELSE Exit(ExitCode(exception)) /\ UNCHANGED todo
    /\ UNCHANGED <<args, disk, held, reply, sent, status, printed>>

DecodeThrows ==
    /\ At(Decoders)
    /\ \E exception \in Decoded(Head(todo), reply) \ {"value"} :
        Exit(ExitCode(exception))
    /\ UNCHANGED <<args, disk, client, printed>>

\* The method returns: the report is printed, or the file is read for its hash.
MethodReturns ==
    /\ pc = "call"
    /\ todo = <<>>
    /\ IF command = "report" THEN Exit("0") ELSE pc' = "hash" /\ UNCHANGED exit
    /\ UNCHANGED <<args, disk, client, printed>>

\* read_file, sha256_hex, and the lines of output.
HashFile ==
    /\ pc = "hash"
    /\ file # 0
    /\ printed' = file
    /\ Exit("0")
    /\ UNCHANGED <<args, disk, client>>

\* The file is gone, or it cannot be opened.
HashFails ==
    /\ pc = "hash"
    /\ Exit("1")
    /\ UNCHANGED <<args, disk, client, printed>>

\* A read error: an exception, or the end of what is hashed.
HashThrows ==
    /\ pc = "hash"
    /\ file # 0
    /\ Exit("abort")
    /\ UNCHANGED <<args, disk, client, printed>>

HashEndsEarly ==
    /\ pc = "hash"
    /\ file # 0
    /\ printed' = -file
    /\ Exit("0")
    /\ UNCHANGED <<args, disk, client>>

\* hex_hash throws std::runtime_error, which nothing catches.
DigestFails ==
    /\ pc = "hash"
    /\ file # 0
    /\ Exit("abort")
    /\ UNCHANGED <<args, disk, client, printed>>

Compute ==
    \/ TakeOption \/ TakeFlag \/ TakeValue \/ RefuseOption \/ TakeCommand
    \/ EndOfOptions \/ Dispatch \/ TakeArgument \/ TakeSubject \/ EndOfArguments
    \/ Construct \/ Open \/ OpenFails \/ ReadThrows \/ ReadEndsEarly
    \/ Check \/ Wait \/ DecodeValue \/ DecodeThrows \/ MethodReturns
    \/ HashFile \/ HashFails \/ HashThrows \/ HashEndsEarly \/ DigestFails

Transfer == Answered \/ Unanswered

Next == Compute \/ Transfer \/ Touch

Spec == Init /\ [][Next]_vars

\* The program goes on, and a transfer ends when there is a timeout for it.
FairSpec ==
    /\ Spec
    /\ WF_vars(Compute)
    /\ WF_vars(timeout = "seconds" /\ Transfer)

-----------------------------------------------------------------------------

(* The types of the variables. *)
TypeOK ==
    /\ pc \in {"options", "main", "arguments", "construct", "open", "call",
               "hash", "done"}
    /\ argc \in 0..MaxArgs
    /\ option \in {"none", "--hash", "--path", "--password"} \cup Options
    /\ key \in Arguments /\ subject \in Arguments
    /\ timeout \in {"seconds", "never"}
    /\ command \in {"none"} \cup Words
    /\ file \in 0..MaxVersions /\ touched \in BOOLEAN
    /\ held \in (-MaxVersions)..MaxVersions /\ sent \in {0, held}
    /\ printed \in (-MaxVersions)..MaxVersions
    /\ exit \in {"running", "abort", "0", "1", "2"}
    /\ exit # "running" <=> pc = "done"

(* README.md:156: exit codes are 0 for success, 1 for a runtime error and 2  *)
(* for a usage error.  A wrong command line, wherever the error is in it,   *)
(* sends nothing and reads no file; an exit of 0 is that of "version", of   *)
(* a report the server has answered by a success or by "never seen", or of  *)
(* an upload that the server has accepted and whose hash is printed.        *)
ExitCodesMean ==
    /\ exit = "2" => status = -1 /\ held = 0
    /\ exit = "0" =>
        \/ command = "version" /\ status = -1
        \/ command = "report" /\ status \in Success \cup {404}
        \/ status \in Success /\ sent # 0 /\ printed # 0

(* main.cpp:173-175: the printed hash serves to look up what was uploaded.  *)
(* Something was uploaded, and the hash is that of the upload, unless       *)
(* somebody changes the file between the two readings or one of them stops  *)
(* short: neither test of a stream (client.cpp:84 and 163, main.cpp:170)    *)
(* can tell that it did, and the program reports success.                   *)
PrintedIsUploaded ==
    printed # 0 =>
        /\ ~touched /\ sent > 0 /\ printed > 0 => printed = sent
        /\ sent # 0

(* A success of the server ends in a failure of the program in two places   *)
(* only: the answer that should hold an upload URL does not, and nothing    *)
(* has been uploaded, or the file could not be opened, read and hashed a    *)
(* second time, and then its analysis id is lost.                           *)
SuccessIsReported ==
    exit \in {"1", "abort"} /\ status \in Success =>
        \/ command = "scan-large-file" /\ sent = 0
        \/ command # "report" /\ sent # 0 /\ todo = <<>>

(* Every run of the program ends, unless its user has asked for transfers   *)
(* without a timeout.                                                       *)
Exits == <>[](exit # "running" \/ timeout = "never")

-----------------------------------------------------------------------------

\* The strengthening that makes the last three inductive: what has been sent
\* and answered at each step of the method, for each of the three commands.
Unsent == status = -1 /\ sent = 0

JustAnswered == reply \in Replies /\ status = reply.status

Accepted == status \in Success /\ sent = held

ReportInv ==
    pc = "call" /\ command = "report" =>
        \/ /\ todo \in {<<"check", "wait", "GET", "lenient">>,
                        <<"wait", "GET", "lenient">>, <<"GET", "lenient">>}
           /\ Unsent
        \/ todo = <<"lenient">> /\ JustAnswered
        \/ todo = <<>> /\ status \in Success

ScanInv ==
    pc = "call" /\ command = "scan-file" =>
        \/ /\ todo \in {<<"check", "wait", "POST", "lenient">>,
                        <<"wait", "POST", "lenient">>, <<"POST", "lenient">>}
           /\ Unsent
        \/ /\ todo = <<"lenient">>
           /\ JustAnswered /\ (status \in Success => Accepted)
        \/ todo = <<>> /\ Accepted

LargeScanInv ==
    pc = "call" /\ command = "scan-large-file" =>
        \/ /\ todo \in {<<"check", "wait", "GET", "string", "wait", "POST",
                          "lenient">>,
                        <<"wait", "GET", "string", "wait", "POST", "lenient">>,
                        <<"GET", "string", "wait", "POST", "lenient">>}
           /\ Unsent
        \/ /\ todo = <<"string", "wait", "POST", "lenient">>
           /\ JustAnswered /\ sent = 0
        \/ /\ todo \in {<<"wait", "POST", "lenient">>, <<"POST", "lenient">>}
           /\ status \in Success /\ sent = 0
        \/ /\ todo = <<"lenient">>
           /\ JustAnswered /\ (status \in Success => Accepted)
        \/ todo = <<>> /\ Accepted

\* Which commands come to which part of the program, and with what.
PhaseInv ==
    /\ pc \in {"options", "main", "arguments", "construct", "open"} =>
        Unsent /\ held = 0
    /\ pc \in {"arguments", "construct", "open", "call", "hash"} =>
        command \in {"report", "scan-file", "scan-large-file"}
    /\ pc \in {"open", "hash"} => command # "report"
    /\ pc = "open" => todo = Steps[Method[command]]
    /\ pc \in {"call", "hash"} /\ command # "report" => held # 0
    /\ command = "report" => held = 0
    /\ pc = "hash" => Accepted /\ todo = <<>>
    /\ printed # 0 => pc = "done"

\* The file is what was read, all of it, until somebody touches it.
FileInv ==
    /\ held = 0 => ~touched
    /\ held > 0 /\ ~touched => file = held

CliInv ==
    /\ PhaseInv /\ FileInv
    /\ ReportInv /\ ScanInv /\ LargeScanInv
    /\ ExitCodesMean /\ PrintedIsUploaded /\ SuccessIsReported

=============================================================================
