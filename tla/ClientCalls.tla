------------------------------ MODULE ClientCalls ------------------------------
(***************************************************************************)
(* One call of a method of VirusTotal, from its arguments to its return or *)
(* its exception, against a server that may answer anything and a network  *)
(* that may lose the request or the answer.  Endpoints gives the steps of  *)
(* each method; here are the batches, which call a method per item, and    *)
(* the methods that catch NotFound.                                        *)
(***************************************************************************)
EXTENDS Endpoints, Responses, FiniteSets, SequencesExt

CONSTANT MaxItems    \* bound: how many items a batch has

ASSUME CallAssumption == MaxItems \in Nat

\* The method each batch calls for each of its items.
Batches == [
    rescan_files     |-> "rescan_file",
    get_file_reports |-> "get_file_report",
    scan_urls        |-> "scan_url",
    get_url_reports  |-> "get_url_report" ]

\* An argument that fails the checks of the method or, where the method has
\* none, an id instead of a URL; one that cannot be encoded; and all others.
Arguments == {"good", "bad", "garbled"}

Calls ==
    [method : Methods, items : {<<a>> : a \in Arguments}, scan : {FALSE}]
    \cup [method : {"get_url_report"}, items : {<<"good">>, <<"bad">>},
          scan : {TRUE}]
    \cup [method : DOMAIN Batches,
          items : BoundedSeq({"good", "bad"}, MaxItems), scan : {FALSE}]

VARIABLES
    call,      \* method, arguments, and the flag scan_if_no_report
    pos,       \* the item the call is at; 0 before the first one of a batch
    todo,      \* the steps that remain for that item
    caught,    \* get_url_report is in its handler of NotFound
    reply,     \* the response that waits to be decoded
    tickets,   \* returns from wait() minus exchanges
    wire,      \* history: the exchanges, each with the item it was for,
               \* whether the server carried it out, and its status
    outcome    \* "pending", "returned", or the exception thrown

vars == <<call, pos, todo, caught, reply, tickets, wire, outcome>>

NoReply == [status |-> 0, body |-> "none"]

IsBatch == call.method \in DOMAIN Batches

ItemSteps ==
    IF IsBatch THEN Steps[Batches[call.method]] ELSE Steps[call.method]

Item == call.items[pos]

-----------------------------------------------------------------------------

\* Mutant of Init: a batch is not checked before its first request.
InitUnchecked ==
    /\ call \in Calls
    /\ pos = IF IsBatch THEN 0 ELSE 1
    /\ todo = IF IsBatch THEN <<>> ELSE ItemSteps
    /\ caught = FALSE
    /\ reply = NoReply
    /\ tickets = 0
    /\ wire = <<>>
    /\ outcome = "pending"

Init ==
    /\ call \in Calls
    /\ pos = IF IsBatch THEN 0 ELSE 1
    /\ todo = IF IsBatch THEN <<"check_all">> ELSE ItemSteps
    /\ caught = FALSE
    /\ reply = NoReply
    /\ tickets = 0
    /\ wire = <<>>
    /\ outcome = "pending"

\* The next step of the call is one of steps.
At(steps) == outcome = "pending" /\ todo # <<>> /\ Head(todo) \in steps

Throw(exception) ==
    /\ outcome' = exception
    /\ UNCHANGED <<call, pos, todo, caught, tickets>>

Continue ==
    /\ todo' = Tail(todo)
    /\ UNCHANGED <<call, pos, caught, outcome>>

\* The tests on the arguments of one call.
Check ==
    /\ At({"check"})
    /\ IF Item = "bad" THEN Throw("VtError") ELSE Continue /\ UNCHANGED tickets
    /\ UNCHANGED <<reply, wire>>

\* require_valid_hashes and require_valid_urls: all items before any request.
CheckAll ==
    /\ At({"check_all"})
    /\ IF Contains(call.items, "bad") THEN Throw("VtError")
       ELSE Continue /\ UNCHANGED tickets
    /\ UNCHANGED <<reply, wire>>

Encode ==
    /\ At({"encode"})
    /\ IF Item = "garbled" THEN Throw("json::type_error")
       ELSE Continue /\ UNCHANGED tickets
    /\ UNCHANGED <<reply, wire>>

Wait ==
    /\ At({"wait"})
    /\ tickets' = tickets + 1
    /\ Continue
    /\ UNCHANGED <<reply, wire>>

Exchanged(verb, applied, status) ==
    wire' = Append(wire, [verb |-> verb, item |-> pos,
                          applied |-> applied, status |-> status])

\* The server answers.  A success has been carried out; a 5xx may have been.
Answered ==
    /\ At(Verbs)
    /\ \E r \in Replies, applied \in BOOLEAN :
        /\ applied => Head(todo) # "GET" /\ r.status \in Success \cup {202, 500}
        /\ r.status \in Success \cup {202} /\ Head(todo) # "GET" => applied
        /\ reply' = r
        /\ Exchanged(Head(todo), applied, r.status)
    /\ tickets' = tickets - 1
    /\ Continue

\* Mutant of Unanswered: a failed transfer is attempted again.
UnansweredRetried ==
    /\ At(Verbs)
    /\ Len(wire) < 5
    /\ \E applied \in BOOLEAN :
        /\ applied => Head(todo) # "GET"
        /\ Exchanged(Head(todo), applied, 0)
    /\ todo' = <<"wait">> \o todo
    /\ tickets' = tickets - 1
    /\ UNCHANGED <<call, pos, caught, reply, outcome>>

\* curl_easy_perform fails: the request never arrived, or its answer did not.
Unanswered ==
    /\ At(Verbs)
    /\ \E applied \in BOOLEAN :
        /\ applied => Head(todo) # "GET"
        /\ Exchanged(Head(todo), applied, 0)
    /\ tickets' = tickets - 1
    /\ outcome' = "NetworkError"
    /\ UNCHANGED <<call, pos, todo, caught, reply>>

\* get_saved_searches and get_saved_search catch NotFound: an empty result.
Swallows(exception) ==
    /\ exception = "NotFound"
    /\ call.method \in {"get_saved_searches", "get_saved_search"}

\* Mutant of ScansFirst: the handler of NotFound is entered every time.
ScansAgain(exception) ==
    /\ exception = "NotFound"
    /\ call.method = "get_url_report"
    /\ call.scan

\* get_url_report catches NotFound once when it may ask for a scan.
ScansFirst(exception) ==
    /\ exception = "NotFound"
    /\ call.method = "get_url_report"
    /\ call.scan
    /\ ~caught

\* The response becomes a value.
DecodeValue ==
    /\ At(Decoders)
    /\ "value" \in Decoded(Head(todo), reply)
    /\ Continue
    /\ UNCHANGED <<reply, tickets, wire>>

\* Mutant of DecodeThrows: a batch leaves the failing item out and goes on.
DecodeThrowsSkipsItem ==
    /\ At(Decoders)
    /\ \E exception \in Decoded(Head(todo), reply) \ {"value"} :
        /\ ~Swallows(exception) /\ ~ScansFirst(exception)
        /\ IF IsBatch
           THEN todo' = <<>> /\ UNCHANGED <<call, pos, caught, outcome>>
           ELSE Throw(exception)
    /\ UNCHANGED <<reply, tickets, wire>>

\* The response becomes an exception that nothing catches.
DecodeThrows ==
    /\ At(Decoders)
    /\ \E exception \in Decoded(Head(todo), reply) \ {"value"} :
        /\ ~Swallows(exception) /\ ~ScansFirst(exception)
        /\ Throw(exception)
    /\ UNCHANGED <<reply, wire>>

\* The default value is returned in place of the exception.
DecodeSwallows ==
    /\ At(Decoders)
    /\ \E exception \in Decoded(Head(todo), reply) : Swallows(exception)
    /\ Continue
    /\ UNCHANGED <<reply, tickets, wire>>

\* Mutant of DecodeScans: the report is asked for again without a wait.
DecodeScansUnpaced ==
    /\ At(Decoders)
    /\ \E exception \in Decoded(Head(todo), reply) : ScansFirst(exception)
    /\ caught' = TRUE
    /\ todo' = Steps.scan_url \o Tail(Steps.get_url_report)
    /\ UNCHANGED <<call, pos, reply, tickets, wire, outcome>>

\* scan_url(url_or_id), then the report is asked for once more.
DecodeScans ==
    /\ At(Decoders)
    /\ \E exception \in Decoded(Head(todo), reply) : ScansFirst(exception)
    /\ caught' = TRUE
    /\ todo' = Steps.scan_url \o Steps.get_url_report
    /\ UNCHANGED <<call, pos, reply, tickets, wire, outcome>>

\* write_file_atomic returns or throws; AtomicFile models what it does.
Store ==
    /\ At({"store"})
    /\ \/ Continue /\ UNCHANGED tickets
       \/ Throw("VtError")
    /\ UNCHANGED <<reply, wire>>

\* Mutant of NextItem: the loop goes one item too far.
NextItemPastEnd ==
    /\ outcome = "pending"
    /\ todo = <<>>
    /\ pos <= Len(call.items)
    /\ pos' = pos + 1
    /\ todo' = ItemSteps
    /\ UNCHANGED <<call, caught, reply, tickets, wire, outcome>>

\* The loop of a batch goes to its next item.
NextItem ==
    /\ outcome = "pending"
    /\ todo = <<>>
    /\ pos < Len(call.items)
    /\ pos' = pos + 1
    /\ todo' = ItemSteps
    /\ UNCHANGED <<call, caught, reply, tickets, wire, outcome>>

Return ==
    /\ outcome = "pending"
    /\ todo = <<>>
    /\ pos = Len(call.items)
    /\ outcome' = "returned"
    /\ UNCHANGED <<call, pos, todo, caught, reply, tickets, wire>>

Next ==
    \/ Check \/ CheckAll \/ Encode \/ Wait
    \/ Answered \/ Unanswered
    \/ DecodeValue \/ DecodeThrows \/ DecodeSwallows \/ DecodeScans
    \/ Store \/ NextItem \/ Return

Spec == Init /\ [][Next]_vars

-----------------------------------------------------------------------------

Ended == outcome # "pending"

LastStatus == wire[Len(wire)].status

Requests(i) == {k \in DOMAIN wire : wire[k].item = i}

Changes(i) == {k \in Requests(i) : wire[k].verb # "GET"}

Applied(i) == {k \in Changes(i) : wire[k].applied}

(* The types of the variables. *)
TypeOK ==
    /\ call \in Calls
    /\ pos \in 0..Len(call.items)
    /\ todo \in Seq(Verbs \cup Decoders
                    \cup {"check", "check_all", "encode", "wait", "store"})
    /\ caught \in BOOLEAN
    /\ reply \in Replies \cup {NoReply}
    /\ tickets \in Int
    /\ wire \in Seq([verb : Verbs, item : Nat, applied : BOOLEAN, status : Nat])
    /\ outcome \in {"pending", "returned"} \cup Exceptions

(* ratelimit.hpp:11: every request is paced.  No method sends a request     *)
(* without a return from wait() of its own, none saves one up for a later   *)
(* burst, and a call that waited and did not send could not encode its body. *)
Paced ==
    /\ tickets \in {0, 1}
    /\ Ended /\ tickets = 1 => 
        outcome = "json::type_error" /\ Contains(call.items, "garbled")

(* run_tests.cpp and client.hpp: invalid arguments are refused before any   *)
(* request.  One bad item in a batch, wherever it is, keeps the whole batch *)
(* from being sent, and costs no wait.                                      *)
InvalidSendsNothing ==
    Contains(call.items, "bad") /\ (IsBatch \/ Contains(ItemSteps, "check"))
        => wire = <<>> /\ tickets = 0

(* A batch has, at any time and however it ends, done its first items once  *)
(* each, none of those after the one it is at, and that one at most once:   *)
(* no item is skipped, repeated or done out of order.                       *)
BatchIsPrefix ==
    IsBatch =>
        \A i \in 1..Len(call.items) :
            /\ i < pos => Cardinality(Requests(i)) = 1
            /\ i = pos => Cardinality(Requests(i)) <= 1
            /\ i > pos => Requests(i) = {}
            /\ \/ i < pos
               \/ outcome = "returned"
               => Applied(i) = Changes(i)

(* No request that changes anything at the server is ever sent again, not   *)
(* after a lost answer nor after an error: what an exception leaves unsaid  *)
(* is whether its one request was carried out.                              *)
AtMostOnce ==
    \A i \in DOMAIN call.items : Cardinality(Changes(i)) <= 1

(* A call that returns has been answered: its last exchange was a success   *)
(* (but for the two look-ups of saved searches, where it may be a 404) and  *)
(* all that it was to change is changed.                                    *)
ReturnMeansDone ==
    outcome = "returned" /\ wire # <<>> =>
        /\ \/ LastStatus \in Success
           \/ /\ LastStatus = 404
              /\ call.method \in {"get_saved_searches", "get_saved_search"}
        /\ \A i \in DOMAIN call.items : Applied(i) = Changes(i)

(* README.md:256-258 and 260: a call that ends after an exchange throws     *)
(* AuthError, RateLimit or NetworkError just when its last exchange was a   *)
(* 403, a 429 or no answer, and NotFound only when that was a 404; ApiError *)
(* takes none of their statuses.  No exception tells of an exchange that    *)
(* was dealt with before (a report's 404 that led to a scan), is lost in a  *)
(* batch or a handler, or comes without an exchange.                        *)
ExceptionNamesCause ==
    /\ outcome \in {"AuthError", "NotFound", "RateLimit", "ApiError",
                    "NetworkError"} => wire # <<>>
    /\ Ended /\ wire # <<>> =>
        /\ outcome = "AuthError" <=> LastStatus = 403
        /\ outcome = "RateLimit" <=> LastStatus = 429
        /\ outcome = "NetworkError" <=> LastStatus = 0
        /\ outcome = "NotFound" => LastStatus = 404
        /\ outcome = "ApiError" => LastStatus \notin {0, 403, 404, 429}

(* client.hpp: a scan is asked for only when the flag is set and the report *)
(* is missing, once, and what is returned is the report asked for after it. *)
ScanOnlyWhenMissing ==
    call.method = "get_url_report" =>
        /\ Len(wire) <= 3
        /\ \A k \in DOMAIN wire :
            wire[k].verb = "POST" => k = 2 /\ call.scan /\ wire[1].status = 404
        /\ outcome = "returned" => wire[Len(wire)].verb = "GET"

-----------------------------------------------------------------------------

(* README.md:257: a 404 is NotFound, whatever the method. *)
MissingIsNotFound ==
    Ended /\ wire # <<>> /\ LastStatus = 404 => outcome = "NotFound"

(* README.md:259 and response.cpp:35-36: ApiError is for a status outside   *)
(* 200 to 299.                                                              *)
ApiErrorIsNot2xx == outcome = "ApiError" => LastStatus \notin 200..299

(* README.md:252: every failure is derived from vtapi::VtError.             *)
OnlyVtErrors == outcome # "json::type_error"

=============================================================================
