------------------------------- MODULE HttpHandle -------------------------------
(***************************************************************************)
(* detail::HttpClient (src/http.cpp): many exchanges, one after the other, *)
(* on a single curl easy handle.  libcurl keeps what curl_easy_setopt gave *)
(* it, scalars as values and bodies, header lists and forms as pointers to *)
(* memory of the client's, until curl_easy_reset.  So an exchange is what  *)
(* was meant only if no option of an earlier one is left and everything    *)
(* pointed to still lives.                                                 *)
(*                                                                         *)
(* The URL, the two timeouts and the other options that every exchange     *)
(* sets are like CURLOPT_SSL_VERIFYPEER, and left out.  Running out of     *)
(* memory is left out too.  The texts of a form's fields hold no NUL: at   *)
(* http.cpp:206 one would end the field (a file's bytes may hold any).     *)
(***************************************************************************)
EXTENDS Integers, Sequences, Functions

CONSTANTS
    Headers,        \* the headers given to set_header
    ContentTypes,   \* the Content-Type headers of bodies
    Bodies,         \* the bodies of requests, sequences of bytes
    Forms,          \* the forms, non-empty sequences of parts
    MaxHeaders,     \* bound: how many default headers are set
    MaxCalls        \* bound: how many exchanges

ASSUME HandleAssumption ==
    /\ Bodies \subseteq Seq(STRING)
    /\ Forms \subseteq Seq(STRING) \ {<<>>}
    /\ MaxHeaders \in Nat /\ MaxCalls \in Nat

Optional == {"CURLOPT_USERAGENT", "CURLOPT_PROXY"}

VARIABLES
    settings,   \* default_headers_, verify_ssl_, and which of user_agent_ and
                \* proxy_ are not empty
    options,    \* what curl_ has been told
    heap,       \* the objects options may point to, each with its content
    calls,      \* how many exchanges were begun
    pc,         \* where the exchange is
    intent,     \* history: the request that the exchange was called for
    wire        \* history: the last request that libcurl sent

vars == <<settings, options, heap, calls, pc, intent, wire>>

Null == <<"null", 0>>

\* The object of this kind that the n-th exchange creates.
Object(kind, n) == <<kind, n>>

IsA(kind) == {object \in DOMAIN heap : object[1] = kind}

Content(object) ==
    CASE object = Null         -> <<>>
      [] object \in DOMAIN heap -> heap[object]
      [] OTHER                  -> <<"garbage">>

NoRequest ==
    [method |-> "none", body |-> <<>>, headers |-> <<>>, version |-> "any",
     verify |-> TRUE, optional |-> {}]

-----------------------------------------------------------------------------

\* The options of a handle that is new or has been reset.
FreshOptions ==
    [verify   |-> TRUE,         \* CURLOPT_SSL_VERIFYPEER and VERIFYHOST
     optional |-> {},
     custom   |-> "none",       \* CURLOPT_CUSTOMREQUEST
     kind     |-> "GET",        \* how the body is sent: GET, POST or MIME
     fields   |-> Null,         \* CURLOPT_POSTFIELDS
     size     |-> -1,           \* CURLOPT_POSTFIELDSIZE(_LARGE)
     version  |-> "any",        \* CURLOPT_HTTP_VERSION
     headers  |-> Null,         \* CURLOPT_HTTPHEADER
     mime     |-> Null,         \* CURLOPT_MIMEPOST
     sink     |-> Null]         \* CURLOPT_WRITEDATA

\* Mutant of Reset: an exchange goes on with the options of the one before.
ResetNothing(told) == told

\* curl_easy_reset: whatever the handle was told is forgotten.
Reset(told) == FreshOptions

\* curl_easy_reset, then what apply_common_options sets.  The options are set
\* where the texts are not empty.
CommonOptions ==
    [Reset(options) EXCEPT !.verify = settings.verify,
                           !.optional = @ \cup settings.optional]

\* Mutant of BodyOptions: the pointer is taken before the body is copied.
BodyOptionsEarly(told, body) ==
    IF body = <<>> THEN [told EXCEPT !.size = 0]
    ELSE [told EXCEPT !.kind = "POST", !.size = Len(body),
                      !.fields = IF IsA("buffer") = {} THEN Null
                                 ELSE CHOOSE object \in IsA("buffer") : TRUE]

\* A body: its size and a pointer to the copy in post_buffer_, or size 0.
BodyOptions(told, body) ==
    IF body = <<>> THEN [told EXCEPT !.size = 0]
    ELSE [told EXCEPT !.kind = "POST", !.size = Len(body),
                      !.fields = Object("buffer", calls + 1)]

\* The objects with one more, or with another content for it.
With(objects, object, content) ==
    [o \in DOMAIN objects \cup {object} |->
        IF o = object THEN content ELSE objects[o]]

\* Assigning post_buffer_ ends the life of its former content.
Buffered(body) ==
    IF body = <<>> THEN heap
    ELSE With(Restrict(heap, DOMAIN heap \ IsA("buffer")),
              Object("buffer", calls + 1), body)

Listed(objects, headers) ==
    IF headers = <<>> THEN objects
    ELSE With(objects, Object("slist", calls + 1), headers)

\* An exchange is called for, with a version of HTTP where it asks for one: from
\* here on it has these options and objects.
Begin(method, version, body, headers, told, objects) ==
    /\ pc = "idle"
    /\ calls < MaxCalls
    /\ calls' = calls + 1
    /\ options' = told
    /\ heap' = objects
    /\ intent' = [method |-> method, body |-> body, headers |-> headers,
                  version |-> version, verify |-> settings.verify,
                  optional |-> settings.optional]
    /\ pc' = "perform"
    /\ UNCHANGED <<settings, wire>>

\* The headers that get and del add for one exchange.
Extras == {<<>>} \cup {<<header>> : header \in Headers}

Get ==
    \E extra \in Extras :
        LET headers == settings.headers \o extra
        IN  Begin("GET", "any", <<>>, headers, CommonOptions,
                  Listed(heap, headers))

Del ==
    \E extra \in Extras :
        LET headers == settings.headers \o extra
        IN  Begin("DELETE", "any", <<>>, headers,
                  [CommonOptions EXCEPT !.custom = "DELETE"],
                  Listed(heap, headers))

DelBody ==
    \E body \in Bodies, type \in ContentTypes :
        LET told == [CommonOptions EXCEPT !.custom = "DELETE"]
            headers == Append(settings.headers, type)
        IN  Begin("DELETE", "any", body, headers,
                  IF body = <<>> THEN told ELSE BodyOptions(told, body),
                  Listed(Buffered(body), headers))

Patch ==
    \E body \in Bodies, type \in ContentTypes :
        LET told == [CommonOptions EXCEPT !.custom = "PATCH"]
            headers == Append(settings.headers, type)
        IN  Begin("PATCH", "any", body, headers, BodyOptions(told, body),
                  Listed(Buffered(body), headers))

Post ==
    \E body \in Bodies, type \in ContentTypes :
        LET told == [CommonOptions EXCEPT !.kind = "POST"]
            headers == Append(settings.headers, type)
        IN  Begin("POST", "any", body, headers, BodyOptions(told, body),
                  Listed(Buffered(body), headers))

PostMultipart ==
    \E form \in Forms :
        LET told == [CommonOptions EXCEPT !.version = "1.1"]
        IN  Begin("POST", "1.1", form, settings.headers, told,
                  With(Listed(heap, settings.headers),
                       Object("mime", calls + 1), form))

-----------------------------------------------------------------------------

\* The pointer of a local variable of this exchange.
Mine(kind) ==
    IF Object(kind, calls) \in DOMAIN heap THEN Object(kind, calls) ELSE Null

\* perform: the header list and the form if there are any, and the response.
Attach ==
    /\ pc = "perform"
    /\ heap' = With(heap, Object("resp", calls), <<>>)
    /\ LET told == [options EXCEPT !.sink = Object("resp", calls)]
           listed == IF Mine("slist") = Null THEN told
                     ELSE [told EXCEPT !.headers = Mine("slist")]
       IN  options' = IF Mine("mime") = Null THEN listed
                      ELSE [listed EXCEPT !.mime = Mine("mime"), !.kind = "MIME"]
    /\ pc' = "attached"
    /\ UNCHANGED <<settings, calls, intent, wire>>

\* libcurl: the method and the body that the options amount to.
SentMethod ==
    IF options.custom # "none" THEN options.custom
    ELSE IF options.kind = "GET" THEN "GET"
    ELSE "POST"

SentBody ==
    CASE options.kind = "GET"  -> <<>>
      [] options.kind = "MIME" -> Content(options.mime)
      [] options.kind = "POST" ->
            IF options.size <= Len(Content(options.fields))
            THEN SubSeq(Content(options.fields), 1, options.size)
            ELSE <<"garbage">>

\* curl_easy_perform: the request is sent, and answered or not.
Transfer ==
    /\ pc = "attached"
    /\ wire' = [method |-> SentMethod, body |-> SentBody,
                headers |-> Content(options.headers),
                version |-> options.version, verify |-> options.verify,
                optional |-> options.optional]
    /\ pc' \in {"transferred", "failed"}
    /\ UNCHANGED <<settings, options, heap, calls, intent>>

Discard(kinds) ==
    heap' = Restrict(heap, {object \in DOMAIN heap : object[1] \notin kinds})

\* The list and the form are freed and the response goes to the caller.
Return ==
    /\ pc = "transferred"
    /\ Discard({"slist", "mime", "resp"})
    /\ pc' = "idle"
    /\ UNCHANGED <<settings, options, calls, intent, wire>>

\* Mutant of Throw: NetworkError is thrown before the form is freed.
ThrowEarly ==
    /\ pc = "failed"
    /\ Discard({"slist", "resp"})
    /\ pc' = "idle"
    /\ UNCHANGED <<settings, options, calls, intent, wire>>

\* They are freed too when NetworkError is thrown, and the response dies.
Throw ==
    /\ pc = "failed"
    /\ Discard({"slist", "mime", "resp"})
    /\ pc' = "idle"
    /\ UNCHANGED <<settings, options, calls, intent, wire>>

-----------------------------------------------------------------------------

Set(new) ==
    /\ pc = "idle"
    /\ settings' = new
    /\ UNCHANGED <<options, heap, calls, pc, intent, wire>>

\* Mutant of SetHeader: the value goes into the list without its name.
SetHeaderNameless ==
    /\ Len(settings.headers) < MaxHeaders
    /\ \E header \in Headers :
        Set([settings EXCEPT !.headers = Append(@, "value")])

SetHeader ==
    /\ Len(settings.headers) < MaxHeaders
    /\ \E header \in Headers :
        Set([settings EXCEPT !.headers = Append(@, header)])

ClearHeaders == Set([settings EXCEPT !.headers = <<>>])

SetSslVerify == \E verify \in BOOLEAN : Set([settings EXCEPT !.verify = verify])

\* An empty text takes the option back.
SetUserAgentOrProxy ==
    \E option \in Optional :
        \/ Set([settings EXCEPT !.optional = @ \cup {option}])
        \/ Set([settings EXCEPT !.optional = @ \ {option}])

Init ==
    /\ settings = [headers |-> <<>>, verify |-> TRUE, optional |-> {}]
    /\ options = FreshOptions
    /\ heap = <<>>
    /\ calls = 0
    /\ pc = "idle"
    /\ intent = NoRequest
    /\ wire = NoRequest

Next ==
    \/ Get \/ Del \/ DelBody \/ Patch \/ Post \/ PostMultipart
    \/ Attach \/ Transfer \/ Return \/ Throw
    \/ SetHeader \/ ClearHeaders \/ SetSslVerify \/ SetUserAgentOrProxy

Spec == Init /\ [][Next]_vars

-----------------------------------------------------------------------------

Objects == {"buffer", "slist", "mime", "resp"} \X (1..MaxCalls)

Pointers == {Null} \cup Objects

Sizes == {-1} \cup {Len(body) : body \in Bodies}

\* What the handle may have been told.
Options ==
    [verify : BOOLEAN, optional : SUBSET Optional,
     custom : {"none", "DELETE", "PATCH"}, kind : {"GET", "POST", "MIME"},
     fields : Pointers, size : Sizes,
     version : {"any", "1.1"},
     headers : Pointers, mime : Pointers, sink : Pointers]

(* The types of the variables. *)
TypeOK ==
    /\ settings \in [headers : Seq(Headers), verify : BOOLEAN,
                     optional : SUBSET Optional]
    /\ Len(settings.headers) <= MaxHeaders
    /\ options \in Options
    /\ DOMAIN heap \subseteq Objects
    /\ calls \in 0..MaxCalls
    /\ pc \in {"idle", "perform", "attached", "transferred", "failed"}

(* http.hpp:31-32: each call re-applies a fresh option set, so one instance *)
(* can drive requests with different methods and headers.  What is sent is  *)
(* what the exchange was called for under the settings of that moment, with *)
(* nothing left of the exchanges and the settings before.                   *)
WireIsIntent ==
    pc \in {"transferred", "failed"} => wire = intent

(* http.cpp:182, "buffer must outlive curl_easy_perform": when libcurl runs *)
(* everything it was pointed at is alive, and belongs to this exchange.     *)
NoDanglingUse ==
    pc = "attached" =>
        \A pointer \in {options.fields, options.headers, options.mime,
                        options.sink} \ {Null} :
            pointer \in DOMAIN heap /\ pointer[2] = calls

(* Between exchanges, after an answer as after an error, no list, form or   *)
(* response is left, and of the bodies the last one at most.                *)
NothingLeaked ==
    pc = "idle" =>
        /\ IsA("slist") \cup IsA("mime") \cup IsA("resp") = {}
        /\ \A one, other \in IsA("buffer") : one = other

-----------------------------------------------------------------------------

\* The strengthening that makes the last three inductive.  The lists, forms
\* and responses that live are those of the exchange that is going on.
LocalsInv ==
    /\ \A object \in DOMAIN heap :
        object[1] # "buffer" =>
            /\ pc # "idle" /\ object[2] = calls
            /\ object[1] = "resp" => pc # "perform"
    /\ \A one, other \in IsA("buffer") : one = other

\* The scalars are those of the request, and the pointers of the options lead
\* to the objects of this exchange once perform() has set them.
PointersInv ==
    /\ pc # "idle" =>
        /\ intent = [method |-> intent.method, body |-> intent.body,
                     headers |-> intent.headers, version |-> options.version,
                     verify |-> options.verify, optional |-> options.optional]
        /\ calls > 0
    /\ pc = "perform" =>
        options.headers = Null /\ options.mime = Null /\ options.sink = Null
    /\ pc \in {"attached", "transferred", "failed"} =>
        /\ options.headers = Mine("slist")
        /\ options.mime = Mine("mime")
        /\ options.mime # Null => options.kind = "MIME"
        /\ options.sink = Object("resp", calls)
        /\ options.sink \in DOMAIN heap

\* The list of headers is that of the request, and there is none for none.
HeadersInv ==
    pc # "idle" =>
        IF intent.headers = <<>> THEN Object("slist", calls) \notin DOMAIN heap
        ELSE /\ Object("slist", calls) \in DOMAIN heap
             /\ heap[Object("slist", calls)] = intent.headers

\* The body is that of the request: a form, nothing, or the buffer.
IsForm ==
    /\ Object("mime", calls) \in DOMAIN heap
    /\ heap[Object("mime", calls)] = intent.body
    /\ intent.method = "POST" /\ options.custom = "none"
    /\ options.fields = Null

IsEmpty ==
    /\ intent.body = <<>> /\ options.fields = Null
    /\ options.kind = "POST" => options.size = 0

IsBuffer ==
    /\ intent.body \in Bodies /\ options.kind = "POST"
    /\ options.size = Len(intent.body)
    /\ options.fields = Object("buffer", calls)
    /\ options.fields \in DOMAIN heap
    /\ heap[options.fields] = intent.body

BodyInv ==
    pc # "idle" =>
        \/ IsForm
        \/ /\ Object("mime", calls) \notin DOMAIN heap
           /\ options.kind # "MIME" /\ SentMethod = intent.method
           /\ IsEmpty \/ IsBuffer

HandleInv ==
    LocalsInv /\ PointersInv /\ HeadersInv /\ BodyInv /\ WireIsIntent

=============================================================================
