------------------------------- MODULE Responses -------------------------------
(***************************************************************************)
(* What becomes of an answer of the server: src/response.cpp and the       *)
(* decoding step of the methods of VirusTotal.                             *)
(*                                                                         *)
(* A reply has a status and a body.  The body of a success is "complete"   *)
(* (the payload of the API), "mistyped" (its keys with values of other     *)
(* types) or "bare" (no such keys, not an object, or not JSON at all: the  *)
(* latter is parsed as an empty object).  The body of an error only gives  *)
(* the exception its text.                                                 *)
(***************************************************************************)
EXTENDS Integers

Success == {200, 201, 204}

Bodies == {"complete", "mistyped", "bare"}

\* 201 and 204 are treated like 200, other 1xx to 5xx statuses like these.
Replies ==
    [status : {200}, body : Bodies]
        \cup [status : {202, 401, 403, 404, 429, 500}, body : {"error"}]

Decoders ==
    {"nothing", "bytes", "dump", "lenient", "flag", "strict", "string", "list",
     "insight"}

Exceptions ==
    {"VtError", "AuthError", "NotFound", "RateLimit", "ApiError",
     "NetworkError", "json::type_error"}

\* Mutant of ThrowForStatus: 404 is not told from the other errors.
ThrowForStatusPlain(status) ==
    CASE status = 403 -> "AuthError"
      [] status = 429 -> "RateLimit"
      [] status = 0   -> "NetworkError"
      [] OTHER        -> "ApiError"

ThrowForStatus(status) ==
    CASE status = 403 -> "AuthError"
      [] status = 404 -> "NotFound"
      [] status = 429 -> "RateLimit"
      [] status = 0   -> "NetworkError"
      [] OTHER        -> "ApiError"

\* The parsers written with json_string and its kin give a model whatever
\* comes; dump(), raw bytes and a flag that is not there do as well.
Lenient == {"nothing", "bytes", "dump", "lenient", "flag"}

\* The parsers written with value() and get() stop at the first mistyped value
\* they look at; a missing one has a default.
StrictParse(body) ==
    IF body = "mistyped" THEN {"value", "json::type_error"} ELSE {"value"}

\* A payload that is one string.
StringParse == {"VtError"}

\* The list of categories and the insight check the type of "data" by hand: what
\* is mistyped below it is passed over, or refused if it is the base64 text.
DataParse(body) ==
    IF body = "mistyped" THEN {"value", "VtError"} ELSE {"VtError"}

\* How each parser takes a successful body: the model, or an exception.
Parsed(decode, body) ==
    CASE body = "complete" \/ decode \in Lenient -> {"value"}
      [] body # "complete" /\ decode = "strict" -> StrictParse(body)
      [] body # "complete" /\ decode = "string" -> StringParse
      [] body # "complete" /\ decode \in {"list", "insight"} -> DataParse(body)

\* Mutant of Decoded: the status is not looked at.
DecodedAnyway(decode, reply) ==
    IF reply.body = "error" THEN {"value"} ELSE Parsed(decode, reply.body)

\* json_or_throw and body_or_throw, then the parser.
Decoded(decode, reply) ==
    IF reply.status \in Success THEN Parsed(decode, reply.body)
    ELSE {ThrowForStatus(reply.status)}

=============================================================================
