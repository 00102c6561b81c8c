# Verification of vtapi

TLA+ modules of *vtapi*, a C++17 client of the VirusTotal API v3, with the TLC
runs that check them and the proofs of their main properties. Paths in this
text are relative to the repository unless they end in `.tla` or `.cfg`.

## The system

A program owns a `VirusTotal` object (`include/vtapi/client.hpp`,
`src/client.cpp`). Each of its hundred or so methods checks its arguments, waits
for the rate limiter, makes one HTTP exchange and decodes the answer; a few do
this more than once. There are no threads in the library: one client is for one
thread at a time (`client.hpp:44-45`). The rate limiter is a class of its own
that protects itself with a mutex.

| Component | State | Operations | Hard parts |
|---|---|---|---|
| Rate limiter, `detail/ratelimit.hpp` | mutex, tokens, time of the last refill | `wait` | threads in any order, the mutex kept over a sleep, a clock read before the sleep and used after it |
| HTTP handle, `src/http.cpp` | one curl handle with its options, a buffer for the body, default headers and settings | `get`, `post`, `post_multipart`, `patch`, two `del`, seven setters | options and pointers that outlive the exchange they were for |
| Response mapping, `src/response.cpp` | none | `json_or_throw`, `body_or_throw` | a status for each exception; bodies that are not what they should be |
| Client endpoints, `src/client.cpp` | none but the two above | about 100 methods | lost answers, batches that fail half way, `NotFound` handlers, arguments checked before anything is sent |
| Analysis polling, `await_analysis` | a start time and the last report | one loop | a deadline that is looked at between polls only, sleep and pacing that add up |
| Atomic download, `write_file_atomic` | two files | `download_file`, `download_zip` | failure of each call, a crash in between, left-overs, buffered data |
| Model parsers, `src/*_report.cpp` and others | none | 27 functions `*_from_json` | values of another type than expected, null, or wider than 32 bits; two styles of access side by side |
| Argument validators, `client.cpp:342-430` | none | `is_valid_ip`, `is_valid_domain` | counters, early returns, limits of groups, octets and labels |
| Encodings, `detail/base64.hpp`, `detail/url.hpp` | none | base64, base64url, percent | the last group, with one or two bytes; unused bits |
| Command line, `examples/eicar_cli` | options, one client | `version`, `report`, `scan-file`, `scan-large-file` | a file read twice while others change it, exceptions that leave the program, what an exit code says |

How they interact: a method of the client calls `limiter_.wait()`, then
`http_.get` or a sibling, which returns a response or throws `NetworkError`, then
`json_or_throw` or `body_or_throw`, then a parser, and, for downloads,
`write_file_atomic`. Everything is a call on the thread of the caller; there are
no callbacks but libcurl's write function. The demo program `vtapi_eicar` calls
one method per run and reads its file once more afterwards, to print its hash.

What makes each of them correct:

- *Limiter*: grants are an interval apart whoever gets them, idle time is not
  saved up, nobody waits for nothing, and it never gets stuck.
- *Handle*: what goes out is what this call meant, nothing of an earlier call;
  what libcurl points at is alive; nothing is left over after a failure.
- *Endpoints*: every exchange was paid for by a wait of its own; bad arguments
  cost nothing; nothing that changes the server is sent twice; a batch does a
  prefix; a return means success and an exception names its cause.
- *Polling*: no timeout before its time or against a completion that was there
  in time; an upper bound of the overrun; polls no closer than allowed.
- *Download*: a reader of the destination finds the old file or the whole new
  one; no temporary file is left.
- *Parsers*: what is missing never keeps a model from being made; what is
  mistyped does in the strict parsers only; numbers arrive whole.
- *Validators, encodings*: they accept and produce what their definition by
  parts and by bits says, however short or odd the last part.
- *Command line*: the exit code tells what happened, the hash is that of the
  upload, a success of the server is not lost, and the program ends.

`PROJECT.json` lists each hazard at its line with the properties that cover it.

## Modules

Each component has a module with its state as variables, one action per
operation or step, and its properties. Where a component makes a promise to
others there is an abstract module it is shown to implement. Operators and
actions whose comment starts with "Mutant of" are plausible errors of the code:
each property is known to notice one of them. `MC*.tla` and `*.cfg` give the
constants for TLC.

| Module | Models | Correspondence |
|---|---|---|
| `PacedGrants` | what the limiter promises | `Grant` is a return of `wait()`, allowed one interval after the last |
| `RateLimiter` | `RateLimiter` of `ratelimit.hpp` | `tokens`, `last`, `mutex` are `tokens_`, `last_`, `mutex_`; `TakeToken` is the branch with a token, `Refill`, `BeginSleep`, `Wake` the branch that sleeps; `disabled` is `rate_ <= 0.0`; `Tick` is the clock |
| `RateLimiterProofs` | | proofs about `RateLimiter` |
| `AtomicReplace` | what a download promises | `Install` replaces the file and reports success at once, `GiveUp` leaves it |
| `AtomicFile` | `write_file_atomic` | `partLink` and `destLink` are the two names, `content` the inodes; one action per call and per failure of a call |
| `AtomicFileProofs` | | proofs about `AtomicFile` |
| `Endpoints` | the methods of `VirusTotal` | a row per method: its checks, encodings, waits, exchanges and decodings in the order of the source |
| `EndpointsProofs` | | lemmas on the rows: the few shapes they have, and what a decoder makes of an answer |
| `Responses` | `response.cpp` and the parsers' two kinds | `ThrowForStatus`, `Decoded` |
| `ClientCalls` | one call of any method | runs a row of `Endpoints`, with the batches, the handlers of `NotFound` and everything the network may do |
| `ClientCallsProofs` | | proofs about `ClientCalls` |
| `AwaitAnalysis` | `await_analysis` | `Begin` is the clamps, then `Request`, `Answer`, `Arrive`, and one of `Return`, `TimeOut`, `Sleep`; the limiter is `PacedGrants` |
| `AwaitAnalysisProofs` | | proofs about `AwaitAnalysis` |
| `Parsers` | the parsers of the models | a parser is its sections and the accessor of each field, `Taken` what an accessor makes of what it finds, `Throws` and `Field` the outcome |
| `InputsProofs` | | proofs about documents, encodings and validators, over `MCInputs`, `Parsers`, `Codec` and `Hosts` |
| `Codec` | `base64.hpp`, `url.hpp` | one operator per function; the loops of `base64_decode` and `percent_encode` are `DecodeScan` and `EncodeScan`, functions from the number of characters read to the variables of the loop; below the line, the definitions they are compared with |
| `Hosts` | `is_valid_ip`, `is_valid_domain` | the loops are `V6Scan`, `V4Scan` and `DomainScan`, with `V6Step`, `V4Step`, `DomainStep` for a turn; below the line, the same said of whole parts |
| `EicarCli` | `vtapi_eicar` | one action per branch of `parse_options`, `main` and the `run_` functions; the method called is a row of `Endpoints`; `Touch` is what others do to the file |
| `EicarCliProofs` | | proofs about `EicarCli` |
| `HttpHandle` | `HttpClient` | `options` is what curl has been told, `heap` the objects it may point to; an action per verb, then `Attach`, `Transfer`, and `Return` or `Throw` as `perform` has them |
| `HttpHandleProofs` | | proofs about `HttpHandle` |

Composition: `RateLimiter` implements `PacedGrants` (`Paced`, proved), and
`AwaitAnalysis` uses `PacedGrants` in place of the limiter. `ClientCalls` and
`EicarCli` run `Endpoints` through `Responses`. That `Responses` may take every
parser for one of two kinds, strict and lenient, is what `KindsAgree` shows of
`Parsers`. Its `store` step is what `AtomicFile` models
in detail, its exchange what `HttpHandle` does, its `wait` what `RateLimiter`
does.

### Abstractions

- *Time* is a natural number. In `RateLimiter` a token is `Interval` units of
  credit and a tick earns one, so that the refill has no rounding; the
  floating-point arithmetic of the code is not modelled. Of a limiter with a
  rate of zero (`disabled`) the grants are not paced, and the division by the
  rate would make a sleep without end. In `AwaitAnalysis` time
  is in seconds, a step is late by `Slack` at most and a transfer takes
  `Transfer` at most; a clock that cannot pass `due` says so.
- *Files*: a body is a number of chunks, an inode remembers which download
  wrote each, so that a mixture can be told from a whole body. Loss of power,
  as opposed to the end of the process, is not modelled. Which calls may fail
  is `faults`, one of the constant `FaultSets`: those whose failure the code
  notices, or all of them, the flush by the destructor included.
- *Arguments* of `ClientCalls` are good, bad (refused by the check the method has; for
  `get_url_report`, an id) or garbled (not UTF-8). Which texts are which is what
  `Hosts` has.
- *Texts*: in `Codec` a byte is a number; in `Hosts` a character is a string of
  length one, a few letters stand for all, and the limits (8 groups, 63 and 253
  characters) are constants, so that short texts reach them; 255 is kept. Of
  the decoder's 32 bit buffer only the last 12 bits are kept, all that is ever
  looked at.
- *Documents*: a place of a document, a section or a field, is fine, absent,
  null, of another type, or an integer of more than 32 bits. All elements of an
  array are one section.
- *The command line* is chosen argument by argument, from the options and a few
  words: one long enough for a key and well-formed as a hash, two numbers,
  "nan", the commands and the empty text. The file is a version number that
  others may raise or set to none at any time. A content is the version that
  was read, negative where a read error ended the reading early: the tests of
  the stream after it (`client.cpp:84`, `client.cpp:163`, `main.cpp:170`) can
  never fire, since `istreambuf_iterator` sets no state of the stream. The other
  outcome of a read error is an exception that nothing catches; which one it is
  depends on the standard library. A timeout is some seconds or, for zero and
  below, never.
- *Answers* have a status and a body that is complete, mistyped or bare. Error
  bodies only decide the text of the exception. A server that answers with a
  success has carried the request out; with a 500, or with no answer, it may
  have.
- *The handle*: URL, timeouts and the rest of what every exchange sets alike
  are represented by the verification flag. Assigning `post_buffer_` always moves it,
  the least that C++ promises. Running out of memory is left out. The texts of
  a form's fields hold no NUL: one would end the field, since it is given to
  libcurl as `CURL_ZERO_TERMINATED` (`http.cpp:206`); the bytes of a file may be
  any.

## Runs

| Run | Question | Bounds |
|---|---|---|
| `limiter` | Is `wait()` paced, prompt and never stuck, with a rate and without? | three threads, four calls, a token per three ticks. Three threads are one that sleeps, one that queues and one that takes the token just before or after; four calls make three consecutive gaps; the clock goes to 8, beyond what a full queue of sleepers needs to start |
| `download` | Is the destination replaced atomically, and the temporary file gone? Does it change only on success, also with errors nobody notices? | three downloads to two destinations, two chunks: a left-over of a crash, a retry over it, and a third party on another or the same path; two chunks make a partial file; `SeenOrAll` faults, the ones the code notices or all |
| `download_flush` | violated, see below | one download |
| `calls` | Does every method keep its contract? | every method, batches of up to three items: a first, a middle and a last one |
| `calls_missing`, `calls_foreign`, `calls_other_success` | violated, see below | batches of one |
| `await` | Is the deadline kept from both sides, and the server not polled too often? | timeouts and intervals below and above the clamps, intervals below and above the limiter's pace, a transfer of up to two seconds |
| `handle` | Is each exchange its own? | three exchanges, bodies of none, one and two bytes, forms of one and two parts |
| `inputs` | Do encodings and validators do what their definitions say? Is each parser of its kind, and which numbers does it narrow? | every byte alone; bytes, among them the ones with all bits set or none, up to five, so that each tail follows a whole group; encoded texts of five characters with padding, white space and both odd digits; quads up to nine characters, with octets on either side of 255; more groups, longer labels and domains than the limits, three, three and six, allow; for each of 27 parsers, all documents with up to two odd places, since one may hide the other |
| `inputs_literals` | violated, see below | texts of up to four characters; eight groups, as in the code |
| `cli` | What do the exit code and the printed hash of `vtapi_eicar` mean? | six arguments: an option and its value, the command, one of its options and its value, and one more; three versions of the file: uploaded, hashed, and one in between; each reading of it whole, short or failed |

`CHECK_DEADLOCK FALSE` is set because the systems stop: a call returns, the
callers stop calling, a bound is reached.

The properties that relate several steps or several parts of the state:
`BurstFree` (any two grants, however far apart), `NoNeedlessSleep`, `Implements`
and `Paced` (refinement), `CleansUp` and `OnlySuccessChangesDest` (what a step
may never do), `BatchIsPrefix`, `AtMostOnce`, `ReturnMeansDone`,
`ExceptionNamesCause`, `TimeOutIsDue`, `NotMuchLate`, `PollsArriveApart` (what the
server sees, where the limiter alone promises nothing of a second poll that
overtakes the delay of the first), `WireIsIntent`, `NoDanglingUse`,
`PrintedIsUploaded`, `SuccessIsReported`.

### Fairness

Two properties need it. For `Progress` the clock goes on, and a thread that can take its next
step inside `wait()` does so in the end. That is what an operating system's
scheduler gives. Nothing is assumed of which thread gets the mutex, since
`std::mutex` is not fair, and so `Progress` promises a grant to somebody and
not to everybody. The calls to `wait()` themselves are not fair: callers may
stop. For `Exits` the program takes its next step
in the end, whatever others do to the file, and a transfer ends when there is a
timeout for it, which is what `CURLOPT_TIMEOUT` gives (`http.cpp:82`); with
`--timeout 0` there is none and the property promises nothing.
`AwaitAnalysis` needs no fairness: its steps have a latest time, which the clock
cannot pass, and `NotMuchLate` is a safety property.

### Violated statements

- `download_flush`: the stream is closed by its destructor (`client.cpp:117`),
  which cannot report that the last buffer was not written. The rename then puts
  a truncated file in place and the call returns. Small bodies are written by
  that flush alone. `client.cpp:100` and `client.hpp:99-100` promise otherwise.
- `calls_missing`: a 404 is not always `NotFound`, in two ways.
  `get_saved_searches` and `get_saved_search` turn it into an empty value,
  against `README.md:257` and `CONTRIBUTING.md:45-47`; and
  `get_url_report(id, true)` of an unknown id throws `VtError` from the nested
  `scan_url`. TLC stops at whichever it finds first.
- `calls_foreign`: `nlohmann::json::type_error` leaves the client, from `dump()`
  of a text that is not UTF-8 and from parsers that use `value()` and `get()`,
  against `README.md:252`.
- `calls_other_success`: a success other than 200, 201 and 204, such as 202, is
  thrown as `ApiError` (`response.cpp:66-73`), which `README.md:259` keeps for
  "any other non-2xx status"; `response.cpp:35-36` takes it that no 2xx comes
  there. `ExceptionNamesCause` states the other rows of that table.
- `inputs_literals`: `is_valid_ip` counts the groups between colons and looks at
  nothing else. It accepts `1:`, `1:2` or a group of nine digits, and refuses
  `::` and `::ffff:1.2.3.4`, against the comment at `client.cpp:339-341`, by
  which all but IPv4 and IPv6 literals is rejected. `IsIPv6` of `Hosts` is RFC
  4291, `IsColonHex` what is accepted; `AddressesAccepted` states what holds: no
  other literal is refused, and nothing with a foreign character or with too
  many groups gets through.

Met while modelling, without a run of their own:

- Two downloads to one destination share one `.part`, and with
  `Exclusive = FALSE` TLC finds the destination partial.
- A read error goes unnoticed by the tests at `client.cpp:84`, `client.cpp:163`
  and `main.cpp:170`, though `main.cpp:161-162` says that `read_file` "Returns
  false when the file cannot be opened or read". With libstdc++ it is a
  `std::ios_base::failure`, which is no `VtError` (`README.md:252`) and ends
  `vtapi_eicar` by `std::terminate`; with libc++ and on Windows a part of the
  file is uploaded, or hashed, as if it were all (`ReadEndsEarly`,
  `HashEndsEarly` of `EicarCli`), so that the printed hash need not be that of
  the upload. `PrintedIsUploaded` excepts just this.
- `hex_hash` throws `std::runtime_error`, which ends the program by
  `std::terminate` too. `README.md:156` lists exit codes 0, 1 and 2 only. (No
  decoder of its three commands throws an exception of the JSON library.)
- A field of a form, such as the password of an upload, is cut at its first NUL
  (`http.cpp:206`).
- The strict parsers read 64 bit dates and counts with `value(key, 0)` and keep
  32 bits of them; `IntegersKept` is therefore stated of the lenient ones. They
  also throw for one engine's null verdict, where `analysis_report_from_json`
  skips it.
- A rate that is not a number paces nothing.

## Proofs

`tlapm` checks the theorems below for every value of the constants that meets
the named assumptions: `LimiterAssumption`, `DownloadAssumption`,
`AwaitAssumption`, `CallAssumption`, `HandleAssumption`, `CliAssumption`,
`LimitAssumption` (the limits of the validators are positive numbers). They
give the bounds and durations their types and say that bodies and forms are
sequences and that a form has a part. Of every safety property that a passing run checks there is a theorem.

**Limiter.** `TypeCorrect` and `PacingCorrect` show `TypeOK` and `PacingInv`
invariant, for any number of threads and any interval. `PacingInv` is the
inductive strengthening: `LockInv` says that the owner of the mutex is the one
caller between `Refill` and `Wake`; `CreditInv` that the credit in the bucket is
exactly the time from the last grant to the last refill, that a free limiter
has none, and that a sleeper's deadline is at least an interval after the last
grant. Without `LockInv` two sleepers could wake on one credit; without the
equation for the credit the branch that takes a token says nothing of the last
grant. From it follow `LimiterPaces` (each grant is a `Grant` of `PacedGrants`,
each other step a tick or a stutter), `NoBurst` (by induction along behaviours:
a new grant is an interval after the last one, which was far enough from all
before) and `NoIdleSleep`. A limiter with a rate of zero is part of all this:
`PacingInv` has nobody inside it, and what it grants is not among the grants
that `BurstFree` and `Paced` speak of.

**Download.** `TypeCorrect` needs no assumption on the faults.
The others but `NothingTemporaryLeft` assume `Exclusive`, that live downloads of
one destination are kept apart. What the code cannot do where its flush fails
unseen is excepted in the properties: `NeverPartial` and `Implements` speak of
the behaviours in which the flush is no fault, every other fault and crashes
allowed. `FileInv` is the
inductive invariant: a fresh download's inode has no name (`FreshInv`), a
temporary file is no destination and belongs to one name (`PartInv`), working
downloads are alone on their destination (`AloneInv`), own their temporary
file, and, unless a flush can fail, have written all of it when they come to the
rename (`OwnInv`).
Both restrictions are needed: `download_flush` shows the one, the remark on
`Exclusive` the other. `ChangesOnSuccess` follows from the same invariant: what is written goes to no
destination's inode, so that only a rename changes what a reader finds. `NothingTemporaryLeft` needs
no assumption on the downloads and no invariant but the types, only that files can be removed:
each way out of the working states takes the name away in the same step.

**Polling.** `TypeCorrect`, `PollsKeptApart`, `NoEarlyTimeOut` and
`BoundedOverrun` hold for any arguments, negative ones included, any pace,
longest transfer and lateness. `LoopInv` is the inductive invariant: no step is
later than `due` (`ClockInv`); the arguments are clamped once (`ClampInv`); how
far `due` may be from the last second in which the loop goes on, at each place
of the loop (`RoundInv`), where the limiter adds nothing to a sleep longer than
its pace because the last grant is then no later than `LastLook`; an answer that
missed the completion is at most a transfer and two late steps younger than it
(`AnswerInv`); and the loop is back at the limiter an interval after its last
grant (`GapInv`). Without `RoundInv` a sleep and a wait for a token would add
up, and the bound with them. `PollsKeptApartAtServer` adds `ArrivalInv`, because
the invariant above knows the times of the grants only, and a poll may take any
part of `Transfer` to arrive: a poll is at the server no earlier than it was
granted, the next one an interval after that, and the last grant is as many
paces after an arrival as there were polls since. The distance of any two polls
then follows by adding one term for each new poll.

**Calls.** The rows of `Endpoints` are a hundred and more, but of few shapes,
and `EndpointsProofs` shows that each row has one of them and what `Decoded` may
make of an answer. All else is proved of shapes: `Unpaced` is what may be left to
do without a token, `Ready` with one, so that `TicketInv` carries
`RequestsArePaced` through a caught `NotFound` and from item to item.
`CallInv` is the inductive invariant. `AnswerInv` says that what is decoded is
the answer to the last exchange, and `DoneInv` that nothing is over before that
answer was a success, the look-up of saved searches excepted; from both follows
`ReturnsAreTrue`. `NothingIsSentTwice` and `BatchesInOrder` need different
reasons: one call has one changing step, which is gone once it is taken
(`SingleInv`); a batch repeats it, but its k-th exchange is for its k-th
item (`BatchInv`), which holds for any `MaxItems`. `ReportInv` lists where
`get_url_report` is before and after the exception it catches, for
`ScansAreWanted`. `InvalidInv` holds a call with a refused argument at its first
step, for `InvalidIsRefused`. `ExceptionsAreTrue` needs `ClearInv` to hold in both
directions: between a refusal and the end of the call there is no step but its
decoder, so that no 403, 429 or lost answer is passed over.

**Handle.** For any bodies and forms, any number of exchanges and default
headers, `HandleInv` is inductive: lists, forms and responses that live are
those of the exchange that is going on, and at most one copy of a body does
(`LocalsInv`); once `perform` has set them, the pointers lead to these
objects (`PointersInv`), whose contents are the request's (`HeadersInv`,
`BodyInv`). Between exchanges the options may point to what has been freed, as
they do in the code; that `Reset` clears them before the next exchange is what
makes `RequestsAreTheirOwn` and `PointersAreAlive` hold. `MemoryIsFreed` follows
from `LocalsInv`.

**Command line.** For command lines of any length and any number of changes of
the file, `CliInv` says what has been sent and answered at each step of the
method (`ReportInv`, `ScanInv`, `LargeScanInv`), which commands come to which
part of the program (`PhaseInv`), and that the file is what was read, if all of
it was, until somebody touches it (`FileInv`). It gives `ExitCodesCorrect`,
`PrintedHashCorrect` and `SuccessReported`.

**Documents.** `MCInputs` has documents with up to `MaxOdd` odd places;
`KindsAlwaysAgree` and `IntegersAlwaysKept` hold for any `MaxOdd`, so for every
document. `DocumentInv` says that what is odd is at places of the parser and
possible there. Of the strict parsers nothing more is needed, since no accessor
throws at what is absent. For the lenient ones their tables count: each section
is skipped when it is no object, and each field read by `json_string` and its kin (`Mild`), which
is shown of every table from the operators it is built with.

**Texts.** `AddressesExact`, `DomainsExact`, `DecodingExact` and `EncodingsExact`
are about texts of any length and, for the validators, any limits; the
theorems `AddressesAlwaysAccepted`, `DomainsAlwaysAccepted`, `DecodeAlwaysExact`
and `EncodingsAlwaysRestore` follow for the runs with any bounds, from
`TextInv`, that a text is of the characters of its kind. A loop is a function of
the place it has come to. `CourseExists` shows that there is such a function and
`UpTo` that what holds at the start and is kept by each turn holds at every
place; both from the least place where it would not, so that no induction
theorem with an operator parameter is needed. Then each loop has an invariant:

- the scan of colons has counted the groups that have started so far, but for
  the one it is in, and has stopped only if some character is foreign;
- the scan of quads knows the value and the length of the octet it is in, the
  number of dots behind it, and that all parts between them are octets; or it
  has stopped and the text is no quad;
- the scan of domains knows the same of labels, the character before, and
  whether the label it is in has a letter; or it has stopped and some part is
  no label;
- the decoder has put out the bytes, and keeps in the buffer the bits left over,
  of the digits that it has read, which are those of `Payload`;
- the reader of a path segment is, after each escape, as far in the bytes as the
  encoder was when it wrote it.

That an encoding represents its bytes is shown of each digit, which is a slice
of one or two bytes at its place in the group of three, in the tail as elsewhere.
The round trip then needs no second look at the encoder: `DecodingExact` says
that what is decoded is represented by the digits, the encoding represents the
original, and digits represent one byte string only.

**Only model-checked**: `Progress` and `Exits`, which are liveness and out of the
prover's reach. The statements of the five runs above that end in a violation
are not proved, being false.

## Not modelled

The digests themselves, which are OpenSSL's calls on one buffer, and the vendored
JSON library (no state, nothing to interleave; of its calls what they do with
absent, null, mistyped and wide values is in `Parsers`); the texts of
exceptions, of usage and of output; which member of a model a field is copied
to; plain structs, constants and version numbers; construction and destruction
of the handle; what a proxy or a redirect does inside libcurl; loss of power.

## Plan

1. *Done*: the limiter, since every request depends on it; the atomic download;
   the endpoints; the polling loop; the handle; the command line; the encodings
   and validators; the parsers; each with its proofs.
2. `PacedClient`: `RateLimiter` under several `ClientCalls`, with the times of
   the exchanges, so that what `PollsArriveApart` says of one loop is stated of
   every client, and its refinement of `PacedGrants` from `LimiterPaces` and
   `RequestsArePaced`.
3. Loss of power, in `AtomicFile`, should the library come to call `fsync`.
