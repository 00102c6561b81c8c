---------------------------- MODULE HttpHandleProofs ----------------------------
(***************************************************************************)
(* Machine-checked proofs about detail::HttpClient, for any number of      *)
(* exchanges and any headers, bodies and forms.                            *)
(***************************************************************************)
EXTENDS HttpHandle, SequenceTheorems, TLAPS

\* An object is its kind and its exchange, and the null pointer is none.
LEMMA ObjectFacts ==
    /\ \A kind, n : /\ Object(kind, n)[1] = kind /\ Object(kind, n)[2] = n
    /\ \A n : /\ Object("buffer", n) # Null /\ Object("slist", n) # Null
              /\ Object("mime", n) # Null /\ Object("resp", n) # Null
    /\ \A object \in Objects :
           /\ object[1] \in {"buffer", "slist", "mime", "resp"}
           /\ object[2] \in 1..MaxCalls
           /\ object = Object(object[1], object[2])
    /\ \A n \in 1..MaxCalls :
           {Object("buffer", n), Object("slist", n), Object("mime", n),
            Object("resp", n)} \subseteq Objects
    BY DEF Object, Objects, Null

\* The options of an exchange before its own are set: nothing is left of an
\* earlier one.
LEMMA CommonFacts ==
    ASSUME TypeOK
    PROVE  /\ CommonOptions =
                  [verify |-> settings.verify, optional |-> settings.optional,
                   custom |-> "none", kind |-> "GET", fields |-> Null, size |-> -1,
                   version |-> "any", headers |-> Null, mime |-> Null,
                   sink |-> Null]
           /\ CommonOptions \in Options
<1>1. settings.optional \subseteq Optional /\ settings.verify \in BOOLEAN
    BY DEF TypeOK
<1>2. /\ FreshOptions.optional = {}
      /\ {} \cup settings.optional = settings.optional
    BY DEF FreshOptions
<1>3. CommonOptions =
          [FreshOptions EXCEPT !.verify = settings.verify,
                               !.optional = settings.optional]
    BY <1>2, Zenon DEF CommonOptions, Reset
<1>4. CommonOptions =
          [verify |-> settings.verify, optional |-> settings.optional,
           custom |-> "none", kind |-> "GET", fields |-> Null, size |-> -1,
           version |-> "any", headers |-> Null, mime |-> Null, sink |-> Null]
    BY <1>3 DEF FreshOptions
<1>5. Null \in Pointers /\ -1 \in Sizes
    BY DEF Pointers, Sizes
<1> QED
    BY <1>1, <1>4, <1>5 DEF Options

-----------------------------------------------------------------------------

\* What an exchange hands over: options and objects that amount to the request.
IsRequested(method, body, told, objects) ==
    \/ /\ Object("mime", calls + 1) \in DOMAIN objects
       /\ objects[Object("mime", calls + 1)] = body
       /\ method = "POST" /\ told.custom = "none" /\ told.fields = Null
    \/ /\ Object("mime", calls + 1) \notin DOMAIN objects
       /\ told.kind # "MIME"
       /\ method = IF told.custom # "none" THEN told.custom
                   ELSE IF told.kind = "GET" THEN "GET"
                   ELSE "POST"
       /\ \/ /\ body = <<>> /\ told.fields = Null
             /\ told.kind = "POST" => told.size = 0
          \/ /\ body \in Bodies /\ told.kind = "POST" /\ told.size = Len(body)
             /\ told.fields = Object("buffer", calls + 1)
             /\ told.fields \in DOMAIN objects
             /\ objects[told.fields] = body

AreOptions(told) ==
    /\ told \in Options
    /\ told.verify = settings.verify /\ told.optional = settings.optional
    /\ told.headers = Null /\ told.mime = Null /\ told.sink = Null

AreObjects(headers, objects) ==
    /\ DOMAIN objects \subseteq Objects
    /\ \A o \in DOMAIN objects :
           o[1] # "buffer" =>
               o \in {Object("slist", calls + 1), Object("mime", calls + 1)}
    /\ \A one, other \in DOMAIN objects :
           one[1] = "buffer" /\ other[1] = "buffer" => one = other
    /\ headers # <<>> <=> Object("slist", calls + 1) \in DOMAIN objects
    /\ headers # <<>> => objects[Object("slist", calls + 1)] = headers

\* An exchange that begins with these keeps the invariant.
LEMMA BeginStep ==
    ASSUME TypeOK, HandleInv,
           NEW method, NEW version, NEW body, NEW headers, NEW told, NEW objects,
           Begin(method, version, body, headers, told, objects),
           told.version = version, AreOptions(told), AreObjects(headers, objects),
           IsRequested(method, body, told, objects)
    PROVE  TypeOK' /\ HandleInv'
<1>1. /\ calls' = calls + 1 /\ options' = told /\ heap' = objects
      /\ intent' = [method |-> method, body |-> body, headers |-> headers,
                    version |-> version, verify |-> settings.verify,
                    optional |-> settings.optional]
      /\ pc' = "perform" /\ settings' = settings
      /\ calls < MaxCalls
    BY DEF Begin
<1>2. calls \in Nat /\ calls + 1 \in 1..MaxCalls /\ calls + 1 \in 0..MaxCalls
    BY <1>1, HandleAssumption DEF TypeOK
<1>3. TypeOK'
    BY <1>1, <1>2 DEF TypeOK, AreOptions, AreObjects
<1>4. LocalsInv'
  <2>1. ASSUME NEW object \in DOMAIN objects, object[1] # "buffer"
        PROVE  object[2] = calls + 1 /\ object[1] # "resp"
    BY <2>1, ObjectFacts DEF AreObjects
  <2>2. \A one, other \in IsA("buffer")' : one = other
    BY <1>1 DEF AreObjects, IsA
  <2> QED
    BY <1>1, <2>1, <2>2 DEF LocalsInv
<1>5. PointersInv'
    BY <1>1, <1>2 DEF PointersInv, AreOptions
<1>6. HeadersInv'
    BY <1>1 DEF HeadersInv, AreObjects
<1>7. BodyInv'
    BY <1>1 DEF BodyInv, IsForm, IsEmpty, IsBuffer, SentMethod, IsRequested
<1>8. WireIsIntent'
    BY <1>1 DEF WireIsIntent
<1> QED
    BY <1>3, <1>4, <1>5, <1>6, <1>7, <1>8 DEF HandleInv

-----------------------------------------------------------------------------

\* Objects that are at most one buffer, as between exchanges.
OneBuffer(objects) ==
    /\ DOMAIN objects \subseteq Objects
    /\ \A o \in DOMAIN objects : o[1] = "buffer"
    /\ \A one, other \in DOMAIN objects : one = other

LEMMA IdleFacts ==
    ASSUME TypeOK, HandleInv, pc = "idle"
    PROVE  OneBuffer(heap)
    BY DEF OneBuffer, TypeOK, HandleInv, LocalsInv, IsA

\* It stays at most one when a body is copied.
LEMMA BufferFacts ==
    ASSUME TypeOK, HandleInv, pc = "idle", calls < MaxCalls, NEW body \in Bodies
    PROVE  /\ OneBuffer(Buffered(body))
           /\ body # <<>> =>
                  /\ Object("buffer", calls + 1) \in DOMAIN Buffered(body)
                  /\ Buffered(body)[Object("buffer", calls + 1)] = body
<1>1. OneBuffer(heap)
    BY IdleFacts
<1>2. CASE body = <<>>
    BY <1>1, <1>2 DEF Buffered
<1>3. CASE body # <<>>
  <2> DEFINE others == Restrict(heap, DOMAIN heap \ IsA("buffer"))
             buffer == Object("buffer", calls + 1)
  <2>1. DOMAIN others = {}
    BY <1>1 DEF Restrict, OneBuffer, IsA
  <2>2. Buffered(body) = With(others, buffer, body)
    BY <1>3 DEF Buffered
  <2>5. /\ DOMAIN With(others, buffer, body) = DOMAIN others \cup {buffer}
        /\ With(others, buffer, body)[buffer] = body
    BY DEF With
  <2>3. /\ DOMAIN Buffered(body) = {buffer}
        /\ Buffered(body)[buffer] = body
    BY <2>1, <2>2, <2>5
  <2>4. buffer \in Objects /\ buffer[1] = "buffer"
    BY ObjectFacts, HandleAssumption DEF TypeOK
  <2> QED
    BY <1>1, <2>3, <2>4 DEF OneBuffer
<1> QED
    BY <1>2, <1>3

\* The list of headers is added when there are headers.
LEMMA ListedFacts ==
    ASSUME TypeOK, calls < MaxCalls,
           NEW objects, OneBuffer(objects), NEW headers
    PROVE  /\ AreObjects(headers, Listed(objects, headers))
           /\ Object("mime", calls + 1) \notin DOMAIN Listed(objects, headers)
           /\ \A o \in DOMAIN objects :
                  /\ o \in DOMAIN Listed(objects, headers)
                  /\ Listed(objects, headers)[o] = objects[o]
<1> DEFINE slist == Object("slist", calls + 1)
           mime == Object("mime", calls + 1)
<1>1. /\ slist \in Objects /\ slist[1] = "slist" /\ mime[1] = "mime"
    BY ObjectFacts, HandleAssumption DEF TypeOK
<1>2. slist \notin DOMAIN objects /\ mime \notin DOMAIN objects /\ slist # mime
    BY <1>1 DEF OneBuffer
<1>3. CASE headers = <<>>
  <2>1. Listed(objects, headers) = objects
    BY <1>3 DEF Listed
  <2> QED
    BY <1>2, <1>3, <2>1 DEF OneBuffer, AreObjects
<1>4. CASE headers # <<>>
  <2> DEFINE listed == Listed(objects, headers)
  <2> HIDE DEF listed, slist
  <2>1. listed = With(objects, slist, headers)
    BY <1>4 DEF Listed, listed, slist
  <2>2. /\ DOMAIN listed = DOMAIN objects \cup {slist}
        /\ listed[slist] = headers
        /\ \A o \in DOMAIN objects \ {slist} : listed[o] = objects[o]
    BY <2>1 DEF With
  <2> HIDE DEF listed, slist, mime
  <2>3. AreObjects(headers, listed)
    BY <1>1, <1>2, <1>4, <2>2 DEF OneBuffer, AreObjects, slist, mime
  <2> QED
    BY <1>2, <2>2, <2>3 DEF listed, slist, mime
<1> QED
    BY <1>3, <1>4

\* The body is in the options, and in the buffer, or there is none.
LEMMA BodyFacts ==
    ASSUME TypeOK, HandleInv, pc = "idle", calls < MaxCalls,
           NEW body \in Bodies, NEW told, AreOptions(told), told.fields = Null,
           told.kind \in {"GET", "POST"}, told.custom \in {"none", "DELETE", "PATCH"},
           told.custom = "none" => told.kind = "POST",
           NEW headers
    PROVE  LET objects == Listed(Buffered(body), headers)
               method == IF told.custom = "none" THEN "POST" ELSE told.custom
           IN  /\ AreOptions(BodyOptions(told, body))
               /\ BodyOptions(told, body).version = told.version
               /\ AreObjects(headers, objects)
               /\ IsRequested(method, body, BodyOptions(told, body), objects)
               /\ body = <<>> /\ told.kind = "GET" =>
                      IsRequested(method, body, told, objects)
<1> DEFINE objects == Listed(Buffered(body), headers)
           method == IF told.custom = "none" THEN "POST" ELSE told.custom
           buffer == Object("buffer", calls + 1)
           sent == BodyOptions(told, body)
<1>1. /\ OneBuffer(Buffered(body))
      /\ body # <<>> =>
             buffer \in DOMAIN Buffered(body) /\ Buffered(body)[buffer] = body
    BY BufferFacts
<1> HIDE DEF buffer
<1>2. /\ AreObjects(headers, objects)
      /\ Object("mime", calls + 1) \notin DOMAIN objects
      /\ \A o \in DOMAIN Buffered(body) :
             o \in DOMAIN objects /\ objects[o] = Buffered(body)[o]
    BY <1>1, ListedFacts
<1> HIDE DEF objects
<1>3. buffer \in Pointers
    BY ObjectFacts, HandleAssumption DEF TypeOK, Pointers, buffer
<1>4. Len(body) \in Sizes /\ (body = <<>> => 0 \in Sizes)
    BY DEF Sizes
<1>5. CASE body = <<>>
  <2>1. sent = [told EXCEPT !.size = 0]
    BY <1>5 DEF BodyOptions
  <2>2. /\ sent.size = 0 /\ sent.kind = told.kind /\ sent.custom = told.custom
        /\ sent.fields = Null /\ sent.version = told.version
    BY <2>1 DEF AreOptions, Options
  <2>3. AreOptions(sent)
    BY <1>4, <1>5, <2>1 DEF AreOptions, Options
  <2> HIDE DEF sent
  <2>4. IsRequested(method, body, sent, objects)
    BY <1>2, <1>5, <2>2 DEF IsRequested
  <2>5. told.kind = "GET" => IsRequested(method, body, told, objects)
    BY <1>2, <1>5 DEF IsRequested
  <2> QED
    BY <1>2, <2>2, <2>3, <2>4, <2>5 DEF sent, objects
<1>6. CASE body # <<>>
  <2>1. sent = [told EXCEPT !.kind = "POST", !.size = Len(body), !.fields = buffer]
    BY <1>6 DEF BodyOptions, buffer
  <2>2. /\ sent.size = Len(body) /\ sent.kind = "POST"
        /\ sent.custom = told.custom /\ sent.fields = buffer
        /\ sent.version = told.version
    BY <2>1 DEF AreOptions, Options
  <2>3. AreOptions(sent)
    BY <1>3, <1>4, <2>1 DEF AreOptions, Options
  <2> HIDE DEF sent
  <2>4. buffer \in DOMAIN objects /\ objects[buffer] = body
    BY <1>1, <1>2, <1>6
  <2>5. IsRequested(method, body, sent, objects)
    BY <1>2, <2>2, <2>4 DEF IsRequested, buffer
  <2> QED
    BY <1>2, <1>6, <2>2, <2>3, <2>5 DEF sent, objects
<1> QED
    BY <1>5, <1>6

\* Each kind of exchange hands over options and objects of this kind.
LEMMA ExchangeStep ==
    ASSUME TypeOK, HandleInv,
           Get \/ Del \/ DelBody \/ Patch \/ Post \/ PostMultipart
    PROVE  TypeOK' /\ HandleInv'
<1> DEFINE common == CommonOptions
<1>1. /\ common =
             [verify |-> settings.verify, optional |-> settings.optional,
              custom |-> "none", kind |-> "GET", fields |-> Null, size |-> -1,
              version |-> "any", headers |-> Null, mime |-> Null, sink |-> Null]
      /\ common \in Options
    BY CommonFacts
<1>2. /\ AreOptions(common)
      /\ common.custom = "none" /\ common.kind = "GET" /\ common.fields = Null
      /\ common.version = "any"
    BY <1>1 DEF AreOptions
<1>3. pc = "idle" /\ calls < MaxCalls
    BY DEF Get, Del, DelBody, Patch, Post, PostMultipart, Begin
<1> HIDE DEF common
<1>4. OneBuffer(heap)
    BY <1>3, IdleFacts
<1> DEFINE listed == Listed(heap, settings.headers)
           mime == Object("mime", calls + 1)
<1>5. AreObjects(settings.headers, listed) /\ mime \notin DOMAIN listed
    BY <1>3, <1>4, ListedFacts
<1>6. CASE Get
  <2>1. PICK extra \in Extras :
            LET headers == settings.headers \o extra
            IN  Begin("GET", "any", <<>>, headers, common, Listed(heap, headers))
    BY <1>6 DEF Get, common
  <2> DEFINE headers == settings.headers \o extra
             objects == Listed(heap, headers)
  <2>2. Begin("GET", "any", <<>>, headers, common, objects)
    BY <2>1
  <2> HIDE DEF headers
  <2>3. AreObjects(headers, objects) /\ mime \notin DOMAIN objects
    BY <1>3, <1>4, ListedFacts
  <2> HIDE DEF objects
  <2>4. IsRequested("GET", <<>>, common, objects)
    BY <1>2, <2>3 DEF IsRequested
  <2> QED
    BY <1>2, <2>2, <2>3, <2>4, BeginStep
<1>7. CASE Del
  <2> DEFINE told == [common EXCEPT !.custom = "DELETE"]
  <2>1. AreOptions(told) /\ told.custom = "DELETE" /\ told.kind = "GET"
        /\ told.fields = Null /\ told.version = "any"
    BY <1>1, <1>2 DEF AreOptions, Options
  <2>2. PICK extra \in Extras :
            LET headers == settings.headers \o extra
            IN  Begin("DELETE", "any", <<>>, headers, told, Listed(heap, headers))
    BY <1>7 DEF Del, common
  <2> DEFINE headers == settings.headers \o extra
             objects == Listed(heap, headers)
  <2>3. Begin("DELETE", "any", <<>>, headers, told, objects)
    BY <2>2
  <2> HIDE DEF told, headers
  <2>4. AreObjects(headers, objects) /\ mime \notin DOMAIN objects
    BY <1>3, <1>4, ListedFacts
  <2> HIDE DEF objects
  <2>5. IsRequested("DELETE", <<>>, told, objects)
    BY <2>1, <2>4 DEF IsRequested
  <2> QED
    BY <2>1, <2>3, <2>4, <2>5, BeginStep
<1>8. CASE DelBody \/ Patch
  <2>1. PICK body \in Bodies, type \in ContentTypes, custom \in {"DELETE", "PATCH"} :
            LET told == [common EXCEPT !.custom = custom]
                headers == Append(settings.headers, type)
            IN  /\ Begin(custom, "any", body, headers,
                         IF custom = "DELETE" /\ body = <<>> THEN told
                         ELSE BodyOptions(told, body),
                         Listed(Buffered(body), headers))
    BY <1>8 DEF DelBody, Patch, common
  <2> DEFINE told == [common EXCEPT !.custom = custom]
             headers == Append(settings.headers, type)
             objects == Listed(Buffered(body), headers)
             sent == IF custom = "DELETE" /\ body = <<>> THEN told
                     ELSE BodyOptions(told, body)
  <2>2. /\ AreOptions(told) /\ told.custom = custom /\ told.kind = "GET"
        /\ told.fields = Null /\ told.version = "any"
    BY <1>1, <1>2 DEF AreOptions, Options
  <2>3. Begin(custom, "any", body, headers, sent, objects)
    BY <2>1
  <2> HIDE DEF told, headers
  <2>4. /\ AreOptions(BodyOptions(told, body))
        /\ BodyOptions(told, body).version = "any"
        /\ AreObjects(headers, objects)
        /\ IsRequested(custom, body, BodyOptions(told, body), objects)
        /\ body = <<>> => IsRequested(custom, body, told, objects)
    BY <1>3, <2>2, BodyFacts
  <2> HIDE DEF objects
  <2>5. /\ AreOptions(sent) /\ sent.version = "any"
        /\ IsRequested(custom, body, sent, objects)
    BY <2>2, <2>4
  <2> HIDE DEF sent
  <2> QED
    BY <2>3, <2>4, <2>5, BeginStep
<1>9. CASE Post
  <2> DEFINE told == [common EXCEPT !.kind = "POST"]
  <2>1. PICK body \in Bodies, type \in ContentTypes :
            LET headers == Append(settings.headers, type)
            IN  Begin("POST", "any", body, headers, BodyOptions(told, body),
                      Listed(Buffered(body), headers))
    BY <1>9 DEF Post, common
  <2> DEFINE headers == Append(settings.headers, type)
             objects == Listed(Buffered(body), headers)
  <2>2. /\ AreOptions(told) /\ told.custom = "none" /\ told.kind = "POST"
        /\ told.fields = Null /\ told.version = "any"
    BY <1>1, <1>2 DEF AreOptions, Options
  <2> HIDE DEF told, headers
  <2>3. /\ AreOptions(BodyOptions(told, body))
        /\ BodyOptions(told, body).version = "any"
        /\ AreObjects(headers, objects)
        /\ IsRequested("POST", body, BodyOptions(told, body), objects)
    BY <1>3, <2>2, BodyFacts
  <2> QED
    BY <2>1, <2>3, BeginStep DEF headers
<1>10. CASE PostMultipart
  <2> DEFINE told == [common EXCEPT !.version = "1.1"]
  <2>1. PICK form \in Forms :
            Begin("POST", "1.1", form, settings.headers, told,
                  With(listed, mime, form))
    BY <1>10 DEF PostMultipart, common
  <2> DEFINE objects == With(listed, mime, form)
  <2>2. /\ AreOptions(told) /\ told.custom = "none" /\ told.kind = "GET"
        /\ told.fields = Null /\ told.version = "1.1"
    BY <1>1, <1>2 DEF AreOptions, Options
  <2>3. mime \in Objects /\ mime[1] = "mime" /\ mime # Object("slist", calls + 1)
    BY <1>3, ObjectFacts, HandleAssumption DEF TypeOK
  <2> HIDE DEF told, listed, mime
  <2>4. /\ DOMAIN objects = DOMAIN listed \cup {mime}
        /\ objects[mime] = form
        /\ \A o \in DOMAIN listed : objects[o] = listed[o]
    BY <1>5 DEF With
  <2> HIDE DEF objects
  <2>5. AreObjects(settings.headers, objects)
    BY <1>5, <2>3, <2>4 DEF AreObjects, mime
  <2>6. IsRequested("POST", form, told, objects)
    BY <2>2, <2>4 DEF IsRequested, mime
  <2> QED
    BY <2>1, <2>2, <2>5, <2>6, BeginStep DEF objects
<1> QED
    BY <1>6, <1>7, <1>8, <1>9, <1>10

-----------------------------------------------------------------------------

\* perform() tells libcurl of the objects of this exchange.
LEMMA AttachStep ==
    ASSUME TypeOK, HandleInv, Attach
    PROVE  TypeOK' /\ HandleInv'
<1> DEFINE resp == Object("resp", calls)
           slist == Object("slist", calls)
           mime == Object("mime", calls)
<1>1. /\ pc = "perform" /\ pc' = "attached"
      /\ UNCHANGED <<settings, calls, intent, wire>>
      /\ heap' = With(heap, resp, <<>>)
    BY DEF Attach
<1>2. /\ calls \in 1..MaxCalls
      /\ options.headers = Null /\ options.mime = Null /\ options.sink = Null
      /\ intent = [method |-> intent.method, body |-> intent.body,
                   headers |-> intent.headers, version |-> options.version,
                   verify |-> options.verify, optional |-> options.optional]
    BY <1>1, HandleAssumption DEF TypeOK, HandleInv, PointersInv
<1>3. /\ {resp, slist, mime} \subseteq Objects
      /\ resp[1] = "resp" /\ resp[2] = calls
      /\ slist[1] = "slist" /\ mime[1] = "mime"
      /\ slist # Null /\ mime # Null
    BY <1>2, ObjectFacts
<1>4. Mine("slist") = (IF slist \in DOMAIN heap THEN slist ELSE Null)
      /\ Mine("mime") = (IF mime \in DOMAIN heap THEN mime ELSE Null)
    BY DEF Mine
<1>5. /\ options' \in Options
      /\ UNCHANGED <<options.verify, options.optional, options.version,
                     options.custom, options.fields, options.size>>
      /\ options'.sink = resp
      /\ options'.headers = Mine("slist")
      /\ options'.mime = Mine("mime")
      /\ options'.kind = (IF mime \in DOMAIN heap THEN "MIME" ELSE options.kind)
  <2> DEFINE told == [options EXCEPT !.sink = resp]
             listed == IF slist \in DOMAIN heap
                       THEN [told EXCEPT !.headers = slist] ELSE told
  <2>1. options' = IF mime \in DOMAIN heap
                   THEN [listed EXCEPT !.mime = mime, !.kind = "MIME"] ELSE listed
    BY <1>3, <1>4 DEF Attach
  <2>2. options \in Options /\ {resp, slist, mime} \subseteq Pointers
    BY <1>3 DEF TypeOK, Pointers
  <2> HIDE DEF resp, slist, mime
  <2>3. /\ told \in Options /\ told.sink = resp
        /\ told.verify = options.verify /\ told.optional = options.optional
        /\ told.version = options.version /\ told.custom = options.custom
        /\ told.fields = options.fields /\ told.size = options.size
        /\ told.kind = options.kind
        /\ told.headers = Null /\ told.mime = Null
    BY <1>2, <2>2 DEF Options
  <2> HIDE DEF told
  <2>4. /\ listed \in Options /\ listed.sink = resp
        /\ listed.verify = options.verify /\ listed.optional = options.optional
        /\ listed.version = options.version /\ listed.custom = options.custom
        /\ listed.fields = options.fields /\ listed.size = options.size
        /\ listed.kind = options.kind
        /\ listed.headers = Mine("slist") /\ listed.mime = Null
    BY <1>4, <2>2, <2>3 DEF Options
  <2> HIDE DEF listed
  <2> QED
    BY <1>4, <2>1, <2>2, <2>4 DEF Options
<1>6. /\ DOMAIN heap' = DOMAIN heap \cup {resp}
      /\ \A o \in DOMAIN heap : o # resp => heap'[o] = heap[o]
    BY <1>1 DEF With
<1>7. /\ resp # slist /\ resp # mime /\ resp # Object("buffer", calls)
      /\ slist \in DOMAIN heap' <=> slist \in DOMAIN heap
      /\ mime \in DOMAIN heap' <=> mime \in DOMAIN heap
    BY <1>3, <1>6, ObjectFacts
<1>8. TypeOK'
    BY <1>1, <1>3, <1>5, <1>6 DEF TypeOK
<1> HIDE DEF resp, slist, mime
<1>9. LocalsInv'
  <2>1. \A o \in DOMAIN heap' : o[1] = "buffer" => o \in DOMAIN heap
    BY <1>3, <1>6
  <2> QED
    BY <1>1, <1>3, <1>6, <2>1 DEF HandleInv, LocalsInv, IsA
<1>10. Mine("slist")' = Mine("slist") /\ Mine("mime")' = Mine("mime")
    BY <1>1, <1>7 DEF Mine, slist, mime
<1>11. PointersInv'
    BY <1>1, <1>2, <1>4, <1>5, <1>6, <1>10 DEF PointersInv, resp
<1>12. HeadersInv'
    BY <1>1, <1>6, <1>7 DEF HandleInv, HeadersInv, slist
<1>13. BodyInv'
    BY <1>1, <1>5, <1>6, <1>7
    DEF HandleInv, BodyInv, IsForm, IsEmpty, IsBuffer, SentMethod, mime
<1>14. WireIsIntent'
    BY <1>1 DEF WireIsIntent
<1> QED
    BY <1>8, <1>9, <1>11, <1>12, <1>13, <1>14 DEF HandleInv

\* What libcurl sends is the request.
LEMMA TransferStep ==
    ASSUME TypeOK, HandleInv, Transfer
    PROVE  TypeOK' /\ HandleInv'
<1>1. /\ pc = "attached" /\ pc' \in {"transferred", "failed"}
      /\ UNCHANGED <<settings, options, heap, calls, intent>>
    BY DEF Transfer
<1>2. /\ calls \in 1..MaxCalls
      /\ intent = [method |-> intent.method, body |-> intent.body,
                   headers |-> intent.headers, version |-> options.version,
                   verify |-> options.verify, optional |-> options.optional]
      /\ options.headers = Mine("slist") /\ options.mime = Mine("mime")
      /\ options.mime # Null => options.kind = "MIME"
    BY <1>1, HandleAssumption DEF TypeOK, HandleInv, PointersInv
<1>3. /\ Content(Null) = <<>>
      /\ \A o \in DOMAIN heap : Content(o) = heap[o]
  <2>1. Null \notin DOMAIN heap
    BY ObjectFacts DEF TypeOK, Null
  <2> QED
    BY <2>1 DEF Content
<1>4. Content(options.headers) = intent.headers
    BY <1>1, <1>2, <1>3 DEF HandleInv, HeadersInv, Mine
<1>5. SentMethod = intent.method /\ SentBody = intent.body
  <2>1. CASE IsForm
    <3>1. options.mime = Object("mime", calls) /\ options.kind = "MIME"
      BY <1>2, <2>1, ObjectFacts DEF IsForm, Mine
    <3> QED
      BY <1>3, <2>1, <3>1 DEF IsForm, SentMethod, SentBody
  <2>2. CASE IsEmpty /\ SentMethod = intent.method /\ options.kind # "MIME"
    <3>1. Len(<<>>) = 0 /\ SubSeq(<<>>, 1, 0) = <<>>
      OBVIOUS
    <3>2. options.kind \in {"GET", "POST"}
      BY <2>2 DEF TypeOK, Options
    <3> QED
      BY <1>3, <2>2, <3>1, <3>2 DEF IsEmpty, SentBody
  <2>3. CASE IsBuffer /\ SentMethod = intent.method
    <3>1. intent.body \in Seq(STRING)
      BY <2>3, HandleAssumption DEF IsBuffer
    <3>2. /\ SubSeq(intent.body, 1, Len(intent.body)) = intent.body
          /\ Len(intent.body) <= Len(intent.body)
      BY <3>1, SubSeqFull, LenProperties
    <3>3. Content(options.fields) = intent.body
      BY <1>3, <2>3 DEF IsBuffer
    <3> QED
      BY <2>3, <3>2, <3>3 DEF IsBuffer, SentBody
  <2> QED
    BY <1>1, <2>1, <2>2, <2>3 DEF HandleInv, BodyInv
<1>6. wire' = intent
    BY <1>2, <1>4, <1>5 DEF Transfer
<1>7. TypeOK'
    BY <1>1 DEF TypeOK
<1>8. LocalsInv' /\ HeadersInv'
    BY <1>1 DEF HandleInv, LocalsInv, HeadersInv, IsA
<1>9. PointersInv'
    BY <1>1 DEF HandleInv, PointersInv, Mine
<1>10. BodyInv'
    BY <1>1
    DEF HandleInv, BodyInv, IsForm, IsEmpty, IsBuffer, SentMethod
<1>11. WireIsIntent'
    BY <1>1, <1>6 DEF WireIsIntent
<1> QED
    BY <1>7, <1>8, <1>9, <1>10, <1>11 DEF HandleInv

\* After an answer as after an error only the buffer stays.
LEMMA EndStep ==
    ASSUME TypeOK, HandleInv, Return \/ Throw
    PROVE  TypeOK' /\ HandleInv'
<1>1. /\ pc' = "idle" /\ UNCHANGED <<settings, options, calls, intent, wire>>
      /\ heap' = Restrict(heap, {object \in DOMAIN heap :
                                    object[1] \notin {"slist", "mime", "resp"}})
    BY DEF Return, Throw, Discard
<1>2. DOMAIN heap' =
          {object \in DOMAIN heap : object[1] \notin {"slist", "mime", "resp"}}
    BY <1>1 DEF Restrict
<1>3. TypeOK'
    BY <1>1, <1>2 DEF TypeOK
<1>4. \A object \in DOMAIN heap' : object[1] = "buffer" /\ object \in DOMAIN heap
    BY <1>2, ObjectFacts DEF TypeOK
<1>5. LocalsInv'
    BY <1>4 DEF HandleInv, LocalsInv, IsA
<1>6. PointersInv' /\ HeadersInv' /\ BodyInv' /\ WireIsIntent'
    BY <1>1 DEF PointersInv, HeadersInv, BodyInv, WireIsIntent
<1> QED
    BY <1>3, <1>5, <1>6 DEF HandleInv

\* Between exchanges the settings change, and nothing else.
LEMMA SettingsStep ==
    ASSUME TypeOK, HandleInv,
           SetHeader \/ ClearHeaders \/ SetSslVerify \/ SetUserAgentOrProxy
    PROVE  TypeOK' /\ HandleInv'
<1>1. pc = "idle" /\ UNCHANGED <<options, heap, calls, pc, intent, wire>>
    BY DEF SetHeader, ClearHeaders, SetSslVerify, SetUserAgentOrProxy, Set
<1> DEFINE Settings == [headers : Seq(Headers), verify : BOOLEAN,
                        optional : SUBSET Optional]
<1>2. settings' \in Settings /\ Len(settings'.headers) <= MaxHeaders
  <2>1. settings \in Settings /\ Len(settings.headers) <= MaxHeaders
    BY DEF TypeOK
  <2>6. ASSUME NEW list \in Seq(Headers), settings' = [settings EXCEPT !.headers = list]
        PROVE  settings' \in Settings /\ settings'.headers = list
    BY <2>1, <2>6
  <2>2. CASE SetHeader
    <3>1. PICK header \in Headers :
              settings' = [settings EXCEPT !.headers = Append(@, header)]
      BY <2>2 DEF SetHeader, Set
    <3>2. /\ Append(settings.headers, header) \in Seq(Headers)
          /\ Len(Append(settings.headers, header)) = Len(settings.headers) + 1
          /\ Len(settings.headers) \in Nat
      BY <2>1, AppendProperties, LenProperties
    <3>3. Len(settings.headers) < MaxHeaders
      BY <2>2 DEF SetHeader
    <3>4. /\ settings' \in Settings
          /\ settings'.headers = Append(settings.headers, header)
      BY <2>6, <3>1, <3>2, Zenon
    <3> QED
      BY <3>2, <3>3, <3>4, HandleAssumption
  <2>3. CASE ClearHeaders
    <3>1. <<>> \in Seq(Headers) /\ Len(<<>>) = 0
      OBVIOUS
    <3>2. settings' = [settings EXCEPT !.headers = <<>>]
      BY <2>3 DEF ClearHeaders, Set
    <3>3. settings' \in Settings /\ settings'.headers = <<>>
      BY <2>6, <3>1, <3>2, Zenon
    <3> QED
      BY <3>1, <3>3, HandleAssumption
  <2>4. CASE SetSslVerify
    BY <2>1, <2>4 DEF SetSslVerify, Set
  <2>5. CASE SetUserAgentOrProxy
    BY <2>1, <2>5 DEF SetUserAgentOrProxy, Set
  <2> QED
    BY <2>2, <2>3, <2>4, <2>5
<1>3. TypeOK'
    BY <1>1, <1>2 DEF TypeOK
<1>4. HandleInv'
    BY <1>1
    DEF HandleInv, LocalsInv, PointersInv, HeadersInv, BodyInv, WireIsIntent, IsA
<1> QED
    BY <1>3, <1>4

-----------------------------------------------------------------------------

LEMMA HandleStart == Init => TypeOK /\ HandleInv
<1> SUFFICES ASSUME Init
             PROVE  TypeOK /\ HandleInv
    OBVIOUS
<1>1. /\ pc = "idle" /\ heap = <<>> /\ calls = 0
      /\ settings = [headers |-> <<>>, verify |-> TRUE, optional |-> {}]
      /\ options = FreshOptions
    BY DEF Init
<1>2. DOMAIN heap = {}
    BY <1>1
<1>3. settings \in [headers : Seq(Headers), verify : BOOLEAN,
                   optional : SUBSET Optional]
      /\ Len(settings.headers) = 0
    BY <1>1
<1>4. Null \in Pointers /\ -1 \in Sizes
    BY DEF Pointers, Sizes
<1>5. options \in Options
    BY <1>1, <1>4 DEF FreshOptions, Options
<1>6. TypeOK
    BY <1>1, <1>2, <1>3, <1>5, HandleAssumption DEF TypeOK
<1>7. HandleInv
    BY <1>1, <1>2
    DEF HandleInv, LocalsInv, PointersInv, HeadersInv, BodyInv, WireIsIntent, IsA
<1> QED
    BY <1>6, <1>7

LEMMA HandleStep ==
    ASSUME TypeOK, HandleInv, [Next]_vars
    PROVE  TypeOK' /\ HandleInv'
<1>1. CASE UNCHANGED vars
  <2>1. TypeOK'
    BY <1>1 DEF vars, TypeOK
  <2>2. HandleInv'
    BY <1>1
    DEF vars, HandleInv, LocalsInv, PointersInv, HeadersInv, BodyInv, WireIsIntent,
        IsA, Mine, IsForm, IsEmpty, IsBuffer, SentMethod
  <2> QED
    BY <2>1, <2>2
<1> QED
    BY <1>1, ExchangeStep, AttachStep, TransferStep, EndStep, SettingsStep DEF Next

(* The invariant of the handle, from which the four theorems follow.        *)
LEMMA HandleSafe == Spec => [](TypeOK /\ HandleInv)
<1>1. TypeOK /\ HandleInv /\ [Next]_vars => (TypeOK /\ HandleInv)'
    BY HandleStep
<1> QED
    BY <1>1, HandleStart, PTL DEF Spec

(* The variables of HttpClient and of the handle keep their types.          *)
THEOREM TypeCorrect == Spec => []TypeOK
    BY HandleSafe, PTL

(* http.hpp:31-32: the request that libcurl sends is the one that the       *)
(* exchange was called for, whatever the exchanges and settings before.     *)
THEOREM RequestsAreTheirOwn == Spec => []WireIsIntent
<1>1. HandleInv => WireIsIntent
    BY DEF HandleInv
<1> QED
    BY <1>1, HandleSafe, PTL

(* http.cpp:182: all that libcurl is pointed at when it runs is alive, and  *)
(* of the exchange that is going on.                                        *)
THEOREM PointersAreAlive == Spec => []NoDanglingUse
<1>1. TypeOK /\ HandleInv => NoDanglingUse
  <2> SUFFICES ASSUME TypeOK, HandleInv, pc = "attached",
                      NEW pointer \in {options.fields, options.headers,
                                       options.mime, options.sink},
                      pointer # Null
               PROVE  pointer \in DOMAIN heap /\ pointer[2] = calls
    BY DEF NoDanglingUse
  <2>1. /\ options.headers = Mine("slist") /\ options.mime = Mine("mime")
        /\ options.sink = Object("resp", calls) /\ options.sink \in DOMAIN heap
    BY DEF HandleInv, PointersInv
  <2>2. \/ options.fields = Null
        \/ options.fields = Object("buffer", calls) /\ options.fields \in DOMAIN heap
    BY DEF HandleInv, BodyInv, IsForm, IsEmpty, IsBuffer
  <2> QED
    BY <2>1, <2>2, ObjectFacts DEF Mine
<1> QED
    BY <1>1, HandleSafe, PTL

(* Between exchanges, whether they were answered or failed, no list, form   *)
(* or response is left, and of the bodies the last one at most.             *)
THEOREM MemoryIsFreed == Spec => []NothingLeaked
<1>1. HandleInv => NothingLeaked
    BY DEF HandleInv, LocalsInv, NothingLeaked, IsA
<1> QED
    BY <1>1, HandleSafe, PTL

=============================================================================
