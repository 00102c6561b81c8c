--------------------------- MODULE EndpointsProofs ---------------------------
(***************************************************************************)
(* What the proofs about calls need to know of the table of methods: the   *)
(* few shapes its rows have, and the rows of the methods that other        *)
(* methods and programs call.                                              *)
(***************************************************************************)
EXTENDS Endpoints, Responses, SequenceTheorems, TLAPS

\* The shapes of the rows.
Plain(v, d) == <<"wait", v, d>>
Guarded(v, d) == <<"check", "wait", v, d>>
Worded(v, d) == <<"wait", "encode", v, d>>
GuardedWorded(v, d) == <<"check", "wait", "encode", v, d>>
Prepared(v, d) == <<"check", "encode", "wait", v, d>>
LinkOnly == <<"check">>
Download == <<"check", "wait", "GET", "bytes", "store">>
Upload == <<"check", "wait", "GET", "string", "wait", "POST", "lenient">>

Shapes ==
    {LinkOnly, Download, Upload}
        \cup {Plain(v, d) : v \in Verbs, d \in Decoders}
        \cup {Guarded(v, d) : v \in Verbs, d \in Decoders}
        \cup {Worded(v, d) : v \in Verbs, d \in Decoders}
        \cup {GuardedWorded(v, d) : v \in Verbs, d \in Decoders}
        \cup {Prepared(v, d) : v \in Verbs, d \in Decoders}

-----------------------------------------------------------------------------

\* A sequence that has the elements of s and then those of t is s \o t.
LEMMA ConcatIs ==
    ASSUME NEW S, NEW s \in Seq(S), NEW t \in Seq(S), NEW u \in Seq(S),
           Len(u) = Len(s) + Len(t),
           \A i \in 1..Len(s) : u[i] = s[i],
           \A i \in 1..Len(t) : u[Len(s) + i] = t[i]
    PROVE  s \o t = u
<1>1. \A i \in 1..(Len(s) + Len(t)) :
          (s \o t)[i] = IF i <= Len(s) THEN s[i] ELSE t[i - Len(s)]
    BY ConcatProperties
<1>2. \A i \in 1..Len(u) : (s \o t)[i] = u[i]
  <2> TAKE i \in 1..Len(u)
  <2>1. CASE i <= Len(s)
    BY <1>1, <2>1
  <2>2. CASE i > Len(s)
    <3>1. i - Len(s) \in 1..Len(t)
      BY <2>2
    <3>2. Len(s) + (i - Len(s)) = i
      OBVIOUS
    <3> QED
      BY <1>1, <2>2, <3>1, <3>2
  <2> QED
    BY <2>1, <2>2
<1>3. s \o t \in Seq(S) /\ Len(s \o t) = Len(u)
    BY ConcatProperties
<1> QED
    BY <1>2, <1>3, SeqEqual

\* The concatenations in the table, written out.
LEMMA OneAndThree ==
    ASSUME NEW a, NEW b, NEW c, NEW d
    PROVE  <<a>> \o <<b, c, d>>
               = <<a, b, c, d>>
<1> DEFINE S == {a, b, c, d}
<1> DEFINE s == <<a>>
<1> DEFINE t == <<b, c, d>>
<1> DEFINE u == <<a, b, c, d>>
<1>1. s \in Seq(S) /\ t \in Seq(S) /\ u \in Seq(S)
    OBVIOUS
<1>2. Len(s) = 1 /\ Len(t) = 3 /\ Len(u) = Len(s) + Len(t)
    OBVIOUS
<1>3. \A i \in 1..Len(s) : u[i] = s[i]
    BY <1>2
<1>4. \A i \in 1..Len(t) : u[Len(s) + i] = t[i]
    BY <1>2
<1> HIDE DEF S, s, t, u
<1>5. s \o t = u
    BY <1>1, <1>2, <1>3, <1>4, ConcatIs
<1> QED
    BY <1>5 DEF s, t, u

LEMMA OneAndFour ==
    ASSUME NEW a, NEW b, NEW c, NEW d, NEW e
    PROVE  <<a>> \o <<b, c, d, e>>
               = <<a, b, c, d, e>>
<1> DEFINE S == {a, b, c, d, e}
<1> DEFINE s == <<a>>
<1> DEFINE t == <<b, c, d, e>>
<1> DEFINE u == <<a, b, c, d, e>>
<1>1. s \in Seq(S) /\ t \in Seq(S) /\ u \in Seq(S)
    OBVIOUS
<1>2. Len(s) = 1 /\ Len(t) = 4 /\ Len(u) = Len(s) + Len(t)
    OBVIOUS
<1>3. \A i \in 1..Len(s) : u[i] = s[i]
    BY <1>2
<1>4. \A i \in 1..Len(t) : u[Len(s) + i] = t[i]
    BY <1>2
<1> HIDE DEF S, s, t, u
<1>5. s \o t = u
    BY <1>1, <1>2, <1>3, <1>4, ConcatIs
<1> QED
    BY <1>5 DEF s, t, u

LEMMA ThreeAndOne ==
    ASSUME NEW a, NEW b, NEW c, NEW d
    PROVE  <<a, b, c>> \o <<d>>
               = <<a, b, c, d>>
<1> DEFINE S == {a, b, c, d}
<1> DEFINE s == <<a, b, c>>
<1> DEFINE t == <<d>>
<1> DEFINE u == <<a, b, c, d>>
<1>1. s \in Seq(S) /\ t \in Seq(S) /\ u \in Seq(S)
    OBVIOUS
<1>2. Len(s) = 3 /\ Len(t) = 1 /\ Len(u) = Len(s) + Len(t)
    OBVIOUS
<1>3. \A i \in 1..Len(s) : u[i] = s[i]
    BY <1>2
<1>4. \A i \in 1..Len(t) : u[Len(s) + i] = t[i]
    BY <1>2
<1> HIDE DEF S, s, t, u
<1>5. s \o t = u
    BY <1>1, <1>2, <1>3, <1>4, ConcatIs
<1> QED
    BY <1>5 DEF s, t, u

LEMMA ThreeAndThree ==
    ASSUME NEW a, NEW b, NEW c, NEW d, NEW e, NEW f
    PROVE  <<a, b, c>> \o <<d, e, f>>
               = <<a, b, c, d, e, f>>
<1> DEFINE S == {a, b, c, d, e, f}
<1> DEFINE s == <<a, b, c>>
<1> DEFINE t == <<d, e, f>>
<1> DEFINE u == <<a, b, c, d, e, f>>
<1>1. s \in Seq(S) /\ t \in Seq(S) /\ u \in Seq(S)
    OBVIOUS
<1>2. Len(s) = 3 /\ Len(t) = 3 /\ Len(u) = Len(s) + Len(t)
    OBVIOUS
<1>3. \A i \in 1..Len(s) : u[i] = s[i]
    BY <1>2
<1>4. \A i \in 1..Len(t) : u[Len(s) + i] = t[i]
    BY <1>2
<1> HIDE DEF S, s, t, u
<1>5. s \o t = u
    BY <1>1, <1>2, <1>3, <1>4, ConcatIs
<1> QED
    BY <1>5 DEF s, t, u

LEMMA OneAndSix ==
    ASSUME NEW a, NEW b, NEW c, NEW d, NEW e, NEW f, NEW g
    PROVE  <<a>> \o <<b, c, d, e, f, g>>
               = <<a, b, c, d, e, f, g>>
<1> DEFINE S == {a, b, c, d, e, f, g}
<1> DEFINE s == <<a>>
<1> DEFINE t == <<b, c, d, e, f, g>>
<1> DEFINE u == <<a, b, c, d, e, f, g>>
<1>1. s \in Seq(S) /\ t \in Seq(S) /\ u \in Seq(S)
    OBVIOUS
<1>2. Len(s) = 1 /\ Len(t) = 6 /\ Len(u) = Len(s) + Len(t)
    OBVIOUS
<1>3. \A i \in 1..Len(s) : u[i] = s[i]
    BY <1>2
<1>4. \A i \in 1..Len(t) : u[Len(s) + i] = t[i]
    BY <1>2
<1> HIDE DEF S, s, t, u
<1>5. s \o t = u
    BY <1>1, <1>2, <1>3, <1>4, ConcatIs
<1> QED
    BY <1>5 DEF s, t, u

LEMMA FourAndThree ==
    ASSUME NEW a, NEW b, NEW c, NEW d, NEW e, NEW f, NEW g
    PROVE  <<a, b, c, d>> \o <<e, f, g>>
               = <<a, b, c, d, e, f, g>>
<1> DEFINE S == {a, b, c, d, e, f, g}
<1> DEFINE s == <<a, b, c, d>>
<1> DEFINE t == <<e, f, g>>
<1> DEFINE u == <<a, b, c, d, e, f, g>>
<1>1. s \in Seq(S) /\ t \in Seq(S) /\ u \in Seq(S)
    OBVIOUS
<1>2. Len(s) = 4 /\ Len(t) = 3 /\ Len(u) = Len(s) + Len(t)
    OBVIOUS
<1>3. \A i \in 1..Len(s) : u[i] = s[i]
    BY <1>2
<1>4. \A i \in 1..Len(t) : u[Len(s) + i] = t[i]
    BY <1>2
<1> HIDE DEF S, s, t, u
<1>5. s \o t = u
    BY <1>1, <1>2, <1>3, <1>4, ConcatIs
<1> QED
    BY <1>5 DEF s, t, u

\* What the operators that the rows are written with amount to.
LEMMA RowOperators ==
    /\ \A v, d : Exchange(v, d) = Plain(v, d)
    /\ \A v, d : Checked(Exchange(v, d)) = Guarded(v, d)
    /\ \A d : PostText(d) = Worded("POST", d)
    /\ \A d : Checked(PostText(d)) = GuardedWorded("POST", d)
    /\ \A v, d : Checked(Encoded(Exchange(v, d))) = Prepared(v, d)
    /\ Checked(Get("bytes") \o <<"store">>) = Download
    /\ Checked(Get("string") \o Post("lenient")) = Upload
<1> USE DEF Exchange, Checked, Encoded, Get, Post, PostText, Plain, Guarded,
            Worded, GuardedWorded, Prepared, Download, Upload
<1>1. \A v, d : Exchange(v, d) = Plain(v, d)
    OBVIOUS
<1>2. \A v, d : Checked(Exchange(v, d)) = Guarded(v, d)
    BY OneAndThree
<1>3. \A d : PostText(d) = Worded("POST", d)
    OBVIOUS
<1>4. \A d : Checked(PostText(d)) = GuardedWorded("POST", d)
    BY OneAndFour
<1>5. \A v, d : Checked(Encoded(Exchange(v, d))) = Prepared(v, d)
  <2> TAKE v, d
  <2>1. Encoded(Exchange(v, d)) = <<"encode", "wait", v, d>>
    BY OneAndThree
  <2> QED
    BY <2>1, OneAndFour
<1>6. Checked(Get("bytes") \o <<"store">>) = Download
  <2>1. Get("bytes") \o <<"store">> = <<"wait", "GET", "bytes", "store">>
    BY ThreeAndOne
  <2> QED
    BY <2>1, OneAndFour
<1>7. Checked(Get("string") \o Post("lenient")) = Upload
  <2>1. Get("string") \o Post("lenient")
            = <<"wait", "GET", "string", "wait", "POST", "lenient">>
    BY ThreeAndThree
  <2>2. <<"check">> \o <<"wait", "GET", "string", "wait", "POST", "lenient">>
            = Upload
    BY OneAndSix
  <2> QED
    BY <2>1, <2>2
<1> QED
    BY <1>1, <1>2, <1>3, <1>4, <1>5, <1>6, <1>7

-----------------------------------------------------------------------------

\* The steps of a method are its row in one of the tables.
LEMMA StepsAreARow ==
    ASSUME NEW m \in Methods
    PROVE  \E table \in Tables : m \in DOMAIN table /\ Steps[m] = table[m]
<1>1. \E table \in Tables : m \in DOMAIN table
    BY DEF Methods
<1>2. Steps[m] = (CHOOSE table \in Tables : m \in DOMAIN table)[m]
    BY DEF Steps
<1> QED
    BY <1>1, <1>2

\* What the rows are built from has one of the shapes, whatever the verb.
LEMMA ShapeFacts ==
    /\ LinkOnly \in Shapes /\ Download \in Shapes /\ Upload \in Shapes
    /\ \A v \in Verbs, d \in Decoders :
          /\ Exchange(v, d) \in Shapes
          /\ Checked(Exchange(v, d)) \in Shapes
          /\ Checked(Encoded(Exchange(v, d))) \in Shapes
          /\ Worded(v, d) \in Shapes
          /\ GuardedWorded(v, d) \in Shapes
<1>1. LinkOnly \in Shapes /\ Download \in Shapes /\ Upload \in Shapes
    BY DEF Shapes
<1>2. \A v \in Verbs, d \in Decoders :
          /\ Plain(v, d) \in Shapes /\ Guarded(v, d) \in Shapes
          /\ Worded(v, d) \in Shapes /\ GuardedWorded(v, d) \in Shapes
          /\ Prepared(v, d) \in Shapes
    BY DEF Shapes
<1> QED
    BY <1>1, <1>2, RowOperators

\* The same of the two verbs that have operators of their own.
LEMMA GetAndPostFacts ==
    \A d \in Decoders :
        /\ Get(d) \in Shapes /\ Checked(Get(d)) \in Shapes
        /\ Post(d) \in Shapes /\ Checked(Post(d)) \in Shapes
        /\ Checked(Encoded(Post(d))) \in Shapes
        /\ PostText(d) \in Shapes /\ Checked(PostText(d)) \in Shapes
<1>1. {"GET", "POST"} \subseteq Verbs
    BY DEF Verbs
<1>2. \A d \in Decoders :
          PostText(d) \in Shapes /\ Checked(PostText(d)) \in Shapes
    BY <1>1, ShapeFacts, RowOperators
<1> QED
    BY <1>1, <1>2, ShapeFacts DEF Get, Post

(* Every method's steps have one of the shapes: no row skips a wait, sends  *)
(* without decoding, or tests an argument after the first request.          *)
LEMMA RowsHaveShapes == \A m \in Methods : Steps[m] \in Shapes
<1>1. {"GET", "POST", "PATCH", "DELETE"} = Verbs
    BY DEF Verbs
<1>2. {"nothing", "bytes", "dump", "lenient", "flag", "strict", "string",
       "list", "insight"} = Decoders
    BY DEF Decoders
<1>3. /\ <<"check">> \in Shapes
      /\ Checked(Get("bytes") \o <<"store">>) \in Shapes
      /\ Checked(Get("string") \o Post("lenient")) \in Shapes
      /\ <<"check", "wait", "encode", "PATCH", "strict">> \in Shapes
      /\ <<"check", "wait", "encode", "DELETE", "nothing">> \in Shapes
      /\ Checked(Exchange("DELETE", "nothing")) \in Shapes
      /\ Checked(Encoded(Exchange("PATCH", "strict"))) \in Shapes
    BY <1>1, <1>2, ShapeFacts, RowOperators DEF LinkOnly, GuardedWorded
<1>4. \A m \in DOMAIN FileCalls : FileCalls[m] \in Shapes
    BY <1>2, <1>3, GetAndPostFacts DEF FileCalls
<1>5. \A m \in DOMAIN BehaviourCalls : BehaviourCalls[m] \in Shapes
    BY <1>2, <1>3, GetAndPostFacts DEF BehaviourCalls
<1>6. \A m \in DOMAIN UrlScanCalls : UrlScanCalls[m] \in Shapes
    BY <1>2, <1>3, GetAndPostFacts DEF UrlScanCalls
<1>7. \A m \in DOMAIN UrlCalls : UrlCalls[m] \in Shapes
    BY <1>2, <1>3, GetAndPostFacts DEF UrlCalls
<1>8. \A m \in DOMAIN IpCalls : IpCalls[m] \in Shapes
    BY <1>2, <1>3, GetAndPostFacts DEF IpCalls
<1>9. \A m \in DOMAIN DomainCalls : DomainCalls[m] \in Shapes
    BY <1>2, <1>3, GetAndPostFacts DEF DomainCalls
<1>10. \A m \in DOMAIN AnalysisCalls : AnalysisCalls[m] \in Shapes
    BY <1>2, <1>3, GetAndPostFacts DEF AnalysisCalls
<1>11. \A m \in DOMAIN CommentCalls : CommentCalls[m] \in Shapes
    BY <1>2, <1>3, GetAndPostFacts DEF CommentCalls
<1>12. \A m \in DOMAIN ObjectCalls : ObjectCalls[m] \in Shapes
    BY <1>2, <1>3, GetAndPostFacts DEF ObjectCalls
<1>13. \A m \in DOMAIN SearchCalls : SearchCalls[m] \in Shapes
    BY <1>2, <1>3, GetAndPostFacts DEF SearchCalls
<1>14. \A m \in DOMAIN CollectionCalls : CollectionCalls[m] \in Shapes
    BY <1>2, <1>3, GetAndPostFacts DEF CollectionCalls
<1>15. \A m \in DOMAIN CollectionPartCalls : CollectionPartCalls[m] \in Shapes
    BY <1>2, <1>3, GetAndPostFacts DEF CollectionPartCalls
<1>16. \A m \in DOMAIN GraphCalls : GraphCalls[m] \in Shapes
    BY <1>2, <1>3, GetAndPostFacts DEF GraphCalls
<1>17. \A m \in DOMAIN GraphPartCalls : GraphPartCalls[m] \in Shapes
    BY <1>2, <1>3, GetAndPostFacts DEF GraphPartCalls
<1>18. \A m \in DOMAIN YaraCalls : YaraCalls[m] \in Shapes
    BY <1>2, <1>3, GetAndPostFacts DEF YaraCalls
<1>19. \A m \in DOMAIN ZipCalls : ZipCalls[m] \in Shapes
    BY <1>2, <1>3, GetAndPostFacts DEF ZipCalls
<1>20. \A m \in DOMAIN InsightCalls : InsightCalls[m] \in Shapes
    BY <1>2, <1>3, GetAndPostFacts DEF InsightCalls
<1> QED
    BY StepsAreARow, <1>4, <1>5, <1>6, <1>7, <1>8, <1>9, <1>10, <1>11, <1>12, <1>13, <1>14, <1>15, <1>16, <1>17, <1>18, <1>19, <1>20 DEF Tables

(* No other table has a row for these methods: their steps are what the     *)
(* source of each says.                                                     *)
LEMMA RowsOfCallees ==
    /\ {"get_file_report", "scan_file", "scan_large_file", "rescan_file",
        "scan_url", "get_url_report"} \subseteq Methods
    /\ Steps.get_file_report = Guarded("GET", "lenient")
    /\ Steps.scan_file = Guarded("POST", "lenient")
    /\ Steps.scan_large_file = Upload
    /\ Steps.rescan_file = Guarded("POST", "lenient")
    /\ Steps.scan_url = Guarded("POST", "lenient")
    /\ Steps.get_url_report = Plain("GET", "strict")
<1>1. ASSUME NEW m \in {"get_file_report", "scan_file", "scan_large_file",
                        "rescan_file"}
      PROVE  m \in Methods /\ Steps[m] = FileCalls[m]
  <2>1. m \in DOMAIN FileCalls /\ FileCalls \in Tables
    BY DEF Tables, FileCalls
  <2>2. \A table \in Tables : m \in DOMAIN table => table = FileCalls
    BY DEF Tables, FileCalls, BehaviourCalls, UrlScanCalls, UrlCalls, IpCalls,
            DomainCalls, AnalysisCalls, CommentCalls, ObjectCalls, SearchCalls,
            CollectionCalls, CollectionPartCalls, GraphCalls, GraphPartCalls,
            YaraCalls, ZipCalls, InsightCalls
  <2> QED
    BY <2>1, <2>2, StepsAreARow DEF Methods
<1>2. "scan_url" \in Methods /\ Steps["scan_url"] = UrlScanCalls["scan_url"]
  <2>1. "scan_url" \in DOMAIN UrlScanCalls /\ UrlScanCalls \in Tables
    BY DEF Tables, UrlScanCalls
  <2>2. \A table \in Tables : "scan_url" \in DOMAIN table => table = UrlScanCalls
    BY DEF Tables, FileCalls, BehaviourCalls, UrlScanCalls, UrlCalls, IpCalls,
            DomainCalls, AnalysisCalls, CommentCalls, ObjectCalls, SearchCalls,
            CollectionCalls, CollectionPartCalls, GraphCalls, GraphPartCalls,
            YaraCalls, ZipCalls, InsightCalls
  <2> QED
    BY <2>1, <2>2, StepsAreARow DEF Methods
<1>3. /\ "get_url_report" \in Methods
      /\ Steps["get_url_report"] = UrlCalls["get_url_report"]
  <2>1. "get_url_report" \in DOMAIN UrlCalls /\ UrlCalls \in Tables
    BY DEF Tables, UrlCalls
  <2>2. \A table \in Tables : "get_url_report" \in DOMAIN table => table = UrlCalls
    BY DEF Tables, FileCalls, BehaviourCalls, UrlScanCalls, UrlCalls, IpCalls,
            DomainCalls, AnalysisCalls, CommentCalls, ObjectCalls, SearchCalls,
            CollectionCalls, CollectionPartCalls, GraphCalls, GraphPartCalls,
            YaraCalls, ZipCalls, InsightCalls
  <2> QED
    BY <2>1, <2>2, StepsAreARow DEF Methods
<1>4. /\ Steps.get_file_report = Guarded("GET", "lenient")
      /\ Steps.scan_file = Guarded("POST", "lenient")
      /\ Steps.scan_large_file = Upload
      /\ Steps.rescan_file = Guarded("POST", "lenient")
    BY <1>1, RowOperators DEF FileCalls, Get, Post
<1>5. Steps.scan_url = Guarded("POST", "lenient")
    BY <1>2, RowOperators DEF UrlScanCalls, Post
<1>6. Steps.get_url_report = Plain("GET", "strict")
    BY <1>3, RowOperators DEF UrlCalls, Get
<1> QED
    BY <1>1, <1>2, <1>3, <1>4, <1>5, <1>6

(* The two look-ups of saved searches only read.                            *)
LEMMA RowsOfSavedSearches ==
    /\ Steps.get_saved_searches = Plain("GET", "strict")
    /\ Steps.get_saved_search = Guarded("GET", "strict")
<1>1. ASSUME NEW m \in {"get_saved_searches", "get_saved_search"}
      PROVE  Steps[m] = SearchCalls[m]
  <2>1. m \in DOMAIN SearchCalls /\ SearchCalls \in Tables
    BY DEF Tables, SearchCalls
  <2>2. \A table \in Tables : m \in DOMAIN table => table = SearchCalls
    BY DEF Tables, FileCalls, BehaviourCalls, UrlScanCalls, UrlCalls, IpCalls,
            DomainCalls, AnalysisCalls, CommentCalls, ObjectCalls, SearchCalls,
            CollectionCalls, CollectionPartCalls, GraphCalls, GraphPartCalls,
            YaraCalls, ZipCalls, InsightCalls
  <2> QED
    BY <2>1, <2>2, StepsAreARow DEF Methods
<1> QED
    BY <1>1, RowOperators DEF SearchCalls, Get

-----------------------------------------------------------------------------

(* What a response becomes: a value only after a success, the exception of  *)
(* the status after anything else, and one of the decoder's own otherwise.  *)
LEMMA DecodedFacts ==
    ASSUME NEW r \in Replies, NEW d \in Decoders
    PROVE  /\ r.status \in Success =>
                  Decoded(d, r) \subseteq {"value", "VtError", "json::type_error"}
           /\ r.status \in Success /\ d \in Lenient => Decoded(d, r) = {"value"}
           /\ r.status \notin Success =>
                  Decoded(d, r) = {ThrowForStatus(r.status)}
           /\ ThrowForStatus(r.status) \in
                  {"AuthError", "NotFound", "RateLimit", "ApiError"}
           /\ ThrowForStatus(r.status) = "NotFound" <=> r.status = 404
           /\ ThrowForStatus(r.status) = "AuthError" <=> r.status = 403
           /\ ThrowForStatus(r.status) = "RateLimit" <=> r.status = 429
           /\ Decoded(d, r) \subseteq {"value"} \cup Exceptions
           /\ Decoded(d, r) # {}
<1>1. /\ r.status \in {200, 202, 401, 403, 404, 429, 500}
      /\ r.body \in Bodies \cup {"error"}
      /\ r.body = "error" <=> r.status # 200
    BY DEF Replies, Bodies
<1>2. r.status \in Success <=> r.status = 200
    BY <1>1 DEF Success
<1>3. ASSUME r.status = 200
      PROVE  /\ Parsed(d, r.body) \subseteq {"value", "VtError", "json::type_error"}
             /\ d \in Lenient => Parsed(d, r.body) = {"value"}
             /\ Parsed(d, r.body) # {}
  <2>1. r.body \in {"complete", "mistyped", "bare"}
    BY <1>1, <1>3 DEF Bodies
  <2>2. CASE r.body = "complete" \/ d \in Lenient
    BY <2>2 DEF Parsed, Lenient
  <2>3. CASE r.body # "complete" /\ d = "strict"
    BY <2>3 DEF Parsed, Lenient, StrictParse
  <2>4. CASE r.body # "complete" /\ d = "string"
    BY <2>4 DEF Parsed, Lenient, StringParse
  <2>5. CASE r.body # "complete" /\ d \in {"list", "insight"}
    BY <2>5 DEF Parsed, Lenient, DataParse
  <2> QED
    BY <2>2, <2>3, <2>4, <2>5 DEF Decoders, Lenient
<1>4. /\ ThrowForStatus(r.status) \in
             {"AuthError", "NotFound", "RateLimit", "ApiError"}
      /\ ThrowForStatus(r.status) = "NotFound" <=> r.status = 404
      /\ ThrowForStatus(r.status) = "AuthError" <=> r.status = 403
      /\ ThrowForStatus(r.status) = "RateLimit" <=> r.status = 429
    BY <1>1 DEF ThrowForStatus
<1>5. CASE r.status \in Success
    BY <1>2, <1>3, <1>4, <1>5 DEF Decoded, Exceptions
<1>6. CASE r.status \notin Success
    BY <1>4, <1>6 DEF Decoded, Exceptions
<1> QED
    BY <1>5, <1>6

=============================================================================
