----------------------------- MODULE InputsProofs -----------------------------
(***************************************************************************)
(* What the runs of MCInputs show of documents with a few odd places and   *)
(* of short texts, proved of documents with any number of odd places and   *)
(* of texts of any length: every Max is arbitrary, and so are the limits.  *)
(*                                                                         *)
(* The strict parsers need no look at their tables: what is absent never   *)
(* makes an accessor throw.  Of the lenient ones every accessor counts, so *)
(* the lemmas follow the operators that the tables are made of.            *)
(*                                                                         *)
(* A text is read by a loop, which the models write as a function of the   *)
(* place it has come to.  That there is such a function, and that an       *)
(* invariant of its steps holds at every place, is proved once (UpTo and   *)
(* CourseExists), from the least place where it would not; each scanner    *)
(* then has an invariant that says what it has found out so far.           *)
(***************************************************************************)
EXTENDS MCInputs, TLAPS, WellFoundedInduction, FiniteSetTheorems, SequenceTheorems

\* The five fields that are an int.
Narrow ==
    {"times_submitted", "reputation", "progress", "files_ok", "files_error"}

\* Fields that are read by json_string and its kin only, and whose integers are
\* cast to int in these five only.
Gentle(fields) ==
    \A f \in DOMAIN fields :
        \/ fields[f] \in {"json", "json int"}
        \/ fields[f] = "json narrow" /\ f \in Narrow

\* A table in which every section is skipped when it is no object, and has such
\* fields only.
Mild(table) ==
    \A s \in DOMAIN table :
        table[s].enter = "object" /\ Gentle(table[s].fields)

-----------------------------------------------------------------------------

\* The operators of the tables keep tables mild.
LEMMA EachGentle ==
    /\ \A names : Gentle(Each("json", names)) /\ Gentle(Each("json int", names))
    /\ \A names \in SUBSET Narrow : Gentle(Each("json narrow", names))
    /\ Gentle(NoFields)
BY DEF Gentle, Each, NoFields

LEMMA BothGentle ==
    ASSUME NEW f, NEW g, Gentle(f), Gentle(g)
    PROVE  Gentle(f ++ g)
BY DEF Gentle, ++

LEMMA ObjectMild ==
    ASSUME NEW name, NEW holder, NEW fields, Gentle(fields)
    PROVE  Mild(Object(name, holder, fields))
BY DEF Mild, Object, Section, Sections

LEMMA BothMild ==
    ASSUME NEW f, NEW g, Mild(f), Mild(g)
    PROVE  Mild(f ++ g)
BY DEF Mild, ++

LEMMA ElementMild ==
    ASSUME NEW table, Mild(table), "links" \in DOMAIN table
    PROVE  Mild(ElementOf(table))
BY DEF Mild, ElementOf

\* The parts that several tables have, read gently.
LEMMA DataMild == Mild(Data("json", "json")) /\ "links" \in DOMAIN Data("json", "json")
<1>1. Mild(Object("data", "root", Named("json")))
    BY EachGentle, ObjectMild DEF Named
<1>2. Mild(Object("links", "data", Each("json", {"self"})))
    BY EachGentle, ObjectMild
<1>3. Mild(Data("json", "json"))
    BY <1>1, <1>2, BothMild DEF Data
<1>4. "links" \in DOMAIN Data("json", "json")
    BY DEF Data, Object, Section, Sections, ++
<1> QED
    BY <1>3, <1>4

LEMMA ListMild ==
    ASSUME NEW meta, Gentle(meta)
    PROVE  Mild(List("json", "json", meta))
<1>1. Mild(Object("meta", "root", meta))
    BY ObjectMild
<1>2. Gentle(Each("json", {"self"}) ++ Each("json", {"next"}))
    BY EachGentle, BothGentle
<1>3. Mild(Object("links", "root",
                  Each("json", {"self"}) ++ Each("json", {"next"})))
    BY <1>2, ObjectMild
<1> QED
    BY <1>1, <1>3, BothMild DEF List

\* The sections that the tables below have.
LEMMA SectionsMild ==
    ASSUME NEW name, NEW holder
    PROVE  /\ Mild(Object(name, holder, NoFields))
           /\ \A texts : Mild(Object(name, holder, Each("json", texts)))
           /\ \A texts, numbers :
                Mild(Object(name, holder,
                    Each("json", texts) ++ Each("json int", numbers)))
           /\ \A texts : \A counts \in SUBSET Narrow :
                Mild(Object(name, holder,
                    Each("json", texts) ++ Each("json narrow", counts)))
           /\ \A texts, numbers : \A counts \in SUBSET Narrow :
                Mild(Object(name, holder,
                    Each("json", texts) ++ Each("json int", numbers)
                        ++ Each("json narrow", counts)))
    BY EachGentle, BothGentle, ObjectMild

-----------------------------------------------------------------------------

\* The tables of the lenient parsers.

LEMMA FileReportMild == Mild(file_report_from_json)
<1>1. {"times_submitted", "reputation"} \subseteq Narrow
    BY DEF Narrow
<1>2. Mild(Object("last_analysis_stats", "attributes", Stats("json int")))
    BY EachGentle, ObjectMild DEF Stats
<1>3. Mild(Object("engine", "last_analysis_results", Verdict("json")))
    BY SectionsMild DEF Verdict
<1> QED
    BY <1>1, <1>2, <1>3, DataMild, SectionsMild, BothMild
    DEF file_report_from_json

LEMMA BehavioursMild ==
    /\ Mild(file_behaviour_from_json)
    /\ Mild(behaviour_list_from_json)
    /\ Mild(behaviour_summary_from_json)
<1>1. Mild(file_behaviour_from_json)
    BY DataMild, SectionsMild, BothMild DEF file_behaviour_from_json
<1>2. Mild(Object("meta", "root", Each("json int", {"count"})))
    BY EachGentle, ObjectMild
<1> QED
    BY <1>1, <1>2, SectionsMild, BothMild
    DEF behaviour_list_from_json, behaviour_summary_from_json

LEMMA ScanResultMild == Mild(scan_result_from_json)
    BY DataMild, SectionsMild, BothMild DEF scan_result_from_json

LEMMA RelationshipsMild == Mild(relationship_list_from_json)
<1>1. Mild(List("json", "json", Each("json int", {"count"})))
    BY EachGentle, ListMild
<1>2. Mild(Object("data", "root", Named("json")))
    BY SectionsMild DEF Named
<1> QED
    BY <1>1, <1>2, BothMild DEF relationship_list_from_json

LEMMA MitreMild == Mild(mitre_summary_from_json)
    BY SectionsMild, BothMild DEF mitre_summary_from_json

LEMMA SigmaMild == Mild(sigma_rule_from_json)
    BY SectionsMild, BothMild DEF sigma_rule_from_json

LEMMA YaraMild ==
    /\ Mild(yara_rule_from_json)
    /\ Mild(yara_rule_list_from_json)
    /\ Mild(yara_ruleset_from_json)
<1>1. Mild(yara_rule_from_json)
    BY DataMild, SectionsMild, BothMild DEF yara_rule_from_json
<1>2. "links" \in DOMAIN yara_rule_from_json
    BY DataMild DEF yara_rule_from_json, ++
<1>3. Mild(List("json", "json", Each("json", {"cursor"})))
    BY EachGentle, ListMild
<1>4. Mild(yara_rule_list_from_json)
    BY <1>1, <1>2, <1>3, ElementMild, BothMild DEF yara_rule_list_from_json
<1>5. Mild(yara_ruleset_from_json)
    BY SectionsMild, BothMild DEF yara_ruleset_from_json
<1> QED
    BY <1>1, <1>4, <1>5

LEMMA ZipFileMild == Mild(zip_file_from_json)
<1>1. {"progress", "files_ok", "files_error"} \subseteq Narrow
    BY DEF Narrow
<1>2. Mild(Object("data", "root", Named("json")))
    BY SectionsMild DEF Named
<1> QED
    BY <1>1, <1>2, SectionsMild, BothMild DEF zip_file_from_json

LEMMA MetadataMild == Mild(metadata_from_json)
    BY SectionsMild DEF metadata_from_json

LEMMA TolerantMild == \A n \in DOMAIN Tolerant : Mild(Tolerant[n])
    BY FileReportMild, BehavioursMild, ScanResultMild, RelationshipsMild,
       MitreMild, SigmaMild, YaraMild, ZipFileMild, MetadataMild
    DEF Tolerant

\* No parser is of both kinds.
LEMMA KindsApart ==
    /\ DOMAIN ParserOf = DOMAIN Strict \cup DOMAIN Tolerant
    /\ DOMAIN Strict \cap DOMAIN Tolerant = {}
    /\ \A n \in DOMAIN Tolerant : ParserOf[n] = Tolerant[n]
    /\ "none" \notin DOMAIN ParserOf
<1>1. DOMAIN ParserOf = DOMAIN Strict \cup DOMAIN Tolerant
    BY DEF ParserOf, ++
<1>2. DOMAIN Strict \cap DOMAIN Tolerant = {} /\ "none" \notin DOMAIN Strict \cup DOMAIN Tolerant
    BY DEF Strict, Tolerant
<1> QED
    BY <1>1, <1>2 DEF ParserOf, ++

-----------------------------------------------------------------------------

\* The invariant: a document has odd places of its parser's, and what is odd
\* about each is one of the things that may be.
DocumentInv ==
    /\ kind = "document" => parser # "none"
    /\ parser # "none" =>
        /\ parser \in DOMAIN ParserOf
        /\ \A place \in DOMAIN document :
            /\ place \in Places(ParserOf[parser])
            /\ document[place] \in Oddities(ParserOf[parser], place)

LEMMA DocumentStep ==
    /\ Init => DocumentInv
    /\ DocumentInv /\ [Next]_vars => DocumentInv'
<1>1. Init => DocumentInv
    BY KindsApart DEF Init, DocumentInv, Alphabet
<1>2. ASSUME DocumentInv, Grow PROVE DocumentInv'
    BY <1>2 DEF DocumentInv, Grow
<1>3. ASSUME DocumentInv, Spoil PROVE DocumentInv'
  <2>1. PICK place \in Places(ParserOf[parser]) \ DOMAIN document :
            \E oddity \in Oddities(ParserOf[parser], place) :
                document' = document ++ Each(oddity, {place})
    BY <1>3 DEF Spoil
  <2>2. PICK oddity \in Oddities(ParserOf[parser], place) :
            document' = document ++ Each(oddity, {place})
    BY <2>1
  <2>3. /\ DOMAIN document' = DOMAIN document \cup {place}
        /\ \A p \in DOMAIN document : document'[p] = document[p]
        /\ document'[place] = oddity
    BY <2>1, <2>2 DEF ++, Each
  <2> QED
    BY <1>3, <2>3 DEF DocumentInv, Spoil
<1>4. ASSUME DocumentInv, UNCHANGED vars PROVE DocumentInv'
    BY <1>4 DEF DocumentInv, vars
<1> QED
    BY <1>1, <1>2, <1>3, <1>4 DEF Next

LEMMA DocumentSafe == Spec => []DocumentInv
    BY DocumentStep, PTL DEF Spec

-----------------------------------------------------------------------------

\* The field of an odd place is one of the fields of its section.
LEMMA FieldPlace ==
    ASSUME DocumentInv, parser # "none", NEW place \in DOMAIN document,
           place[2] # ""
    PROVE  /\ place[1] \in DOMAIN ParserOf[parser]
           /\ place[2] \in DOMAIN ParserOf[parser][place[1]].fields
<1> DEFINE table == ParserOf[parser]
<1>1. place \in Places(table)
    BY DEF DocumentInv
<1> HIDE DEF table
<1>2. place \notin {<<s, "">> : s \in DOMAIN table}
  <2>1. ASSUME NEW s \in DOMAIN table, place = <<s, "">>
        PROVE  FALSE
    <3>1. place[2] = ""
      BY <2>1
    <3> QED
      BY <3>1
  <2> QED
    BY <2>1
<1>3. PICK s \in DOMAIN table : place \in {s} \X DOMAIN table[s].fields
    BY <1>1, <1>2 DEF Places
<1>4. place[1] = s /\ place[2] \in DOMAIN table[s].fields
    BY <1>3
<1> QED
    BY <1>3, <1>4 DEF table

\* A lenient parser takes whatever comes.
LEMMA LenientTakesAll ==
    ASSUME DocumentInv, parser \in DOMAIN Tolerant
    PROVE  ~Throws(parser, document)
<1>1. Mild(ParserOf[parser]) /\ parser # "none"
    BY TolerantMild, KindsApart
<1>2. ~\E s \in Reached(parser, document) : ParserOf[parser][s].enter = "any"
    BY <1>1 DEF Reached, Mild
<1>3. ASSUME NEW place \in DOMAIN document, place[2] # ""
      PROVE  Taken(Accessor(ParserOf[parser], place), document[place]) # "throws"
  <2>1. Accessor(ParserOf[parser], place) \in Indifferent
    BY <1>1, <1>3, FieldPlace DEF Mild, Gentle, Accessor, Indifferent
  <2>2. document[place] \in {"absent", "null", "other", "wide"}
    BY <1>1 DEF DocumentInv, Oddities
  <2> QED
    BY <2>1, <2>2 DEF Taken, TakenAbsent
<1> QED
    BY <1>2, <1>3 DEF Throws

\* A parser of either kind takes what is absent or wide.
LEMMA AbsentIsTaken ==
    ASSUME DocumentInv, parser # "none", Oddness \cap {"null", "other"} = {}
    PROVE  ~Throws(parser, document)
<1>1. \A place \in DOMAIN document : document[place] \in {"absent", "wide"}
    BY DEF DocumentInv, Oddities, Oddness
<1>2. \A s : Shape(document, <<s, "">>) \notin {"null", "other"}
    BY <1>1 DEF Shape
<1>3. \A accessor : \A shape \in {"absent", "wide"} :
          Taken(accessor, shape) # "throws"
    BY DEF Taken, TakenAbsent
<1> QED
    BY <1>1, <1>2, <1>3 DEF Throws

(* json.hpp:12-14: whatever is missing in a document, in however many       *)
(* places, a model is made of it; and of whatever is mistyped, by the       *)
(* parsers that Responses takes for lenient.                                *)
THEOREM KindsAlwaysAgree == Spec => []KindsAgree
<1>1. ASSUME DocumentInv, kind = "document"
      PROVE  Outcome \in Parsed(Manner, Body)
  <2>1. parser # "none" /\ parser \in DOMAIN Strict \cup DOMAIN Tolerant
    BY <1>1, KindsApart DEF DocumentInv
  <2>2. CASE parser \in DOMAIN Strict
    <3>1. Manner = "strict"
      BY <2>2 DEF Manner
    <3>2. CASE Oddness \cap {"null", "other"} = {}
      <4>1. Outcome = "value" /\ Body \in {"bare", "complete"}
        BY <1>1, <2>1, <3>2, AbsentIsTaken DEF Outcome, Body
      <4> QED
        BY <3>1, <4>1 DEF Parsed, StrictParse, Lenient
    <3>3. CASE Oddness \cap {"null", "other"} # {}
      BY <3>1, <3>3 DEF Outcome, Body, Parsed, StrictParse, Lenient
    <3> QED
      BY <3>2, <3>3
  <2>3. CASE parser \in DOMAIN Tolerant
    <3>1. Manner = "lenient" /\ Outcome = "value"
      BY <1>1, <2>3, KindsApart, LenientTakesAll DEF Manner, Outcome
    <3> QED
      BY <3>1 DEF Parsed, Lenient, Body
  <2> QED
    BY <2>1, <2>2, <2>3
<1>2. DocumentInv => KindsAgree
    BY <1>1 DEF KindsAgree
<1> QED
    BY <1>2, DocumentSafe, PTL

(* A lenient parser keeps the whole of a 64 bit integer, however odd the    *)
(* rest of the document, but for the five fields that are an int.           *)
THEOREM IntegersAlwaysKept == Spec => []IntegersKept
<1>1. ASSUME DocumentInv, parser \in DOMAIN Tolerant,
             NEW place \in DOMAIN document, document[place] = "wide",
             place[1] \in Entered(parser, document), place[2] \notin Narrow
      PROVE  Field(parser, document, place) = "value"
  <2>1. Mild(ParserOf[parser]) /\ parser # "none"
    BY <1>1, TolerantMild, KindsApart
  <2>2. place[2] # "" /\ Accessor(ParserOf[parser], place) \in Integer
    BY <1>1, <2>1 DEF DocumentInv, Oddities
  <2>3. Accessor(ParserOf[parser], place) = "json int"
    BY <1>1, <2>1, <2>2, FieldPlace DEF Mild, Gentle, Accessor, Integer
  <2> QED
    BY <1>1, <2>3 DEF Field, Shape, Taken
<1>2. DocumentInv => IntegersKept
    BY <1>1 DEF IntegersKept, Narrow
<1> QED
    BY <1>2, DocumentSafe, PTL

-----------------------------------------------------------------------------

\* Loops over the places of a text.

\* The order of the natural numbers, as a relation.
Below == {p \in Nat \X Nat : p[1] < p[2]}

\* What holds at place 0, and after every place where it holds, holds at all.
LEMMA UpTo ==
    ASSUME NEW N \in Nat, NEW T, 0 \in T, \A i \in 1..N : i - 1 \in T => i \in T
    PROVE  0..N \subseteq T
<1> DEFINE Missed == {i \in 0..N : i \notin T}
<1> SUFFICES ASSUME Missed # {} PROVE FALSE
    OBVIOUS
<1>1. IsWellFoundedOn(Below, Nat)
    BY NatLessThanWellFounded DEF OpToRel, Below
<1>2. \E x \in Missed : \A y \in Missed : <<y, x>> \notin Below
  <2>1. Missed \subseteq Nat
    OBVIOUS
  <2> HIDE DEF Missed
  <2> QED
    BY <1>1, <2>1, WFMin
<1>3. PICK x \in Missed : \A y \in Missed : <<y, x>> \notin Below
    BY <1>2
<1>4. x \in 1..N /\ x - 1 \in Missed
    OBVIOUS
<1>5. <<x - 1, x>> \in Below
    BY <1>4 DEF Below
<1> QED
    BY <1>3, <1>4, <1>5

\* The course of a loop over n places.
IsCourse(f, n, S, start, step) ==
    /\ f \in [0..n -> S]
    /\ f[0] = start
    /\ \A i \in 1..n : f[i] = step[<<f[i - 1], i>>]

\* Every loop has a course.
LEMMA CourseExists ==
    ASSUME NEW N \in Nat, NEW S, NEW start \in S, NEW step \in [S \X (1..N) -> S]
    PROVE  \E f : IsCourse(f, N, S, start, step)
<1> DEFINE T == {n \in 0..N : \E f : IsCourse(f, n, S, start, step)}
<1>1. 0 \in T
  <2>1. IsCourse([i \in 0..0 |-> start], 0, S, start, step)
    BY DEF IsCourse
  <2> QED
    BY <2>1
<1>2. ASSUME NEW n \in 1..N, n - 1 \in T PROVE n \in T
  <2>1. PICK f : IsCourse(f, n - 1, S, start, step)
    BY <1>2
  <2> DEFINE g == [i \in 0..n |-> IF i = n THEN step[<<f[n - 1], n>>] ELSE f[i]]
  <2>2. f[n - 1] \in S
    BY <2>1 DEF IsCourse
  <2>3. step[<<f[n - 1], n>>] \in S
    BY <2>2
  <2>4. g \in [0..n -> S] /\ g[0] = start
    BY <2>1, <2>3 DEF IsCourse
  <2>5. ASSUME NEW i \in 1..n PROVE g[i] = step[<<g[i - 1], i>>]
    <3>1. g[i - 1] = f[i - 1]
      OBVIOUS
    <3>2. CASE i = n
      <4>1. g[i] = step[<<f[i - 1], i>>]
        BY <3>2
      <4> QED
        BY <3>1, <4>1
    <3>3. CASE i # n
      <4>1. g[i] = f[i] /\ i \in 1..(n - 1)
        BY <3>3
      <4> QED
        BY <2>1, <3>1, <4>1 DEF IsCourse
    <3> QED
      BY <3>2, <3>3
  <2> HIDE DEF g
  <2>6. IsCourse(g, n, S, start, step)
    BY <2>4, <2>5 DEF IsCourse
  <2> QED
    BY <2>6
<1> HIDE DEF T
<1>3. N \in T
    BY <1>1, <1>2, UpTo
<1> QED
    BY <1>3 DEF T

-----------------------------------------------------------------------------

\* Addresses, and the domains.

\* What the scanner of colon addresses keeps of a text.
V6States == [groups : Nat, in_group : BOOLEAN, ok : BOOLEAN]

\* The course of that scanner, step by step.
LEMMA V6ScanIs ==
    ASSUME NEW C, NEW t \in Seq(C)
    PROVE  /\ V6Scan(t)[0] = V6Start
           /\ \A i \in 1..Len(t) :
                V6Scan(t)[i] = V6Step(V6Scan(t)[i - 1], t[i])
<1> DEFINE N == Len(t)
           step == [p \in V6States \X (1..N) |-> V6Step(p[1], t[p[2]])]
           After(f, i) == IF i = 0 THEN V6Start ELSE V6Step(f[i - 1], t[i])
           Course(f) == f = [i \in 0..N |-> After(f, i)]
<1>1. N \in Nat /\ V6Start \in V6States
    BY DEF V6States, V6Start
<1>2. ASSUME NEW s \in V6States, NEW c PROVE V6Step(s, c) \in V6States
  <2>1. c \in HexDigits \/ c = ":" \/ c \notin HexDigits \cup {":"}
    OBVIOUS
  <2>2. ":" \notin HexDigits
    BY DEF HexDigits, Digits
  <2>3. CASE c \in HexDigits
    BY <2>2, <2>3 DEF V6States, V6Step
  <2>4. CASE c = ":"
    <3>1. (IF s.in_group THEN s.groups + 1 ELSE s.groups) \in Nat
      BY DEF V6States
    <3> QED
      BY <2>2, <2>4, <3>1, Zenon DEF V6States, V6Step
  <2>5. CASE c \notin HexDigits \cup {":"}
    BY <2>5 DEF V6States, V6Step
  <2> QED
    BY <2>1, <2>3, <2>4, <2>5
<1>3. step \in [V6States \X (1..N) -> V6States]
    BY <1>2
<1>4. PICK f : IsCourse(f, N, V6States, V6Start, step)
  <2> HIDE DEF step, N
  <2> QED
    BY <1>1, <1>3, CourseExists
<1>5. \A i \in 1..N : f[i] = V6Step(f[i - 1], t[i])
    BY <1>1, <1>4 DEF IsCourse
<1>6. \A i \in 0..N : f[i] = After(f, i)
  <2> HIDE DEF step, N
  <2> QED
    BY <1>1, <1>4, <1>5 DEF IsCourse
<1>7. Course(f)
  <2> HIDE DEF After
  <2> QED
    BY <1>4, <1>6 DEF IsCourse
<1>8. Course(V6Scan(t))
    BY <1>7 DEF V6Scan
<1> QED
    BY <1>1, <1>8

\* The members of D up to i are counted one place at a time.
Up(D, i) == Cardinality(D \cap (1..i))

\* One more place is counted just if it is one of D.
LEMMA CountUp ==
    ASSUME NEW N \in Nat, NEW D, D \subseteq 1..N
    PROVE  /\ Up(D, 0) = 0
           /\ Up(D, N) = Cardinality(D)
           /\ \A i \in 0..N : Up(D, i) \in Nat
           /\ \A i \in 1..N : i \in D => Up(D, i) = Up(D, i - 1) + 1
           /\ \A i \in 1..N : i \notin D => Up(D, i) = Up(D, i - 1)
<1>1. ASSUME NEW i \in 0..N PROVE IsFiniteSet(D \cap (1..i))
  <2>1. IsFiniteSet(1..i) /\ D \cap (1..i) \subseteq 1..i
    BY FS_Interval
  <2> QED
    BY <2>1, FS_Subset
<1>2. Up(D, 0) = 0
  <2>1. D \cap (1..0) = {}
    OBVIOUS
  <2> QED
    BY <2>1, FS_EmptySet DEF Up
<1>3. Up(D, N) = Cardinality(D)
  <2>1. D \cap (1..N) = D
    OBVIOUS
  <2> QED
    BY <2>1 DEF Up
<1>4. \A i \in 0..N : Up(D, i) \in Nat
    BY <1>1, FS_CardinalityType DEF Up
<1>5. ASSUME NEW i \in 1..N, i \in D PROVE Up(D, i) = Up(D, i - 1) + 1
  <2>1. D \cap (1..i) = (D \cap (1..(i - 1))) \cup {i}
    BY <1>5
  <2>2. i \notin D \cap (1..(i - 1)) /\ i - 1 \in 0..N
    OBVIOUS
  <2> QED
    BY <1>1, <2>1, <2>2, FS_AddElement DEF Up
<1>6. ASSUME NEW i \in 1..N, i \notin D PROVE Up(D, i) = Up(D, i - 1)
  <2>1. D \cap (1..i) = D \cap (1..(i - 1))
    BY <1>6
  <2> QED
    BY <2>1 DEF Up
<1> QED
    BY <1>2, <1>3, <1>4, <1>5, <1>6

\* After i characters: whether they all may be there, whether the last is in a
\* group, and how many groups have been started.
V6Inv(t, i) ==
    LET s == V6Scan(t)[i]
    IN  /\ s \in V6States
        /\ s.ok <=> \A j \in 1..i : t[j] \in HexDigits \cup {":"}
        /\ s.ok =>
            /\ s.in_group <=> i > 0 /\ t[i] # ":"
            /\ s.in_group => s.groups + 1 = Up(GroupStarts(t), i)
            /\ ~s.in_group => s.groups = Up(GroupStarts(t), i)

\* Every character keeps the invariant.
LEMMA V6InvNext ==
    ASSUME NEW C, NEW t \in Seq(C), NEW i \in 1..Len(t), V6Inv(t, i - 1)
    PROVE  V6Inv(t, i)
<1> DEFINE s == V6Scan(t)[i - 1]
           r == V6Scan(t)[i]
           D == GroupStarts(t)
<1>1. r = V6Step(s, t[i])
    BY V6ScanIs
<1>2. s \in V6States
    BY DEF V6Inv
<1>3. D \subseteq 1..Len(t) /\ Len(t) \in Nat
    BY DEF GroupStarts
<1>4. /\ Up(D, i - 1) \in Nat
      /\ i \in D => Up(D, i) = Up(D, i - 1) + 1
      /\ i \notin D => Up(D, i) = Up(D, i - 1)
  <2>1. i - 1 \in 0..Len(t)
    BY <1>3
  <2> HIDE DEF D
  <2> QED
    BY <1>3, <2>1, CountUp
<1>5. i \in D <=> t[i] # ":" /\ (i > 1 => t[i - 1] = ":")
    BY <1>3 DEF GroupStarts
<1>6. /\ s.ok <=> \A j \in 1..(i - 1) : t[j] \in HexDigits \cup {":"}
      /\ s.ok => /\ s.in_group <=> i > 1 /\ t[i - 1] # ":"
                 /\ s.in_group => s.groups + 1 = Up(D, i - 1)
                 /\ ~s.in_group => s.groups = Up(D, i - 1)
    BY <1>3 DEF V6Inv
<1>7. ":" \notin HexDigits
    BY DEF HexDigits, Digits
<1> HIDE DEF s, r, D
<1>8. CASE t[i] \in HexDigits
  <2>1. r = [s EXCEPT !.in_group = TRUE]
    BY <1>1, <1>7, <1>8 DEF V6Step
  <2>2. r \in V6States /\ r.ok = s.ok /\ r.in_group = TRUE /\ r.groups = s.groups
    BY <1>2, <2>1 DEF V6States
  <2>3. t[i] # ":"
    BY <1>7, <1>8
  <2>4. r.ok <=> \A j \in 1..i : t[j] \in HexDigits \cup {":"}
    BY <1>6, <1>8, <2>2
  <2>5. s.ok => (i \in D <=> ~s.in_group)
    BY <1>5, <1>6, <2>3
  <2>6. r.ok => r.groups + 1 = Up(D, i)
    BY <1>4, <1>6, <2>2, <2>5
  <2> QED
    BY <2>2, <2>3, <2>4, <2>6 DEF V6Inv, r, D
<1>9. CASE t[i] = ":"
  <2>1. r = [s EXCEPT !.groups = IF s.in_group THEN s.groups + 1 ELSE s.groups,
                      !.in_group = FALSE]
    BY <1>1, <1>7, <1>9 DEF V6Step
  <2>2. /\ r.ok = s.ok /\ r.in_group = FALSE
        /\ s.in_group => r.groups = s.groups + 1
        /\ ~s.in_group => r.groups = s.groups
    BY <1>2, <2>1 DEF V6States
  <2>3. r \in V6States
    <3>1. (IF s.in_group THEN s.groups + 1 ELSE s.groups) \in Nat
      BY <1>2 DEF V6States
    <3> QED
      BY <1>2, <2>1, <3>1, Zenon DEF V6States
  <2>4. r.ok <=> \A j \in 1..i : t[j] \in HexDigits \cup {":"}
    BY <1>6, <1>9, <2>2
  <2>5. r.ok => r.groups = Up(D, i)
    BY <1>4, <1>5, <1>6, <1>9, <2>2
  <2> QED
    BY <1>9, <2>2, <2>3, <2>4, <2>5 DEF V6Inv, r, D
<1>10. CASE t[i] \notin HexDigits \cup {":"}
  <2>1. r = [s EXCEPT !.ok = FALSE]
    BY <1>1, <1>10 DEF V6Step
  <2>2. r \in V6States /\ r.ok = FALSE
    BY <1>2, <2>1 DEF V6States
  <2> QED
    BY <1>10, <2>2 DEF V6Inv, r
<1> QED
    BY <1>8, <1>9, <1>10

\* A text with a colon is accepted just if it is one to GroupLimit hexadecimal
\* groups.
LEMMA V6Exact ==
    ASSUME NEW C, NEW t \in Seq(C), Contains(t, ":")
    PROVE  V6End(V6Scan(t)[Len(t)]) <=> IsColonHex(t)
<1> DEFINE N == Len(t)
           T == {i \in 0..N : V6Inv(t, i)}
           s == V6Scan(t)[N]
           D == GroupStarts(t)
<1>1. N \in Nat /\ D \subseteq 1..N /\ N \in 0..N
    BY DEF GroupStarts
<1> HIDE DEF D
<1>2. Up(D, 0) = 0 /\ Up(D, N) = Cardinality(D)
    BY <1>1, CountUp
<1>3. 0 \in T
  <2>1. V6Scan(t)[0] = V6Start
    BY V6ScanIs
  <2>2. V6Inv(t, 0)
    BY <1>2, <2>1 DEF V6Inv, V6Start, V6States, D
  <2> QED
    BY <1>1, <2>2
<1>4. \A i \in 1..N : i - 1 \in T => i \in T
    BY <1>1, V6InvNext
<1>5. V6Inv(t, N)
  <2> HIDE DEF T, N
  <2>1. N \in T
    BY <1>1, <1>3, <1>4, UpTo
  <2> QED
    BY <2>1 DEF T
<1>6. /\ s \in V6States
      /\ s.ok <=> \A j \in 1..N : t[j] \in HexDigits \cup {":"}
      /\ s.ok => /\ s.in_group => s.groups + 1 = Cardinality(D)
                 /\ ~s.in_group => s.groups = Cardinality(D)
    BY <1>2, <1>5 DEF V6Inv, D
<1>7. s.ok <=> ToSet(t) \subseteq HexDigits \cup {":"}
    BY <1>1, <1>6 DEF ToSet
<1>8. ":" \in ToSet(t)
    BY DEF Contains, ToSet
<1> HIDE DEF s, D, N
<1>9. V6End(s) <=> s.ok /\ Cardinality(D) \in 1..GroupLimit
    BY <1>6 DEF V6End, V6States
<1> QED
    BY <1>7, <1>8, <1>9 DEF IsColonHex, s, D, N

-----------------------------------------------------------------------------

\* A set of places has a first one.
LEMMA Least ==
    ASSUME NEW S, S \subseteq Nat, S # {}
    PROVE  \E x \in S : \A y \in S : x <= y
<1>1. IsWellFoundedOn(Below, Nat)
    BY NatLessThanWellFounded DEF OpToRel, Below
<1>2. \E x \in S : \A y \in S : <<y, x>> \notin Below
    BY <1>1, WFMin
<1>3. PICK x \in S : \A y \in S : <<y, x>> \notin Below
    BY <1>2
<1>4. ASSUME NEW y \in S, ~(x <= y) PROVE FALSE
  <2>1. <<y, x>> \in Below
    BY <1>4 DEF Below
  <2> QED
    BY <1>3, <2>1
<1> QED
    BY <1>4

\* Where the parts of a text are cut.
Cuts(t) == {0, Len(t) + 1} \cup Dots(t)

\* Two neighbouring cuts have no dot between them.
LEMMA BoundIs ==
    ASSUME NEW C, NEW t \in Seq(C), NEW b \in Bounds(t)
    PROVE  /\ b[1] \in Cuts(t) /\ b[2] \in Cuts(t)
           /\ b[1] \in 0..Len(t) /\ b[2] \in 1..(Len(t) + 1) /\ b[1] < b[2]
           /\ \A c \in Cuts(t) : c <= b[1] \/ c >= b[2]
           /\ \A j \in (b[1] + 1)..(b[2] - 1) : j \in 1..Len(t) /\ t[j] # "."
<1>1. /\ b[1] \in Cuts(t) /\ b[2] \in Cuts(t) /\ b[1] < b[2]
      /\ ~\E c \in Cuts(t) : b[1] < c /\ c < b[2]
    BY DEF Bounds, Cuts
<1>2. Cuts(t) \subseteq 0..(Len(t) + 1) /\ Len(t) \in Nat
    BY DEF Cuts, Dots
<1>3. \A c \in Cuts(t) : c <= b[1] \/ c >= b[2]
    BY <1>1, <1>2
<1>4. b[1] \in 0..Len(t) /\ b[2] \in 1..(Len(t) + 1)
    BY <1>1, <1>2
<1>5. ASSUME NEW j \in (b[1] + 1)..(b[2] - 1)
      PROVE  j \in 1..Len(t) /\ t[j] # "."
  <2>1. j \in 1..Len(t)
    BY <1>2, <1>4
  <2>2. j \notin Cuts(t)
    BY <1>3, <1>4
  <2> QED
    BY <2>1, <2>2 DEF Cuts, Dots
<1> QED
    BY <1>1, <1>3, <1>4, <1>5

\* After a cut and some characters that are no dots there is a next cut.
LEMMA BoundAfter ==
    ASSUME NEW C, NEW t \in Seq(C), NEW a \in Cuts(t), NEW k \in a..Len(t),
           \A j \in (a + 1)..k : t[j] # "."
    PROVE  \E b \in Bounds(t) : b[1] = a /\ b[2] > k
<1>1. Cuts(t) \subseteq 0..(Len(t) + 1) /\ Len(t) \in Nat /\ Len(t) + 1 \in Cuts(t)
    BY DEF Cuts, Dots
<1> DEFINE Later == {c \in Cuts(t) : c > k}
<1>2. a \in Nat /\ k \in Nat /\ Later \subseteq Nat /\ Len(t) + 1 \in Later
    BY <1>1
<1>3. PICK c \in Later : \A d \in Later : c <= d
  <2> HIDE DEF Later
  <2> QED
    BY <1>2, Least
<1>4. ~\E d \in Cuts(t) : a < d /\ d < c
  <2> SUFFICES ASSUME NEW d \in Cuts(t), a < d, d < c PROVE FALSE
    OBVIOUS
  <2>1. d <= k
    BY <1>1, <1>2, <1>3
  <2>2. d \in 1..Len(t) /\ d \in (a + 1)..k
    BY <1>1, <1>2, <2>1
  <2>3. t[d] = "."
    BY <1>1, <2>2 DEF Cuts, Dots
  <2> QED
    BY <2>2, <2>3
<1>5. <<a, c>> \in Bounds(t)
    BY <1>1, <1>2, <1>3, <1>4 DEF Bounds, Cuts
<1> QED
    BY <1>3, <1>5

\* What ends after a cut, and before the next one, starts at that cut.
LEMMA BoundAt ==
    ASSUME NEW C, NEW t \in Seq(C), NEW b \in Bounds(t), NEW a \in Cuts(t),
           a < b[2], \A j \in (a + 1)..(b[2] - 1) : t[j] # "."
    PROVE  b[1] = a
<1>1. Cuts(t) \subseteq 0..(Len(t) + 1) /\ Len(t) \in Nat
    BY DEF Cuts, Dots
<1>2. /\ b[1] \in Cuts(t) /\ b[1] \in 0..Len(t) /\ b[2] \in 1..(Len(t) + 1)
      /\ b[1] < b[2] /\ a <= b[1]
    BY <1>1, BoundIs
<1>3. ASSUME a < b[1] PROVE FALSE
  <2>1. b[1] \in (a + 1)..(b[2] - 1) /\ b[1] \in Dots(t)
    BY <1>1, <1>2, <1>3 DEF Cuts
  <2> QED
    BY <2>1 DEF Dots
<1> QED
    BY <1>1, <1>2, <1>3

\* The characters between two cuts.
Inside(t, b) == {t[j] : j \in (b[1] + 1)..(b[2] - 1)}

\* The places strictly between two, counted from the first.
LEMMA PlacesInside ==
    ASSUME NEW N \in Nat, NEW a \in 0..N, NEW z \in 1..(N + 1), a < z
    PROVE  /\ \A i \in 1..(z - a - 1) :
                /\ a + 1 + i - 1 = a + i
                /\ a + i \in 1..N /\ a + i \in (a + 1)..(z - 1)
           /\ \A j \in (a + 1)..(z - 1) : j - a \in 1..(z - a - 1) /\ a + (j - a) = j
           /\ z - a - 1 \in Nat /\ (z - 1) - (a + 1) + 1 = z - a - 1
OBVIOUS

\* The part between two neighbouring cuts.
LEMMA PartIs ==
    ASSUME NEW C, NEW t \in Seq(C), NEW b \in Bounds(t),
           NEW p, p = Part(t, b[1] + 1, b[2] - 1)
    PROVE  /\ p \in Parts(t) /\ p \in Seq(C)
           /\ Len(p) = b[2] - b[1] - 1 /\ Len(p) \in Nat
           /\ \A j \in 1..Len(p) : p[j] = t[b[1] + j]
           /\ ToSet(p) = Inside(t, b)
<1> DEFINE n == b[2] - b[1] - 1
<1>1. b[1] \in 0..Len(t) /\ b[2] \in 1..(Len(t) + 1) /\ b[1] < b[2] /\ Len(t) \in Nat
    BY BoundIs
<1>2. n \in Nat /\ (b[2] - 1) - (b[1] + 1) + 1 = n
    BY <1>1, PlacesInside
<1>3. p = [i \in 1..n |-> t[b[1] + 1 + i - 1]]
    BY <1>2 DEF Part
<1>4. /\ \A i \in 1..n :
            /\ b[1] + 1 + i - 1 = b[1] + i
            /\ b[1] + i \in 1..Len(t) /\ b[1] + i \in (b[1] + 1)..(b[2] - 1)
      /\ \A j \in (b[1] + 1)..(b[2] - 1) : j - b[1] \in 1..n /\ b[1] + (j - b[1]) = j
    BY <1>1, PlacesInside
<1>5. ASSUME NEW i \in 1..n PROVE p[i] = t[b[1] + i] /\ t[b[1] + i] \in C
  <2> HIDE DEF n
  <2>1. p[i] = t[b[1] + 1 + i - 1]
    BY <1>3
  <2> DEFINE k == b[1] + i
  <2>2. b[1] + 1 + i - 1 = k /\ k \in 1..Len(t)
    BY <1>4
  <2> HIDE DEF k
  <2>3. t[k] \in C
    BY <2>2
  <2> QED
    BY <2>1, <2>2, <2>3 DEF k
<1>6. p \in [1..n -> C]
  <2> HIDE DEF n
  <2> QED
    BY <1>3, <1>5
<1>7. p \in Seq(C) /\ Len(p) = n
  <2> HIDE DEF n
  <2> QED
    BY <1>2, <1>6
<1>8. p \in Parts(t)
    BY DEF Parts
<1>9. ToSet(p) = Inside(t, b)
  <2>1. ASSUME NEW x \in ToSet(p) PROVE \E j \in (b[1] + 1)..(b[2] - 1) : x = t[j]
    <3>1. PICK i \in 1..n : x = p[i]
      BY <1>6 DEF ToSet
    <3>2. x = t[b[1] + i] /\ b[1] + i \in (b[1] + 1)..(b[2] - 1)
      BY <1>4, <1>5, <3>1
    <3> QED
      BY <3>2
  <2>2. ASSUME NEW j \in (b[1] + 1)..(b[2] - 1) PROVE t[j] \in ToSet(p)
    <3>1. j - b[1] \in 1..n /\ b[1] + (j - b[1]) = j
      BY <1>4
    <3>2. p[j - b[1]] = t[j]
      BY <1>5, <3>1
    <3> QED
      BY <1>6, <3>1, <3>2 DEF ToSet
  <2> QED
    BY <2>1, <2>2 DEF Inside
<1> QED
    BY <1>2, <1>5, <1>7, <1>8, <1>9

-----------------------------------------------------------------------------

\* What the scanner of dotted quads keeps of a text.
V4States == [octets : Nat, value : Nat, digits : Nat, ok : BOOLEAN]

\* A digit has a value of one figure.
LEMMA NumeralType == \A d \in Digits : Numeral[d] \in 0..9
    BY DEF Numeral, Digits

\* Every character leads from state to state.
LEMMA V4StepType ==
    ASSUME NEW s \in V4States, NEW c
    PROVE  V4Step(s, c) \in V4States
<1>1. CASE ~s.ok
    BY <1>1 DEF V4Step
<1>2. CASE s.ok /\ c \in Digits
  <2>1. V4Step(s, c) = V4Digit(s, c)
    BY <1>2 DEF V4Step, Digits
  <2>2. 10 * s.value + Numeral[c] \in Nat /\ s.digits + 1 \in Nat
    BY <1>2, NumeralType DEF V4States
  <2>3. (s.digits < 3 /\ 10 * s.value + Numeral[c] <= OctetLimit) \in BOOLEAN
    OBVIOUS
  <2> QED
    BY <2>1, <2>2, <2>3, Zenon DEF V4States, V4Digit
<1>3. CASE s.ok /\ c = "."
  <2>1. V4Step(s, c) = V4Dot(s)
    BY <1>3 DEF V4Step, Digits
  <2>2. s.octets + 1 \in Nat /\ 0 \in Nat /\ FALSE \in BOOLEAN
    BY DEF V4States
  <2>3. [s EXCEPT !.ok = FALSE] \in V4States
    BY DEF V4States
  <2>4. [s EXCEPT !.octets = s.octets + 1, !.value = 0, !.digits = 0] \in V4States
    BY <2>2 DEF V4States
  <2> QED
    BY <2>1, <2>3, <2>4 DEF V4Dot
<1>4. CASE s.ok /\ c \notin Digits \cup {"."}
    BY <1>4 DEF V4Step, V4States
<1> QED
    BY <1>1, <1>2, <1>3, <1>4

\* The course of the scanner of dotted quads, step by step.
LEMMA V4ScanIs ==
    ASSUME NEW C, NEW t \in Seq(C)
    PROVE  /\ V4Scan(t)[0] = V4Start
           /\ \A i \in 1..Len(t) :
                V4Scan(t)[i] = V4Step(V4Scan(t)[i - 1], t[i])
<1> DEFINE N == Len(t)
           step == [p \in V4States \X (1..N) |-> V4Step(p[1], t[p[2]])]
           After(f, i) == IF i = 0 THEN V4Start ELSE V4Step(f[i - 1], t[i])
           Course(f) == f = [i \in 0..N |-> After(f, i)]
<1>1. N \in Nat /\ V4Start \in V4States
    BY DEF V4States, V4Start
<1>2. step \in [V4States \X (1..N) -> V4States]
    BY V4StepType
<1>3. PICK f : IsCourse(f, N, V4States, V4Start, step)
  <2> HIDE DEF step, N
  <2> QED
    BY <1>1, <1>2, CourseExists
<1>4. \A i \in 1..N : f[i] = V4Step(f[i - 1], t[i])
    BY <1>1, <1>3 DEF IsCourse
<1>5. \A i \in 0..N : f[i] = After(f, i)
  <2> HIDE DEF step, N
  <2> QED
    BY <1>1, <1>3, <1>4 DEF IsCourse
<1>6. Course(f)
  <2> HIDE DEF After
  <2> QED
    BY <1>3, <1>5 DEF IsCourse
<1>7. Course(V4Scan(t))
    BY <1>6 DEF V4Scan
<1> QED
    BY <1>1, <1>7

\* The number that the last k characters up to i stand for.
Reading(t, i, k) ==
    CASE k = 0 -> 0
      [] k = 1 -> Numeral[t[i]]
      [] k = 2 -> 10 * Numeral[t[i - 1]] + Numeral[t[i]]
      [] k = 3 -> 100 * Numeral[t[i - 2]] + 10 * Numeral[t[i - 1]] + Numeral[t[i]]

\* The number that the last k digits before a place make.
LEMMA ReadingIs ==
    ASSUME NEW t, NEW i
    PROVE  /\ Reading(t, i, 0) = 0
           /\ Reading(t, i, 1) = Numeral[t[i]]
           /\ Reading(t, i, 2) = 10 * Numeral[t[i - 1]] + Numeral[t[i]]
           /\ Reading(t, i, 3) = 100 * Numeral[t[i - 2]] + 10 * Numeral[t[i - 1]]
                                     + Numeral[t[i]]
    BY DEF Reading

\* A part stands for no less than its first characters do.
LEMMA DecimalGrows ==
    ASSUME NEW C, NEW t \in Seq(C), NEW b \in Bounds(t), NEW k \in 1..3,
           NEW p, p = Part(t, b[1] + 1, b[2] - 1),
           Len(p) \in k..3, ToSet(p) \subseteq Digits
    PROVE  /\ Decimal(p) >= Reading(t, b[1] + k, k)
           /\ Len(p) = k => Decimal(p) = Reading(t, b[1] + k, k)
<1> DEFINE a == b[1]
           L == Len(p)
           n1 == Numeral[t[a + 1]]
           n2 == Numeral[t[a + 2]]
           n3 == Numeral[t[a + 3]]
           d == Decimal(p)
           r == Reading(t, a + k, k)
<1>1. /\ a \in Nat /\ p \in Seq(C)
      /\ \A j \in 1..L : p[j] = t[a + j]
    BY PartIs, BoundIs
<1>2. L = 1 \/ L = 2 \/ L = 3
  <2>1. L \in k..3
    OBVIOUS
  <2> HIDE DEF L
  <2> QED
    BY <2>1
<1>3. \A j \in 1..L : Numeral[t[a + j]] \in 0..9
  <2>1. \A j \in 1..L : p[j] \in Digits
    BY <1>1 DEF ToSet
  <2> HIDE DEF L, a
  <2> QED
    BY <1>1, <2>1, NumeralType
<1>4. /\ n1 \in 0..9
      /\ L >= 2 => n2 \in 0..9
      /\ L = 3 => n3 \in 0..9
  <2> HIDE DEF L, a
  <2> QED
    BY <1>2, <1>3
<1>5. /\ L = 1 => d = n1
      /\ L = 2 => d = 10 * n1 + n2
      /\ L = 3 => d = 100 * n1 + 10 * n2 + n3
  <2>1. /\ p[1] = t[a + 1]
        /\ L >= 2 => p[2] = t[a + 2]
        /\ L = 3 => p[3] = t[a + 3]
    <3> HIDE DEF L, a
    <3> QED
      BY <1>1, <1>2
  <2> QED
    BY <2>1 DEF Decimal
<1>6. /\ k = 1 => r = n1
      /\ k = 2 => r = 10 * n1 + n2
      /\ k = 3 => r = 100 * n1 + 10 * n2 + n3
  <2>1. CASE k = 1
    BY <2>1, ReadingIs
  <2>2. CASE k = 2
    <3> DEFINE i == a + 2
    <3>1. i - 1 = a + 1 /\ r = Reading(t, i, 2)
      BY <1>1, <2>2
    <3> HIDE DEF i, r
    <3>2. r = 10 * Numeral[t[i - 1]] + Numeral[t[i]]
      BY <3>1, ReadingIs
    <3> QED
      BY <2>2, <3>1, <3>2 DEF i
  <2>3. CASE k = 3
    <3> DEFINE i == a + 3
    <3>1. i - 1 = a + 2 /\ i - 2 = a + 1 /\ r = Reading(t, i, 3)
      BY <1>1, <2>3
    <3> HIDE DEF i, r
    <3>2. r = 100 * Numeral[t[i - 2]] + 10 * Numeral[t[i - 1]] + Numeral[t[i]]
      BY <3>1, ReadingIs
    <3> QED
      BY <2>3, <3>1, <3>2 DEF i
  <2> QED
    BY <2>1, <2>2, <2>3
<1>7. (k = 1 \/ k = 2 \/ k = 3) /\ L >= k
  <2>1. L \in k..3
    OBVIOUS
  <2> HIDE DEF L
  <2> QED
    BY <2>1
<1> HIDE DEF a, n1, n2, n3, L, d, r
<1>8. d >= r /\ (L = k => d = r)
  <2>1. CASE L = 1
    BY <1>4, <1>5, <1>6, <1>7, <2>1
  <2>2. CASE L = 2
    <3>1. n1 \in 0..9 /\ n2 \in 0..9 /\ d = 10 * n1 + n2
      BY <1>4, <1>5, <2>2
    <3> QED
      BY <1>6, <1>7, <2>2, <3>1
  <2>3. CASE L = 3
    <3>1. n1 \in 0..9 /\ n2 \in 0..9 /\ n3 \in 0..9 /\ d = 100 * n1 + 10 * n2 + n3
      BY <1>4, <1>5, <2>3
    <3> QED
      BY <1>6, <1>7, <2>3, <3>1
  <2> QED
    BY <1>2, <2>1, <2>2, <2>3
<1> QED
    BY <1>8 DEF a, L, d, r

\* At most three digits make a natural number.
LEMMA DecimalType ==
    ASSUME NEW C, NEW p \in Seq(C), Len(p) \in 1..3, ToSet(p) \subseteq Digits
    PROVE  Decimal(p) \in Nat
<1> DEFINE L == Len(p)
<1>1. \A j \in 1..L : Numeral[p[j]] \in 0..9
  <2>1. \A j \in 1..L : p[j] \in Digits
    BY DEF ToSet
  <2> QED
    BY <2>1, NumeralType
<1>2. L = 1 \/ L = 2 \/ L = 3
    OBVIOUS
<1>3. CASE L = 1
    BY <1>1, <1>3 DEF Decimal
<1>4. CASE L = 2
  <2> DEFINE n1 == Numeral[p[1]]
             n2 == Numeral[p[2]]
  <2>1. n1 \in 0..9 /\ n2 \in 0..9 /\ Decimal(p) = 10 * n1 + n2
    BY <1>1, <1>4 DEF Decimal
  <2> HIDE DEF n1, n2
  <2> QED
    BY <2>1
<1>5. CASE L = 3
  <2> DEFINE n1 == Numeral[p[1]]
             n2 == Numeral[p[2]]
             n3 == Numeral[p[3]]
  <2>1. n1 \in 0..9 /\ n2 \in 0..9 /\ n3 \in 0..9
    BY <1>1, <1>5
  <2>2. Decimal(p) = 100 * n1 + 10 * n2 + n3
    BY <1>5 DEF Decimal
  <2> HIDE DEF n1, n2, n3
  <2> QED
    BY <2>1, <2>2
<1> QED
    BY <1>2, <1>3, <1>4, <1>5

\* One more digit.
LEMMA ReadingStep ==
    ASSUME NEW t, NEW i \in Nat, NEW k \in 0..2, i >= 1,
           \A j \in (i - k)..i : Numeral[t[j]] \in 0..9
    PROVE  Reading(t, i, k + 1) = 10 * Reading(t, i - 1, k) + Numeral[t[i]]
<1> DEFINE n == Numeral[t[i]]
<1>1. n \in 0..9
    OBVIOUS
<1>2. CASE k = 0
  <2>1. Reading(t, i, 1) = n /\ Reading(t, i - 1, 0) = 0
    BY ReadingIs
  <2> HIDE DEF n
  <2> QED
    BY <1>1, <1>2, <2>1 DEF n
<1>3. CASE k = 1
  <2> DEFINE m == Numeral[t[i - 1]]
  <2>1. m \in 0..9
    BY <1>3
  <2>2. Reading(t, i, 2) = 10 * m + n /\ Reading(t, i - 1, 1) = m
    BY ReadingIs
  <2> HIDE DEF m, n
  <2> QED
    BY <1>1, <1>3, <2>1, <2>2 DEF n
<1>4. CASE k = 2
  <2> DEFINE m == Numeral[t[i - 1]]
             l == Numeral[t[i - 2]]
             h == i - 1
  <2>1. m \in 0..9 /\ l \in 0..9
    BY <1>4
  <2>2. h - 1 = i - 2
    OBVIOUS
  <2> HIDE DEF h
  <2>3. Reading(t, h, 2) = 10 * Numeral[t[h - 1]] + Numeral[t[h]]
    BY ReadingIs
  <2>4. Reading(t, i - 1, 2) = 10 * l + m
    BY <2>2, <2>3 DEF h
  <2>5. Reading(t, i, 3) = 100 * l + 10 * m + n
    BY ReadingIs
  <2> HIDE DEF m, n, l
  <2> QED
    BY <1>1, <1>4, <2>1, <2>4, <2>5 DEF n
<1> QED
    BY <1>2, <1>3, <1>4

\* After i characters: the octets read are the parts up to the last dot, and the
\* counters describe the digits since.
V4Going(t, i, s) ==
    /\ s.digits \in 0..3
    /\ i - s.digits \in Cuts(t)
    /\ \A j \in (i - s.digits + 1)..i : t[j] \in Digits
    /\ s.value = Reading(t, i, s.digits)
    /\ s.value <= OctetLimit
    /\ s.octets = Up(Dots(t), i)
    /\ \A j \in 1..i : t[j] \in Digits \cup {"."}
    /\ \A b \in Bounds(t) :
        b[2] <= i => IsOctet(Part(t, b[1] + 1, b[2] - 1))

\* The invariant of the scan: where it has stopped, the text is no quad.
V4Inv(t, i) ==
    LET s == V4Scan(t)[i]
    IN  /\ s \in V4States
        /\ s.ok => V4Going(t, i, s)
        /\ ~s.ok => ~IsQuad(t)

\* Every part of a quad is an octet.
LEMMA QuadParts ==
    ASSUME NEW C, NEW t \in Seq(C), IsQuad(t), NEW b \in Bounds(t),
           NEW p, p = Part(t, b[1] + 1, b[2] - 1)
    PROVE  /\ Len(p) \in 1..3 /\ ToSet(p) \subseteq Digits
           /\ Decimal(p) <= OctetLimit
    BY PartIs DEF IsQuad, IsOctet

\* One more character, from where the scan is going.
LEMMA V4DigitStep ==
    ASSUME NEW C, NEW t \in Seq(C), NEW i \in 1..Len(t), NEW s \in V4States,
           s.ok, V4Going(t, i - 1, s), t[i] \in Digits,
           NEW r, r = V4Digit(s, t[i])
    PROVE  /\ r.ok => V4Going(t, i, r)
           /\ ~r.ok => ~IsQuad(t)
<1> DEFINE k == s.digits
           a == i - 1 - k
           v == 10 * s.value + Numeral[t[i]]
<1>1. /\ k \in 0..3 /\ a \in Cuts(t)
      /\ \A j \in (a + 1)..(i - 1) : t[j] \in Digits
      /\ s.value = Reading(t, i - 1, k)
      /\ s.octets = Up(Dots(t), i - 1)
      /\ \A j \in 1..(i - 1) : t[j] \in Digits \cup {"."}
      /\ \A b \in Bounds(t) :
           b[2] <= i - 1 => IsOctet(Part(t, b[1] + 1, b[2] - 1))
    BY DEF V4Going
<1>2. /\ r.ok <=> k < 3 /\ v <= OctetLimit
      /\ r.digits = k + 1 /\ r.value = v /\ r.octets = s.octets
    BY DEF V4Digit, V4States
<1>3. Len(t) \in Nat /\ i \in Nat /\ i >= 1 /\ i <= Len(t)
      /\ Dots(t) \subseteq 1..Len(t) /\ i \in 1..Len(t)
    BY DEF Dots
<1>4. a \in Nat /\ a <= i /\ a + k + 1 = i
  <2>1. Cuts(t) \subseteq Nat
    BY <1>3 DEF Cuts
  <2> HIDE DEF k
  <2> QED
    BY <1>1, <1>3, <2>1
<1>5. t[i] # "." /\ i \notin Dots(t) /\ i \notin Cuts(t)
    BY <1>3 DEF Dots, Cuts, Digits
<1>6. \A j \in (a + 1)..i : t[j] \in Digits /\ t[j] # "."
    BY <1>1, <1>3, <1>4 DEF Digits
<1> HIDE DEF k, a
<1>7. k < 3 => v = Reading(t, i, k + 1)
  <2>1. \A j \in (i - k)..i : Numeral[t[j]] \in 0..9
    BY <1>1, <1>4, <1>6, NumeralType
  <2> QED
    BY <1>1, <1>3, <2>1, ReadingStep
<1> HIDE DEF v
<1>8. ASSUME ~r.ok PROVE ~IsQuad(t)
  <2> SUFFICES ASSUME IsQuad(t) PROVE FALSE
    OBVIOUS
  <2>1. PICK b \in Bounds(t) : b[1] = a /\ b[2] > i
    <3>1. i \in a..Len(t)
      BY <1>3, <1>4
    <3> QED
      BY <1>1, <1>6, <3>1, BoundAfter
  <2> DEFINE p == Part(t, b[1] + 1, b[2] - 1)
  <2>2. Len(p) \in 1..3 /\ ToSet(p) \subseteq Digits /\ Decimal(p) <= OctetLimit
    BY QuadParts
  <2>3. p \in Seq(C) /\ Len(p) = b[2] - b[1] - 1 /\ b[2] \in Nat
    BY PartIs, BoundIs
  <2> HIDE DEF p
  <2>4. k + 1 \in 1..3 /\ Len(p) \in (k + 1)..3
    <3> DEFINE z == b[2]
               m == Len(p)
    <3>1. m \in 1..3 /\ m = z - a - 1 /\ z \in Nat /\ z > i
      BY <2>1, <2>2, <2>3
    <3> HIDE DEF z, m
    <3>2. k + 1 \in 1..3 /\ m \in (k + 1)..3
      BY <1>1, <1>3, <1>4, <3>1
    <3> QED
      BY <3>2 DEF m
  <2>5. Decimal(p) >= Reading(t, b[1] + (k + 1), k + 1)
    BY <2>2, <2>4, DecimalGrows DEF p
  <2>6. b[1] + (k + 1) = i /\ v = Reading(t, i, k + 1) /\ ~(v <= OctetLimit)
    BY <1>1, <1>2, <1>4, <1>7, <1>8, <2>1, <2>4
  <2>7. Decimal(p) \in Nat
    BY <2>2, <2>3, DecimalType
  <2>8. v \in Int /\ OctetLimit \in Int
    <3> DEFINE n == Numeral[t[i]]
               m == s.value
    <3>1. m \in Nat /\ n \in 0..9 /\ v = 10 * m + n
      BY NumeralType DEF V4States, v
    <3>2. OctetLimit \in Nat
      BY LimitAssumption
    <3> HIDE DEF m, n
    <3> QED
      BY <3>1, <3>2
  <2>9. Decimal(p) >= v
    BY <2>5, <2>6
  <2> QED
    BY <2>2, <2>6, <2>7, <2>8, <2>9
<1>9. ASSUME r.ok PROVE V4Going(t, i, r)
  <2>1. r.digits \in 0..3 /\ i - r.digits = a
    BY <1>1, <1>2, <1>3, <1>4, <1>9
  <2>2. r.value = Reading(t, i, r.digits) /\ r.value <= OctetLimit
    BY <1>2, <1>7, <1>9
  <2>3. r.octets = Up(Dots(t), i)
    <3>1. Up(Dots(t), i) = Up(Dots(t), i - 1)
      BY <1>3, <1>5, CountUp
    <3> QED
      BY <1>1, <1>2, <3>1
  <2>4. \A j \in 1..i : t[j] \in Digits \cup {"."}
    BY <1>1, <1>3
  <2>5. ASSUME NEW b \in Bounds(t), b[2] <= i
        PROVE  IsOctet(Part(t, b[1] + 1, b[2] - 1))
    <3>1. b[2] \in Cuts(t) /\ b[2] \in Nat
      BY <1>3, BoundIs
    <3>2. b[2] <= i - 1
      BY <1>3, <1>5, <2>5, <3>1
    <3> QED
      BY <1>1, <3>2
  <2>6. \A j \in (i - r.digits + 1)..i : t[j] \in Digits
    BY <1>6, <2>1
  <2> QED
    BY <1>1, <2>1, <2>2, <2>3, <2>4, <2>5, <2>6 DEF V4Going
<1> QED
    BY <1>8, <1>9

\* A dot ends an octet, or there can be no quad.
LEMMA V4DotStep ==
    ASSUME NEW C, NEW t \in Seq(C), NEW i \in 1..Len(t), NEW s \in V4States,
           s.ok, V4Going(t, i - 1, s), t[i] = ".",
           NEW r, r = V4Dot(s)
    PROVE  /\ r.ok => V4Going(t, i, r)
           /\ ~r.ok => ~IsQuad(t)
<1> DEFINE k == s.digits
           a == i - 1 - k
<1>1. /\ k \in 0..3 /\ a \in Cuts(t)
      /\ \A j \in (a + 1)..(i - 1) : t[j] \in Digits
      /\ s.value = Reading(t, i - 1, k)
      /\ s.value <= OctetLimit
      /\ s.octets = Up(Dots(t), i - 1)
      /\ \A j \in 1..(i - 1) : t[j] \in Digits \cup {"."}
      /\ \A b \in Bounds(t) :
           b[2] <= i - 1 => IsOctet(Part(t, b[1] + 1, b[2] - 1))
    BY DEF V4Going
<1>2. /\ k = 0 => ~r.ok
      /\ k # 0 => /\ r.ok /\ r.octets = s.octets + 1
                  /\ r.value = 0 /\ r.digits = 0
    BY DEF V4Dot, V4States
<1>3. Len(t) \in Nat /\ i \in Nat /\ i >= 1 /\ i <= Len(t)
      /\ Dots(t) \subseteq 1..Len(t) /\ i \in Dots(t) /\ i \in Cuts(t)
    BY DEF Dots, Cuts
<1>4. a \in Nat /\ a < i /\ a + k + 1 = i
  <2>1. Cuts(t) \subseteq Nat
    BY <1>3 DEF Cuts
  <2> HIDE DEF k
  <2> QED
    BY <1>1, <1>3, <2>1
<1>5. \A j \in (a + 1)..(i - 1) : t[j] # "."
    BY <1>1 DEF Digits
<1> HIDE DEF k, a
<1>6. ASSUME k = 0 PROVE ~IsQuad(t)
  <2>1. a = i - 1 /\ a \in Cuts(t) /\ a \in a..Len(t)
    BY <1>1, <1>3, <1>4, <1>6
  <2>2. PICK b \in Bounds(t) : b[1] = a /\ b[2] > a
    BY <1>4, <2>1, BoundAfter
  <2>3. b[2] = i
    BY <1>3, <1>4, <2>1, <2>2, BoundIs
  <2> DEFINE p == Part(t, b[1] + 1, b[2] - 1)
  <2>4. Len(p) = b[2] - b[1] - 1
    BY PartIs
  <2> HIDE DEF p
  <2>5. Len(p) = 0
    BY <1>3, <2>1, <2>2, <2>3, <2>4
  <2> QED
    BY <2>5, QuadParts DEF p
<1>7. ASSUME k # 0 PROVE V4Going(t, i, r)
  <2>1. r.octets = Up(Dots(t), i)
    <3>1. Up(Dots(t), i) = Up(Dots(t), i - 1) + 1
      BY <1>3, CountUp
    <3> QED
      BY <1>1, <1>2, <1>7, <3>1
  <2>2. \A j \in 1..i : t[j] \in Digits \cup {"."}
    BY <1>1, <1>3
  <2>3. ASSUME NEW b \in Bounds(t), b[2] <= i
        PROVE  IsOctet(Part(t, b[1] + 1, b[2] - 1))
    <3>1. b[2] \in Nat
      BY <1>3, BoundIs
    <3>2. CASE b[2] = i
      <4> DEFINE p == Part(t, b[1] + 1, b[2] - 1)
      <4>1. b[1] = a
        BY <1>1, <1>4, <1>5, <3>2, BoundAt
      <4>2. /\ Len(p) = b[2] - b[1] - 1
            /\ ToSet(p) = Inside(t, b)
        BY PartIs
      <4> HIDE DEF p
      <4>3. Len(p) = k /\ k \in 1..3 /\ Len(p) \in k..3
        BY <1>1, <1>4, <1>7, <3>2, <4>1, <4>2
      <4>4. ToSet(p) \subseteq Digits
        BY <1>1, <3>2, <4>1, <4>2 DEF Inside
      <4>5. Decimal(p) = Reading(t, b[1] + k, k)
        BY <4>3, <4>4, DecimalGrows DEF p
      <4>6. b[1] + k = i - 1
        BY <1>1, <1>3, <1>4, <4>1
      <4> QED
        BY <1>1, <4>3, <4>4, <4>5, <4>6 DEF p, IsOctet
    <3>3. CASE b[2] # i
      BY <1>1, <1>3, <2>3, <3>1, <3>3
    <3> QED
      BY <3>2, <3>3
  <2>4. r.digits \in 0..3 /\ i - r.digits = i /\ r.value = Reading(t, i, r.digits)
    BY <1>2, <1>3, <1>7, ReadingIs
  <2>5. r.value <= OctetLimit
    BY <1>2, <1>7, LimitAssumption
  <2>6. \A j \in (i - r.digits + 1)..i : t[j] \in Digits
    BY <1>3, <2>4
  <2> QED
    BY <1>3, <2>1, <2>2, <2>3, <2>4, <2>5, <2>6 DEF V4Going
<1> QED
    BY <1>2, <1>6, <1>7

\* No quad has any other character.
LEMMA V4OtherStep ==
    ASSUME NEW C, NEW t \in Seq(C), NEW i \in 1..Len(t), NEW s \in V4States,
           V4Going(t, i - 1, s), t[i] \notin Digits \cup {"."}
    PROVE  ~IsQuad(t)
<1> SUFFICES ASSUME IsQuad(t) PROVE FALSE
    OBVIOUS
<1> DEFINE k == s.digits
           a == i - 1 - k
<1>1. /\ k \in 0..3 /\ a \in Cuts(t)
      /\ \A j \in (a + 1)..(i - 1) : t[j] \in Digits
    BY DEF V4Going
<1>2. Len(t) \in Nat /\ i \in Nat /\ i >= 1 /\ i <= Len(t) /\ Cuts(t) \subseteq Nat
    BY DEF Dots, Cuts
<1>3. a \in Nat /\ a < i /\ i \in a..Len(t)
  <2> HIDE DEF k
  <2> QED
    BY <1>1, <1>2
<1>4. \A j \in (a + 1)..i : t[j] # "."
    BY <1>1, <1>2, <1>3 DEF Digits
<1> HIDE DEF k, a
<1>5. PICK b \in Bounds(t) : b[1] = a /\ b[2] > i
    BY <1>1, <1>3, <1>4, BoundAfter
<1>6. ToSet(Part(t, b[1] + 1, b[2] - 1)) = Inside(t, b)
    BY PartIs
<1>7. i \in (b[1] + 1)..(b[2] - 1)
    BY <1>2, <1>3, <1>5, BoundIs
<1> QED
    BY <1>6, <1>7, QuadParts DEF Inside

\* Every character keeps the invariant.
LEMMA V4InvNext ==
    ASSUME NEW C, NEW t \in Seq(C), NEW i \in 1..Len(t), V4Inv(t, i - 1)
    PROVE  V4Inv(t, i)
<1> DEFINE s == V4Scan(t)[i - 1]
           r == V4Scan(t)[i]
<1>1. r = V4Step(s, t[i])
    BY V4ScanIs
<1>2. s \in V4States /\ (s.ok => V4Going(t, i - 1, s)) /\ (~s.ok => ~IsQuad(t))
    BY DEF V4Inv
<1> HIDE DEF s, r
<1>3. r \in V4States
    BY <1>1, <1>2, V4StepType
<1>4. (r.ok => V4Going(t, i, r)) /\ (~r.ok => ~IsQuad(t))
  <2>1. CASE ~s.ok
    BY <1>1, <1>2, <2>1 DEF V4Step
  <2>2. CASE s.ok /\ t[i] \in Digits
    <3>1. r = V4Digit(s, t[i])
      BY <1>1, <2>2 DEF V4Step, Digits
    <3> QED
      BY <1>2, <2>2, <3>1, V4DigitStep
  <2>3. CASE s.ok /\ t[i] = "."
    <3>1. r = V4Dot(s)
      BY <1>1, <2>3 DEF V4Step, Digits
    <3> QED
      BY <1>2, <2>3, <3>1, V4DotStep
  <2>4. CASE s.ok /\ t[i] \notin Digits \cup {"."}
    <3>1. ~r.ok
      BY <1>1, <1>2, <2>4 DEF V4Step, V4States
    <3> QED
      BY <1>2, <2>4, <3>1, V4OtherStep
  <2> QED
    BY <2>1, <2>2, <2>3, <2>4
<1> QED
    BY <1>3, <1>4 DEF V4Inv, r

\* A text is accepted just if it is a quad; then it is of digits and dots.
LEMMA V4Exact ==
    ASSUME NEW C, NEW t \in Seq(C)
    PROVE  /\ V4End(V4Scan(t)[Len(t)]) <=> IsQuad(t)
           /\ IsQuad(t) => \A j \in 1..Len(t) : t[j] \in Digits \cup {"."}
<1> DEFINE N == Len(t)
           T == {i \in 0..N : V4Inv(t, i)}
           s == V4Scan(t)[N]
<1>1. N \in Nat /\ Dots(t) \subseteq 1..N /\ N \in 0..N
    BY DEF Dots
<1>2. Up(Dots(t), 0) = 0 /\ Up(Dots(t), N) = Cardinality(Dots(t))
    BY <1>1, CountUp
<1>3. 0 \in T
  <2>1. V4Scan(t)[0] = V4Start
    BY V4ScanIs
  <2>2. \A b \in Bounds(t) : ~(b[2] <= 0)
    BY BoundIs
  <2>3. V4Going(t, 0, V4Start)
    BY <1>2, <2>2, ReadingIs, LimitAssumption DEF V4Going, V4Start, Cuts
  <2>4. V4Inv(t, 0)
    BY <2>1, <2>3 DEF V4Inv, V4Start, V4States
  <2> QED
    BY <1>1, <2>4
<1>4. \A i \in 1..N : i - 1 \in T => i \in T
    BY <1>1, V4InvNext
<1>5. V4Inv(t, N)
  <2> HIDE DEF T, N
  <2>1. N \in T
    BY <1>1, <1>3, <1>4, UpTo
  <2> QED
    BY <2>1 DEF T
<1>6. s \in V4States /\ (s.ok => V4Going(t, N, s)) /\ (~s.ok => ~IsQuad(t))
    BY <1>5 DEF V4Inv
<1> SUFFICES ASSUME s.ok
             PROVE  IsQuad(t) <=> s.octets = 3 /\ s.digits > 0
    BY <1>6 DEF V4End, V4Going
<1> DEFINE k == s.digits
           a == N - k
<1>7. /\ k \in 0..3 /\ a \in Cuts(t)
      /\ \A j \in (a + 1)..N : t[j] \in Digits
      /\ s.value = Reading(t, N, k) /\ s.value <= OctetLimit
      /\ s.octets = Cardinality(Dots(t))
      /\ \A b \in Bounds(t) :
           b[2] <= N => IsOctet(Part(t, b[1] + 1, b[2] - 1))
    BY <1>2, <1>6 DEF V4Going
<1>8. a \in Nat /\ a <= N /\ a + k = N /\ \A j \in (a + 1)..N : t[j] # "."
  <2>1. Cuts(t) \subseteq Nat
    BY <1>1 DEF Cuts
  <2>2. a \in Nat
    BY <1>7, <2>1
  <2>3. a <= N /\ a + k = N
    <3> HIDE DEF N, k
    <3> QED
      BY <1>1, <1>7
  <2> QED
    BY <1>7, <2>2, <2>3 DEF Digits
<1> HIDE DEF s, k, a
<1>9. ASSUME NEW b \in Bounds(t), b[2] > N
      PROVE  IsOctet(Part(t, b[1] + 1, b[2] - 1)) <=> k > 0
  <2> DEFINE p == Part(t, b[1] + 1, b[2] - 1)
  <2>1. b[2] = N + 1
    BY <1>1, <1>9, BoundIs
  <2>2. b[1] = a
    BY <1>1, <1>7, <1>8, <2>1, BoundAt
  <2>3. Len(p) = b[2] - b[1] - 1 /\ ToSet(p) = Inside(t, b)
    BY PartIs
  <2> HIDE DEF p, N
  <2>4. Len(p) = k
    BY <1>1, <1>7, <1>8, <2>1, <2>2, <2>3
  <2>5. ToSet(p) \subseteq Digits
    BY <1>1, <1>7, <2>1, <2>2, <2>3 DEF Inside
  <2>6. k = 0 => ~IsOctet(p)
    BY <2>4 DEF IsOctet
  <2>7. ASSUME k # 0 PROVE IsOctet(p)
    <3>1. k \in 1..3 /\ Len(p) \in k..3
      BY <1>7, <2>4, <2>7
    <3>2. Decimal(p) = Reading(t, b[1] + k, k)
      BY <2>4, <2>5, <3>1, DecimalGrows DEF p
    <3>3. b[1] + k = N
      BY <1>8, <2>2
    <3> QED
      BY <1>7, <2>4, <2>5, <3>1, <3>2, <3>3 DEF IsOctet
  <2> QED
    BY <1>7, <2>6, <2>7 DEF p
<1>10. PICK last \in Bounds(t) : last[2] > N
  <2>1. N \in a..Len(t)
    BY <1>1, <1>8
  <2> QED
    BY <1>7, <1>8, <2>1, BoundAfter
<1>11. (\A p \in Parts(t) : IsOctet(p)) <=> k > 0
  <2>1. (\A p \in Parts(t) : IsOctet(p)) <=>
            \A b \in Bounds(t) : IsOctet(Part(t, b[1] + 1, b[2] - 1))
    BY DEF Parts
  <2>2. \A b \in Bounds(t) : b[2] <= N \/ b[2] > N
    BY <1>1, BoundIs
  <2> QED
    BY <1>7, <1>9, <1>10, <2>1, <2>2
<1> QED
    BY <1>7, <1>11 DEF IsQuad, k

(* client.cpp:342-386: what is_valid_ip accepts, said without its counters  *)
(* and early returns: the dotted quads of octets and, once there is a       *)
(* colon, any text of one to GroupLimit groups of hexadecimal digits,       *)
(* whatever the limits are, and however long the text.  (The comment of the *)
(* function promises more: see LiteralsOnly of MCInputs.)                   *)
THEOREM AddressesExact ==
    ASSUME NEW C, NEW t \in Seq(C)
    PROVE  is_valid_ip(t) <=> IsQuad(t) \/ IsColonHex(t)
<1>1. Contains(t, ":") <=> ":" \in ToSet(t)
    BY DEF Contains, ToSet
<1>2. CASE Contains(t, ":")
  <2>1. ~IsQuad(t)
    <3>1. PICK j \in 1..Len(t) : t[j] = ":"
      BY <1>2 DEF Contains
    <3> QED
      BY <3>1, V4Exact DEF Digits
  <2> QED
    BY <1>2, <2>1, V6Exact DEF is_valid_ip
<1>3. CASE ~Contains(t, ":")
    BY <1>1, <1>3, V4Exact DEF is_valid_ip, IsColonHex
<1> QED
    BY <1>2, <1>3

-----------------------------------------------------------------------------

\* What the scanner of domains keeps of a text.
DomainStates(C) ==
    [labels : Nat, len : Nat, alpha : BOOLEAN, last : C \cup {"none", "."},
     ok : BOOLEAN]

\* Every character leads from state to state.
LEMMA DomainStepType ==
    ASSUME NEW C, NEW s \in DomainStates(C), NEW c \in C
    PROVE  DomainStep(s, c) \in DomainStates(C)
<1>1. [s EXCEPT !.ok = FALSE] \in DomainStates(C)
    BY DEF DomainStates
<1>2. s.labels + 1 \in Nat /\ s.len + 1 \in Nat
    BY DEF DomainStates
<1>3. [s EXCEPT !.labels = s.labels + 1, !.len = 0, !.alpha = FALSE, !.last = "."]
          \in DomainStates(C)
    BY <1>2 DEF DomainStates
<1>4. [s EXCEPT !.len = s.len + 1, !.last = c, !.alpha = s.alpha \/ c \in Letters]
          \in DomainStates(C)
  <2>1. (s.alpha \/ c \in Letters) \in BOOLEAN
    OBVIOUS
  <2> QED
    BY <1>2, <2>1, Zenon DEF DomainStates
<1>5. CASE ~s.ok
    BY <1>5 DEF DomainStep
<1>6. CASE s.ok /\ c = "."
  <2>1. DomainStep(s, c) = DomainDot(s)
    BY <1>6 DEF DomainStep
  <2> QED
    BY <1>1, <1>3, <2>1 DEF DomainDot
<1>7. CASE s.ok /\ c # "."
  <2>1. DomainStep(s, c) = DomainCharacter(s, c)
    BY <1>7 DEF DomainStep
  <2> QED
    BY <1>1, <1>4, <2>1, Zenon DEF DomainCharacter
<1> QED
    BY <1>5, <1>6, <1>7

\* The course of the scanner of domains, step by step.
LEMMA DomainScanIs ==
    ASSUME NEW C, NEW t \in Seq(C)
    PROVE  /\ DomainScan(t)[0] = DomainStart
           /\ \A i \in 1..Len(t) :
                DomainScan(t)[i] = DomainStep(DomainScan(t)[i - 1], t[i])
<1> DEFINE N == Len(t)
           S == DomainStates(C)
           step == [p \in S \X (1..N) |-> DomainStep(p[1], t[p[2]])]
           After(f, i) == IF i = 0 THEN DomainStart ELSE DomainStep(f[i - 1], t[i])
           Course(f) == f = [i \in 0..N |-> After(f, i)]
<1>1. N \in Nat /\ DomainStart \in S
    BY DEF DomainStates, DomainStart
<1>2. step \in [S \X (1..N) -> S]
  <2> HIDE DEF S
  <2>1. \A j \in 1..N : t[j] \in C
    OBVIOUS
  <2> QED
    BY <2>1, DomainStepType DEF S
<1>3. PICK f : IsCourse(f, N, S, DomainStart, step)
  <2> HIDE DEF step, N, S
  <2> QED
    BY <1>1, <1>2, CourseExists
<1> HIDE DEF S
<1>4. \A i \in 1..N : f[i] = DomainStep(f[i - 1], t[i])
    BY <1>1, <1>3 DEF IsCourse
<1>5. \A i \in 0..N : f[i] = After(f, i)
  <2> HIDE DEF step, N
  <2> QED
    BY <1>1, <1>3, <1>4 DEF IsCourse
<1>6. Course(f)
  <2> HIDE DEF After
  <2> QED
    BY <1>3, <1>5 DEF IsCourse
<1>7. Course(DomainScan(t))
    BY <1>6 DEF DomainScan
<1> QED
    BY <1>1, <1>7

\* What a label is made of.
LabelCharacters == Letters \cup Digits \cup {"-"}

\* Every part of a text is a label.
AllLabels(t) == \A p \in Parts(t) : IsLabel(p)

\* What the scan knows at a place that it has reached.
DomainGoing(t, i, s) ==
    /\ s.len <= LabelLimit
    /\ i - s.len \in Cuts(t)
    /\ \A j \in (i - s.len + 1)..i : t[j] \in LabelCharacters
    /\ s.len > 0 => t[i - s.len + 1] # "-" /\ s.last = t[i]
    /\ s.alpha <=> \E j \in (i - s.len + 1)..i : t[j] \in Letters
    /\ s.labels > 0 <=> \E j \in 1..i : t[j] = "."
    /\ \A j \in 1..i : t[j] \in LabelCharacters \cup {"."}
    /\ \A b \in Bounds(t) :
        b[2] <= i => IsLabel(Part(t, b[1] + 1, b[2] - 1))

\* The invariant of the scan: where it has stopped, some part is no label.
DomainInv(C, t, i) ==
    LET s == DomainScan(t)[i]
    IN  /\ s \in DomainStates(C)
        /\ s.ok => DomainGoing(t, i, s)
        /\ ~s.ok => ~AllLabels(t)

\* What a part between two cuts has to be to be a label.
LEMMA LabelIs ==
    ASSUME NEW C, NEW t \in Seq(C), NEW b \in Bounds(t)
    PROVE  IsLabel(Part(t, b[1] + 1, b[2] - 1)) <=>
             /\ b[2] - b[1] - 1 \in 1..LabelLimit
             /\ \A j \in (b[1] + 1)..(b[2] - 1) : t[j] \in LabelCharacters
             /\ t[b[1] + 1] # "-" /\ t[b[2] - 1] # "-"
<1> DEFINE p == Part(t, b[1] + 1, b[2] - 1)
           n == b[2] - b[1] - 1
<1>1. Len(p) = n /\ ToSet(p) = Inside(t, b) /\ n \in Nat
      /\ \A j \in 1..Len(p) : p[j] = t[b[1] + j]
    BY PartIs
<1>2. b[1] \in Nat /\ b[2] \in Nat /\ b[1] + n = b[2] - 1
    BY BoundIs
<1>3. ToSet(p) \subseteq LabelCharacters <=>
          \A j \in (b[1] + 1)..(b[2] - 1) : t[j] \in LabelCharacters
    BY <1>1 DEF Inside
<1> HIDE DEF p, n
<1>4. n >= 1 => p[1] = t[b[1] + 1] /\ p[Len(p)] = t[b[2] - 1]
  <2> SUFFICES ASSUME n >= 1 PROVE p[1] = t[b[1] + 1] /\ p[Len(p)] = t[b[2] - 1]
    OBVIOUS
  <2>1. 1 \in 1..Len(p) /\ n \in 1..Len(p)
    BY <1>1
  <2>2. p[n] = t[b[1] + n]
    BY <1>1, <2>1
  <2> QED
    BY <1>1, <1>2, <2>1, <2>2
<1>5. IsLabel(p) <=> /\ n \in 1..LabelLimit
                     /\ ToSet(p) \subseteq LabelCharacters
                     /\ p[1] # "-" /\ p[Len(p)] # "-"
    BY <1>1 DEF IsLabel, LabelCharacters
<1>6. n \in 1..LabelLimit => n >= 1
    BY <1>1
<1>7. IsLabel(p) <=> /\ n \in 1..LabelLimit
                     /\ \A j \in (b[1] + 1)..(b[2] - 1) : t[j] \in LabelCharacters
                     /\ t[b[1] + 1] # "-" /\ t[b[2] - 1] # "-"
    BY <1>3, <1>4, <1>5, <1>6
<1> QED
    BY <1>7 DEF p, n

\* Where the scan of a domain is going.
LEMMA DomainGoes ==
    ASSUME NEW C, NEW t \in Seq(C), NEW i \in 0..Len(t), NEW s \in DomainStates(C),
           DomainGoing(t, i, s), NEW k, k = s.len, NEW a, a = i - k
    PROVE  /\ k \in Nat /\ k <= LabelLimit
           /\ a \in Cuts(t) /\ a \in 0..i /\ a + k = i
           /\ \A j \in (a + 1)..i : t[j] \in LabelCharacters /\ t[j] # "."
           /\ k > 0 => t[a + 1] # "-" /\ s.last = t[i]
           /\ s.alpha <=> \E j \in (a + 1)..i : t[j] \in Letters
<1>1. k \in Nat /\ i \in Nat /\ Cuts(t) \subseteq Nat
    BY DEF DomainStates, Cuts, Dots
<1>2. a \in Cuts(t) /\ a \in Nat
    BY <1>1 DEF DomainGoing
<1>3. a \in 0..i /\ a + k = i
    BY <1>1, <1>2
<1>4. "." \notin LabelCharacters
    BY DEF LabelCharacters, Letters, Digits
<1>5. \A j \in (a + 1)..i : t[j] \in LabelCharacters /\ t[j] # "."
    BY <1>4 DEF DomainGoing
<1> QED
    BY <1>1, <1>2, <1>3, <1>5 DEF DomainGoing

\* A dot ends a label, or some part is none.
LEMMA DomainDotStep ==
    ASSUME NEW C, NEW t \in Seq(C), NEW i \in 1..Len(t), NEW s \in DomainStates(C),
           s.ok, DomainGoing(t, i - 1, s), t[i] = ".",
           NEW r, r = DomainDot(s)
    PROVE  /\ r.ok => DomainGoing(t, i, r)
           /\ ~r.ok => ~AllLabels(t)
<1> DEFINE k == s.len
           a == i - 1 - k
<1>1. Len(t) \in Nat /\ i \in Nat /\ i >= 1 /\ i <= Len(t) /\ i - 1 \in 0..Len(t)
      /\ i \in Cuts(t)
    BY DEF Dots, Cuts
<1>2. /\ k \in Nat /\ k <= LabelLimit
      /\ a \in Cuts(t) /\ a \in 0..(i - 1) /\ a + k = i - 1
      /\ \A j \in (a + 1)..(i - 1) : t[j] \in LabelCharacters /\ t[j] # "."
      /\ k > 0 => t[a + 1] # "-" /\ s.last = t[i - 1]
    BY <1>1, DomainGoes
<1>3. /\ k = 0 \/ s.last = "-" => ~r.ok
      /\ k # 0 /\ s.last # "-" => /\ r.ok /\ r.labels = s.labels + 1
                                  /\ r.len = 0 /\ r.alpha = FALSE
    BY DEF DomainDot, DomainStates
<1>4. LabelLimit \in Nat /\ LabelLimit >= 1
    BY LimitAssumption
<1> HIDE DEF k, a
<1>5. PICK b \in Bounds(t) : b[1] = a /\ b[2] = i
  <2>1. i - 1 \in a..Len(t)
    BY <1>1, <1>2
  <2>2. PICK b \in Bounds(t) : b[1] = a /\ b[2] > i - 1
    BY <1>2, <2>1, BoundAfter
  <2>3. b[2] = i
    BY <1>1, <1>2, <2>2, BoundIs
  <2> QED
    BY <2>2, <2>3
<1>6. IsLabel(Part(t, b[1] + 1, b[2] - 1)) <=>
          k \in 1..LabelLimit /\ t[a + 1] # "-" /\ t[i - 1] # "-"
  <2>1. b[2] - b[1] - 1 = k
    BY <1>1, <1>2, <1>5
  <2> QED
    BY <1>2, <1>5, <2>1, LabelIs
<1>7. ASSUME k = 0 \/ s.last = "-" PROVE ~AllLabels(t)
  <2>1. ~IsLabel(Part(t, b[1] + 1, b[2] - 1))
    BY <1>2, <1>6, <1>7
  <2> QED
    BY <2>1 DEF AllLabels, Parts
<1>8. ASSUME k # 0, s.last # "-" PROVE DomainGoing(t, i, r)
  <2>1. IsLabel(Part(t, b[1] + 1, b[2] - 1))
    BY <1>2, <1>4, <1>6, <1>8
  <2>2. ASSUME NEW c \in Bounds(t), c[2] <= i
        PROVE  IsLabel(Part(t, c[1] + 1, c[2] - 1))
    <3>1. c[2] \in Nat
      BY <1>1, BoundIs
    <3>2. CASE c[2] = i
      <4>1. c[1] = a
        BY <1>1, <1>2, <3>2, BoundAt
      <4> QED
        BY <1>5, <2>1, <3>2, <4>1
    <3>3. CASE c[2] # i
      <4>1. c[2] <= i - 1
        BY <1>1, <2>2, <3>1, <3>3
      <4> QED
        BY <4>1 DEF DomainGoing
    <3> QED
      BY <3>2, <3>3
  <2>3. r.labels > 0
    BY <1>3, <1>8 DEF DomainStates
  <2>4. \A j \in 1..i : t[j] \in LabelCharacters \cup {"."}
    BY <1>1 DEF DomainGoing
  <2>5. r.len = 0 /\ r.alpha = FALSE /\ i - r.len = i
    BY <1>1, <1>3, <1>8
  <2> QED
    BY <1>1, <1>4, <2>2, <2>3, <2>4, <2>5 DEF DomainGoing
<1> QED
    BY <1>3, <1>7, <1>8

\* A character prolongs a label, or some part is none.
LEMMA DomainCharacterStep ==
    ASSUME NEW C, NEW t \in Seq(C), NEW i \in 1..Len(t), NEW s \in DomainStates(C),
           s.ok, DomainGoing(t, i - 1, s), t[i] # ".",
           NEW r, r = DomainCharacter(s, t[i])
    PROVE  /\ r.ok => DomainGoing(t, i, r)
           /\ ~r.ok => ~AllLabels(t)
<1> DEFINE k == s.len
           a == i - 1 - k
           c == t[i]
           good == /\ c \in LabelCharacters
                   /\ c = "-" => k > 0
                   /\ k < LabelLimit
<1>1. Len(t) \in Nat /\ i \in Nat /\ i >= 1 /\ i <= Len(t) /\ i - 1 \in 0..Len(t)
      /\ i \notin Cuts(t)
    BY DEF Dots, Cuts
<1>2. /\ k \in Nat /\ k <= LabelLimit
      /\ a \in Cuts(t) /\ a \in 0..(i - 1) /\ a + k = i - 1
      /\ \A j \in (a + 1)..(i - 1) : t[j] \in LabelCharacters /\ t[j] # "."
      /\ k > 0 => t[a + 1] # "-" /\ s.last = t[i - 1]
      /\ s.alpha <=> \E j \in (a + 1)..(i - 1) : t[j] \in Letters
    BY <1>1, DomainGoes
<1>3. ~good => ~r.ok
    BY DEF DomainCharacter, DomainStates, LabelCharacters
<1>4. good => r = [s EXCEPT !.len = k + 1, !.last = c,
                            !.alpha = s.alpha \/ c \in Letters]
    BY DEF DomainCharacter, LabelCharacters
<1>5. good => /\ r.ok /\ r.labels = s.labels
              /\ r.len = k + 1 /\ r.last = c
              /\ r.alpha <=> s.alpha \/ c \in Letters
    BY <1>4 DEF DomainStates
<1>6. LabelLimit \in Nat /\ LabelLimit >= 1
    BY LimitAssumption
<1> HIDE DEF k, a
<1>7. PICK b \in Bounds(t) : b[1] = a /\ b[2] > i
  <2>1. i \in a..Len(t) /\ \A j \in (a + 1)..i : t[j] # "."
    BY <1>1, <1>2
  <2> QED
    BY <1>2, <2>1, BoundAfter
<1>8. ASSUME ~good PROVE ~AllLabels(t)
  <2> SUFFICES ASSUME AllLabels(t) PROVE FALSE
    OBVIOUS
  <2>1. /\ b[2] - b[1] - 1 \in 1..LabelLimit
        /\ \A j \in (b[1] + 1)..(b[2] - 1) : t[j] \in LabelCharacters
        /\ t[b[1] + 1] # "-"
    BY LabelIs DEF AllLabels, Parts
  <2>2. b[2] \in Nat /\ i \in (b[1] + 1)..(b[2] - 1)
    BY <1>1, <1>2, <1>7, BoundIs
  <2>3. c \in LabelCharacters
    BY <2>1, <2>2
  <2>4. k < LabelLimit
    BY <1>1, <1>2, <1>6, <1>7, <2>1, <2>2
  <2>5. k = 0 => c # "-"
    BY <1>1, <1>2, <1>7, <2>1
  <2> QED
    BY <1>2, <1>8, <2>3, <2>4, <2>5
<1>9. ASSUME good PROVE DomainGoing(t, i, r)
  <2>1. r.len <= LabelLimit /\ i - r.len = a
    BY <1>1, <1>2, <1>5, <1>6, <1>9
  <2>2. \A j \in (a + 1)..i : t[j] \in LabelCharacters
    BY <1>1, <1>2, <1>9
  <2>3. t[a + 1] # "-" /\ r.last = t[i]
    BY <1>1, <1>2, <1>5, <1>9
  <2>4. r.alpha <=> \E j \in (a + 1)..i : t[j] \in Letters
    BY <1>1, <1>2, <1>5, <1>9
  <2>5. r.labels > 0 <=> \E j \in 1..i : t[j] = "."
    <3>1. s.labels > 0 <=> \E j \in 1..(i - 1) : t[j] = "."
      BY DEF DomainGoing
    <3> QED
      BY <1>1, <1>5, <1>9, <3>1
  <2>6. \A j \in 1..i : t[j] \in LabelCharacters \cup {"."}
    BY <1>1, <1>9 DEF DomainGoing
  <2>7. ASSUME NEW d \in Bounds(t), d[2] <= i
        PROVE  IsLabel(Part(t, d[1] + 1, d[2] - 1))
    <3>1. d[2] \in Cuts(t) /\ d[2] \in Nat
      BY <1>1, BoundIs
    <3>2. d[2] <= i - 1
      BY <1>1, <2>7, <3>1
    <3> QED
      BY <3>2 DEF DomainGoing
  <2> QED
    BY <1>2, <2>1, <2>2, <2>3, <2>4, <2>5, <2>6, <2>7 DEF DomainGoing
<1> QED
    BY <1>3, <1>5, <1>8, <1>9

\* Every character keeps the invariant.
LEMMA DomainInvNext ==
    ASSUME NEW C, NEW t \in Seq(C), NEW i \in 1..Len(t), DomainInv(C, t, i - 1)
    PROVE  DomainInv(C, t, i)
<1> DEFINE s == DomainScan(t)[i - 1]
           r == DomainScan(t)[i]
<1>1. r = DomainStep(s, t[i])
    BY DomainScanIs
<1>2. /\ s \in DomainStates(C)
      /\ s.ok => DomainGoing(t, i - 1, s)
      /\ ~s.ok => ~AllLabels(t)
    BY DEF DomainInv
<1> HIDE DEF s, r
<1>3. r \in DomainStates(C)
    BY <1>1, <1>2, DomainStepType
<1>4. (r.ok => DomainGoing(t, i, r)) /\ (~r.ok => ~AllLabels(t))
  <2>1. CASE ~s.ok
    BY <1>1, <1>2, <2>1 DEF DomainStep
  <2>2. CASE s.ok /\ t[i] = "."
    <3>1. r = DomainDot(s)
      BY <1>1, <2>2 DEF DomainStep
    <3> QED
      BY <1>2, <2>2, <3>1, DomainDotStep
  <2>3. CASE s.ok /\ t[i] # "."
    <3>1. r = DomainCharacter(s, t[i])
      BY <1>1, <2>3 DEF DomainStep
    <3> QED
      BY <1>2, <2>3, <3>1, DomainCharacterStep
  <2> QED
    BY <2>1, <2>2, <2>3
<1> QED
    BY <1>3, <1>4 DEF DomainInv, r

\* What the scan of a whole domain says of it.
LEMMA DomainEndIs ==
    ASSUME NEW C, NEW t \in Seq(C)
    PROVE  /\ DomainEnd(DomainScan(t)[Len(t)]) <=>
                /\ Dots(t) # {}
                /\ AllLabels(t)
                /\ ToSet(LastPart(t)) \cap Letters # {}
           /\ DomainEnd(DomainScan(t)[Len(t)]) =>
                /\ \A j \in 1..Len(t) : t[j] \in LabelCharacters \cup {"."}
                /\ \E j \in 1..Len(t) : t[j] \in Letters
<1> DEFINE N == Len(t)
           T == {i \in 0..N : DomainInv(C, t, i)}
           s == DomainScan(t)[N]
<1>1. N \in Nat /\ N \in 0..N
    OBVIOUS
<1>2. 0 \in T
  <2>1. DomainScan(t)[0] = DomainStart
    BY DomainScanIs
  <2>2. \A b \in Bounds(t) : ~(b[2] <= 0)
    BY BoundIs
  <2>3. DomainGoing(t, 0, DomainStart)
    BY <2>2, LimitAssumption DEF DomainGoing, DomainStart, Cuts
  <2>4. DomainInv(C, t, 0)
    BY <2>1, <2>3 DEF DomainInv, DomainStart, DomainStates
  <2> QED
    BY <1>1, <2>4
<1>3. \A i \in 1..N : i - 1 \in T => i \in T
    BY <1>1, DomainInvNext
<1>4. DomainInv(C, t, N)
  <2> HIDE DEF T, N
  <2>1. N \in T
    BY <1>1, <1>2, <1>3, UpTo
  <2> QED
    BY <2>1 DEF T
<1>5. /\ s \in DomainStates(C)
      /\ s.ok => DomainGoing(t, N, s)
      /\ ~s.ok => ~AllLabels(t)
    BY <1>4 DEF DomainInv
<1> HIDE DEF s
<1>6. CASE ~s.ok
    BY <1>5, <1>6 DEF DomainEnd, s
<1>7. CASE s.ok
  <2> DEFINE k == s.len
             a == N - k
  <2>1. /\ k \in Nat /\ k <= LabelLimit
        /\ a \in Cuts(t) /\ a \in 0..N /\ a + k = N
        /\ \A j \in (a + 1)..N : t[j] \in LabelCharacters /\ t[j] # "."
        /\ k > 0 => t[a + 1] # "-" /\ s.last = t[N]
        /\ s.alpha <=> \E j \in (a + 1)..N : t[j] \in Letters
    BY <1>1, <1>5, <1>7, DomainGoes
  <2>2. /\ s.labels \in Nat
        /\ s.labels > 0 <=> \E j \in 1..N : t[j] = "."
        /\ \A j \in 1..N : t[j] \in LabelCharacters \cup {"."}
        /\ \A b \in Bounds(t) :
             b[2] <= N => IsLabel(Part(t, b[1] + 1, b[2] - 1))
    BY <1>5, <1>7 DEF DomainGoing, DomainStates
  <2>3. DomainEnd(s) <=> k > 0 /\ s.last # "-" /\ s.alpha /\ s.labels > 0
    BY <1>7, <2>2 DEF DomainEnd
  <2> HIDE DEF k, a
  <2>4. s.labels > 0 <=> Dots(t) # {}
    BY <2>2 DEF Dots
  <2>5. \A b \in Bounds(t) :
            b[2] > N => b[2] = N + 1 /\ b[1] = a
    <3>1. ASSUME NEW b \in Bounds(t), b[2] > N PROVE b[2] = N + 1 /\ b[1] = a
      <4>1. b[2] = N + 1
        BY <1>1, <3>1, BoundIs
      <4> QED
        BY <1>1, <2>1, <4>1, BoundAt
    <3> QED
      BY <3>1
  <2>6. PICK last \in Bounds(t) : last[2] > N
    <3>1. N \in a..Len(t)
      BY <1>1, <2>1
    <3> QED
      BY <2>1, <3>1, BoundAfter
  <2>7. last[2] = N + 1 /\ last[1] = a
    BY <2>5, <2>6
  <2>8. IsLabel(Part(t, last[1] + 1, last[2] - 1)) <=> k > 0 /\ s.last # "-"
    <3>1. last[2] - last[1] - 1 = k /\ last[2] - 1 = N
      BY <1>1, <2>1, <2>7
    <3>2. \A j \in (last[1] + 1)..(last[2] - 1) : t[j] \in LabelCharacters
      BY <2>1, <2>7, <3>1
    <3>3. LabelLimit \in Nat
      BY LimitAssumption
    <3>4. k \in 1..LabelLimit <=> k > 0
      BY <2>1, <3>3
    <3> QED
      BY <2>1, <2>7, <3>1, <3>2, <3>4, LabelIs
  <2>9. AllLabels(t) <=> k > 0 /\ s.last # "-"
    <3>1. AllLabels(t) <=>
              \A b \in Bounds(t) : IsLabel(Part(t, b[1] + 1, b[2] - 1))
      BY DEF AllLabels, Parts
    <3>2. ASSUME NEW b \in Bounds(t)
          PROVE  b[2] <= N \/ (b[2] = last[2] /\ b[1] = last[1])
      <4>1. b[2] \in Nat
        BY <1>1, BoundIs
      <4> QED
        BY <1>1, <2>5, <2>7, <4>1
    <3> QED
      BY <2>2, <2>8, <3>1, <3>2
  <2>10. ToSet(LastPart(t)) = {t[j] : j \in (a + 1)..N}
    <3> DEFINE l == CHOOSE b \in Bounds(t) : b[2] = N + 1
    <3>1. l \in Bounds(t) /\ l[2] = N + 1
      BY <2>6, <2>7
    <3>2. l[1] = a /\ l[2] - 1 = N
      BY <1>1, <2>5, <3>1
    <3>3. LastPart(t) = Part(t, l[1] + 1, l[2] - 1)
      BY <3>2 DEF LastPart
    <3> HIDE DEF l
    <3>4. ToSet(LastPart(t)) = Inside(t, l)
      BY <3>1, <3>3, PartIs
    <3> QED
      BY <3>2, <3>4 DEF Inside
  <2>11. s.alpha <=> ToSet(LastPart(t)) \cap Letters # {}
    BY <2>1, <2>10
  <2>12. s.alpha => \E j \in 1..N : t[j] \in Letters
    BY <1>1, <2>1
  <2> QED
    BY <2>2, <2>3, <2>4, <2>9, <2>11, <2>12 DEF s
<1> QED
    BY <1>6, <1>7

(* client.cpp:390-393: the scanner of domains accepts names of at least two *)
(* labels within the limits, none with a hyphen at an edge, whose last one  *)
(* has a letter; no address is a domain.                                    *)
THEOREM DomainsExact ==
    ASSUME NEW C, NEW t \in Seq(C)
    PROVE  /\ is_valid_domain(t) <=> IsHostName(t)
           /\ ~(is_valid_domain(t) /\ is_valid_ip(t))
<1>1. is_valid_domain(t) => ~is_valid_ip(t)
    BY DEF is_valid_domain
<1>2. IsHostName(t) <=>
          Len(t) <= DomainLimit /\ DomainEnd(DomainScan(t)[Len(t)])
    BY DomainEndIs DEF IsHostName, AllLabels
<1>3. ASSUME IsHostName(t) PROVE t # <<>> /\ ~is_valid_ip(t)
  <2>1. /\ \A j \in 1..Len(t) : t[j] \in LabelCharacters \cup {"."}
        /\ \E j \in 1..Len(t) : t[j] \in Letters
    BY <1>2, <1>3, DomainEndIs
  <2>2. t # <<>>
    BY <2>1
  <2>3. ~IsColonHex(t)
    BY <2>1 DEF IsColonHex, ToSet, LabelCharacters, Letters, Digits
  <2>4. ~IsQuad(t)
    BY <2>1, V4Exact DEF Letters, Digits
  <2> QED
    BY <2>2, <2>3, <2>4, AddressesExact
<1> QED
    BY <1>1, <1>2, <1>3 DEF is_valid_domain

-----------------------------------------------------------------------------

\* Encoding: the sextets of a value are slices of its bytes.

\* What a text to be encoded is made of.
Byte == 0..255

\* The powers of two that the encodings use.
LEMMA Powers ==
    /\ 2^0 = 1 /\ 2^1 = 2 /\ 2^2 = 4 /\ 2^3 = 8 /\ 2^4 = 16 /\ 2^5 = 32
    /\ 2^6 = 64 /\ 2^7 = 128 /\ 2^12 = 4096 /\ 2^16 = 65536 /\ 2^18 = 262144
    OBVIOUS

\* The eight bits of a number as quotients.
LEMMA BitIs ==
    ASSUME NEW n
    PROVE  /\ Bit(n, 0) = (n \div 1) % 2 /\ Bit(n, 1) = (n \div 2) % 2
           /\ Bit(n, 2) = (n \div 4) % 2 /\ Bit(n, 3) = (n \div 8) % 2
           /\ Bit(n, 4) = (n \div 16) % 2 /\ Bit(n, 5) = (n \div 32) % 2
           /\ Bit(n, 6) = (n \div 64) % 2 /\ Bit(n, 7) = (n \div 128) % 2
    BY Powers DEF Bit

\* The sextets of a word of three bytes, from the bytes.
LEMMA WordSextets ==
    ASSUME NEW a \in Byte, NEW b \in Byte, NEW c \in Byte,
           NEW n, n = 65536 * a + 256 * b + c
    PROVE  /\ (n \div 262144) % 64 = a \div 4
           /\ (n \div 4096) % 64 = 16 * (a % 4) + b \div 16
           /\ (n \div 64) % 64 = 4 * (b % 16) + c \div 64
           /\ (n \div 1) % 64 = c % 64
<1>1. n \in Nat
    BY DEF Byte
<1>2. (n \div 262144) % 64 = a \div 4
    BY <1>1 DEF Byte
<1>3. (n \div 4096) % 64 = 16 * (a % 4) + b \div 16
  <2>1. n \div 4096 = 16 * a + b \div 16
    BY <1>1 DEF Byte
  <2> DEFINE y == b \div 16
  <2>2. y \in 0..15
    BY DEF Byte
  <2> HIDE DEF y
  <2>3. (16 * a + y) % 64 = 16 * (a % 4) + y
    BY <2>2 DEF Byte
  <2> QED
    BY <2>1, <2>3 DEF y
<1>4. (n \div 64) % 64 = 4 * (b % 16) + c \div 64
    BY <1>1 DEF Byte
<1>5. (n \div 1) % 64 = c % 64
    BY <1>1 DEF Byte
<1> QED
    BY <1>2, <1>3, <1>4, <1>5

\* The bits of the four sextets of three bytes are those of the bytes.
LEMMA FirstBits ==
    ASSUME NEW a \in Byte, NEW s, s = a \div 4
    PROVE  \A e \in 0..5 : Bit(s, 5 - e) = Bit(a, 7 - e)
<1>1. /\ (s \div 32) % 2 = (a \div 128) % 2 /\ (s \div 16) % 2 = (a \div 64) % 2
      /\ (s \div 8) % 2 = (a \div 32) % 2 /\ (s \div 4) % 2 = (a \div 16) % 2
      /\ (s \div 2) % 2 = (a \div 8) % 2 /\ (s \div 1) % 2 = (a \div 4) % 2
    BY DEF Byte
<1> QED
    BY <1>1, BitIs

\* The second sextet: two bits of the first byte, four of the second.
LEMMA SecondBits ==
    ASSUME NEW a \in Byte, NEW b \in Byte, NEW s, s = 16 * (a % 4) + b \div 16
    PROVE  /\ \A e \in 0..1 : Bit(s, 5 - e) = Bit(a, 1 - e)
           /\ \A e \in 2..5 : Bit(s, 5 - e) = Bit(b, 9 - e)
<1>1. s \in Nat
    BY DEF Byte
<1>2. (s \div 32) % 2 = (a \div 2) % 2 /\ (s \div 16) % 2 = (a \div 1) % 2
    BY <1>1 DEF Byte
<1>3. (s \div 8) % 2 = (b \div 128) % 2 /\ (s \div 4) % 2 = (b \div 64) % 2
    BY <1>1 DEF Byte
<1>4. (s \div 2) % 2 = (b \div 32) % 2
    BY <1>1 DEF Byte
<1>5. (s \div 1) % 2 = (b \div 16) % 2
    BY <1>1 DEF Byte
<1> QED
    BY <1>2, <1>3, <1>4, <1>5, BitIs

\* The third sextet: four bits of the second byte, two of the third.
LEMMA ThirdBits ==
    ASSUME NEW b \in Byte, NEW c \in Byte, NEW s, s = 4 * (b % 16) + c \div 64
    PROVE  /\ \A e \in 0..3 : Bit(s, 5 - e) = Bit(b, 3 - e)
           /\ \A e \in 4..5 : Bit(s, 5 - e) = Bit(c, 11 - e)
<1>1. s \in Nat
    BY DEF Byte
<1>2. (s \div 32) % 2 = (b \div 8) % 2 /\ (s \div 16) % 2 = (b \div 4) % 2
    BY <1>1 DEF Byte
<1>3. (s \div 8) % 2 = (b \div 2) % 2 /\ (s \div 4) % 2 = (b \div 1) % 2
    BY <1>1 DEF Byte
<1>4. (s \div 2) % 2 = (c \div 128) % 2
    BY <1>1 DEF Byte
<1>5. (s \div 1) % 2 = (c \div 64) % 2
    BY <1>1 DEF Byte
<1> QED
    BY <1>2, <1>3, <1>4, <1>5, BitIs

\* The fourth sextet: six bits of the third byte.
LEMMA FourthBits ==
    ASSUME NEW c \in Byte, NEW s, s = c % 64
    PROVE  \A e \in 0..5 : Bit(s, 5 - e) = Bit(c, 5 - e)
<1>1. /\ (s \div 32) % 2 = (c \div 32) % 2 /\ (s \div 16) % 2 = (c \div 16) % 2
      /\ (s \div 8) % 2 = (c \div 8) % 2 /\ (s \div 4) % 2 = (c \div 4) % 2
      /\ (s \div 2) % 2 = (c \div 2) % 2 /\ (s \div 1) % 2 = (c \div 1) % 2
    BY DEF Byte
<1> QED
    BY <1>1, BitIs

\* The j-th byte, past the end a zero, and the q-th sextet of the bytes.
At(v, j) == IF j <= Len(v) THEN v[j] ELSE 0

Slice(v, q) ==
    LET i == 3 * ((q - 1) \div 4)
        j == (q - 1) % 4
    IN  CASE j = 0 -> At(v, i + 1) \div 4
          [] j = 1 -> 16 * (At(v, i + 1) % 4) + At(v, i + 2) \div 16
          [] j = 2 -> 4 * (At(v, i + 2) % 16) + At(v, i + 3) \div 64
          [] j = 3 -> At(v, i + 3) % 64

\* Past the end of a value there are zero bytes.
LEMMA AtType ==
    ASSUME NEW v \in Seq(Byte), NEW j \in Nat \ {0}
    PROVE  At(v, j) \in Byte
<1>1. 0 \in Byte
    BY DEF Byte
<1> QED
    BY <1>1 DEF At

\* The four slices of the g-th group of three bytes.
LEMMA SliceIs ==
    ASSUME NEW v, NEW g \in Nat
    PROVE  /\ Slice(v, 4 * g + 1) = At(v, 3 * g + 1) \div 4
           /\ Slice(v, 4 * g + 2) =
                16 * (At(v, 3 * g + 1) % 4) + At(v, 3 * g + 2) \div 16
           /\ Slice(v, 4 * g + 3) =
                4 * (At(v, 3 * g + 2) % 16) + At(v, 3 * g + 3) \div 64
           /\ Slice(v, 4 * g + 4) = At(v, 3 * g + 3) % 64
<1>1. \A q \in 1..4 : (4 * g + q - 1) \div 4 = g /\ (4 * g + q - 1) % 4 = q - 1
    OBVIOUS
<1> QED
    BY <1>1 DEF Slice

\* A slice is a sextet.
LEMMA SliceType ==
    ASSUME NEW v \in Seq(Byte), NEW q \in Nat \ {0}
    PROVE  Slice(v, q) \in 0..63
<1> DEFINE i == 3 * ((q - 1) \div 4)
           j == (q - 1) % 4
           a == At(v, i + 1)
           b == At(v, i + 2)
           c == At(v, i + 3)
<1>1. i \in Nat /\ (j = 0 \/ j = 1 \/ j = 2 \/ j = 3)
    OBVIOUS
<1>2. a \in Byte /\ b \in Byte /\ c \in Byte
    BY <1>1, AtType
<1>3. /\ j = 0 => Slice(v, q) = a \div 4
      /\ j = 1 => Slice(v, q) = 16 * (a % 4) + b \div 16
      /\ j = 2 => Slice(v, q) = 4 * (b % 16) + c \div 64
      /\ j = 3 => Slice(v, q) = c % 64
    BY DEF Slice
<1> HIDE DEF i, j, a, b, c
<1>4. /\ a \div 4 \in 0..63 /\ 16 * (a % 4) + b \div 16 \in 0..63
      /\ 4 * (b % 16) + c \div 64 \in 0..63 /\ c % 64 \in 0..63
    BY <1>2 DEF Byte
<1> QED
    BY <1>1, <1>3, <1>4

\* The bits of the sextets are those of the bytes.
LEMMA SliceBits ==
    ASSUME NEW v \in Seq(Byte), NEW n \in Nat
    PROVE  Bit(Slice(v, 1 + (n \div 6)), 5 - (n % 6))
               = Bit(At(v, 1 + (n \div 8)), 7 - (n % 8))
<1> DEFINE g == n \div 24
           j == (n % 24) \div 6
           e == n % 6
           a == At(v, 3 * g + 1)
           b == At(v, 3 * g + 2)
           c == At(v, 3 * g + 3)
<1>1. /\ g \in Nat /\ (j = 0 \/ j = 1 \/ j = 2 \/ j = 3) /\ e \in 0..5
      /\ n = 24 * g + 6 * j + e
    OBVIOUS
<1>2. a \in Byte /\ b \in Byte /\ c \in Byte
    BY <1>1, AtType
<1> HIDE DEF g, j, e
<1>3. 1 + (n \div 6) = 4 * g + (j + 1) /\ n % 6 = e
  <2> DEFINE m == 4 * g + j
  <2>1. m \in Nat /\ n = 6 * m + e
    BY <1>1
  <2> HIDE DEF m
  <2>2. n \div 6 = m
    BY <1>1, <2>1
  <2>3. n % 6 = e
    BY DEF e
  <2>4. 1 + m = 4 * g + (j + 1)
    BY <1>1 DEF m
  <2> QED
    BY <2>2, <2>3, <2>4
<1>4. CASE j = 0
  <2>1. n \div 8 = 3 * g /\ n % 8 = e
    BY <1>1, <1>4
  <2>2. Slice(v, 4 * g + 1) = a \div 4
    BY <1>1, SliceIs
  <2> HIDE DEF a, b, c
  <2>3. Bit(Slice(v, 4 * g + 1), 5 - e) = Bit(a, 7 - e)
    BY <1>1, <1>2, <2>2, FirstBits
  <2>4. 1 + n \div 8 = 3 * g + 1 /\ 1 + n \div 6 = 4 * g + 1
    BY <1>1, <1>3, <1>4, <2>1
  <2> QED
    BY <1>3, <2>1, <2>3, <2>4 DEF a
<1>5. CASE j = 1
  <2>1. Slice(v, 4 * g + 2) = 16 * (a % 4) + b \div 16
    BY <1>1, SliceIs
  <2> HIDE DEF a, b, c
  <2>2. 1 + n \div 6 = 4 * g + 2
    BY <1>1, <1>3, <1>5
  <2>3. CASE e \in 0..1
    <3>1. 1 + n \div 8 = 3 * g + 1 /\ 7 - (n % 8) = 1 - e
      BY <1>1, <1>5, <2>3
    <3>2. Bit(Slice(v, 4 * g + 2), 5 - e) = Bit(a, 1 - e)
      BY <1>2, <2>1, <2>3, SecondBits
    <3> QED
      BY <1>3, <2>2, <3>1, <3>2 DEF a
  <2>4. CASE e \in 2..5
    <3>1. 1 + n \div 8 = 3 * g + 2 /\ 7 - (n % 8) = 9 - e
      BY <1>1, <1>5, <2>4
    <3>2. Bit(Slice(v, 4 * g + 2), 5 - e) = Bit(b, 9 - e)
      BY <1>2, <2>1, <2>4, SecondBits
    <3> QED
      BY <1>3, <2>2, <3>1, <3>2 DEF b
  <2> QED
    BY <1>1, <2>3, <2>4
<1>6. CASE j = 2
  <2>1. Slice(v, 4 * g + 3) = 4 * (b % 16) + c \div 64
    BY <1>1, SliceIs
  <2> HIDE DEF a, b, c
  <2>2. 1 + n \div 6 = 4 * g + 3
    BY <1>1, <1>3, <1>6
  <2>3. CASE e \in 0..3
    <3>1. 1 + n \div 8 = 3 * g + 2 /\ 7 - (n % 8) = 3 - e
      BY <1>1, <1>6, <2>3
    <3>2. Bit(Slice(v, 4 * g + 3), 5 - e) = Bit(b, 3 - e)
      BY <1>2, <2>1, <2>3, ThirdBits
    <3> QED
      BY <1>3, <2>2, <3>1, <3>2 DEF b
  <2>4. CASE e \in 4..5
    <3>1. 1 + n \div 8 = 3 * g + 3 /\ 7 - (n % 8) = 11 - e
      BY <1>1, <1>6, <2>4
    <3>2. Bit(Slice(v, 4 * g + 3), 5 - e) = Bit(c, 11 - e)
      BY <1>2, <2>1, <2>4, ThirdBits
    <3> QED
      BY <1>3, <2>2, <3>1, <3>2 DEF c
  <2> QED
    BY <1>1, <2>3, <2>4
<1>7. CASE j = 3
  <2>1. Slice(v, 4 * g + 4) = c % 64
    BY <1>1, SliceIs
  <2> HIDE DEF a, b, c
  <2>2. /\ 1 + n \div 6 = 4 * g + 4
        /\ 1 + n \div 8 = 3 * g + 3 /\ 7 - (n % 8) = 5 - e
    BY <1>1, <1>3, <1>7
  <2>3. Bit(Slice(v, 4 * g + 4), 5 - e) = Bit(c, 5 - e)
    BY <1>1, <1>2, <2>1, FourthBits
  <2> QED
    BY <1>3, <2>2, <2>3 DEF c
<1> QED
    BY <1>1, <1>4, <1>5, <1>6, <1>7

\* Where a digit is found in either alphabet.
IsAlphabet(A) ==
    /\ A \in [1..64 -> Byte]
    /\ \A k, l \in 1..64 : A[k] = A[l] => k = l
    /\ \A k \in 1..64 : A[k] # Equals

\* Digits that stand for the sextets of the bytes represent them.
LEMMA SlicesRepresent ==
    ASSUME NEW v \in Seq(Byte), NEW A, IsAlphabet(A), NEW M \in Nat,
           NEW D \in [1..M -> Byte],
           6 * M - 8 * Len(v) \in 0..5,
           \A q \in 1..M : D[q] = A[1 + Slice(v, q)]
    PROVE  Represents(D, A, v)
<1> DEFINE S == SextetsOf(D, A)
           N == Len(v)
           have == BitsOf(S, 6)
           want == BitsOf(v, 8)
<1>1. N \in Nat /\ D \in Seq(Byte) /\ Len(D) = M /\ DOMAIN D = 1..M
    OBVIOUS
<1>2. ASSUME NEW q \in 1..M
      PROVE  (CHOOSE k \in 1..64 : A[k] = D[q]) - 1 = Slice(v, q)
  <2> DEFINE x == Slice(v, q)
             found == CHOOSE k \in 1..64 : A[k] = D[q]
  <2>1. q \in Nat \ {0}
    OBVIOUS
  <2>2. x \in 0..63 /\ A[1 + x] = D[q]
    BY <2>1, SliceType
  <2> HIDE DEF x
  <2>3. 1 + x \in 1..64
    BY <2>2
  <2>4. found = 1 + x
    BY <2>2, <2>3 DEF IsAlphabet
  <2> HIDE DEF found
  <2>5. found - 1 = x
    BY <2>2, <2>4
  <2> QED
    BY <2>5 DEF x, found
<1>3. S = [q \in 1..M |-> Slice(v, q)]
    BY <1>1, <1>2 DEF SextetsOf
<1>4. S \in Seq(0..63) /\ Len(S) = M
  <2>1. S \in [1..M -> 0..63]
    <3>1. \A q \in 1..M : q \in Nat \ {0}
      OBVIOUS
    <3>2. \A q \in 1..M : Slice(v, q) \in 0..63
      BY <3>1, SliceType
    <3> HIDE DEF S
    <3> QED
      BY <1>3, <3>2
  <2> HIDE DEF S
  <2> QED
    BY <2>1
<1> HIDE DEF S, N
<1>5. have = [k \in 1..(6 * M) |-> Bit(S[1 + ((k - 1) \div 6)], 5 - ((k - 1) % 6))]
    BY <1>4 DEF BitsOf
<1>6. want = [k \in 1..(8 * N) |-> Bit(v[1 + ((k - 1) \div 8)], 7 - ((k - 1) % 8))]
    BY <1>1 DEF BitsOf, N
<1> HIDE DEF have, want
<1>7. Len(have) = 6 * M /\ Len(want) = 8 * N
    BY <1>1, <1>5, <1>6
<1>8. ASSUME NEW k \in 1..(6 * M)
      PROVE  have[k] = IF k <= 8 * N THEN want[k] ELSE 0
  <2> DEFINE n == k - 1
  <2>1. n \in Nat /\ 1 + (n \div 6) \in 1..M
    BY <1>1
  <2>2. have[k] = Bit(Slice(v, 1 + (n \div 6)), 5 - (n % 6))
    BY <1>3, <1>5, <2>1
  <2>3. have[k] = Bit(At(v, 1 + (n \div 8)), 7 - (n % 8))
    BY <2>1, <2>2, SliceBits
  <2>4. k <= 8 * N <=> 1 + (n \div 8) <= N
    BY <1>1
  <2>5. CASE k <= 8 * N
    <3>1. want[k] = Bit(v[1 + (n \div 8)], 7 - (n % 8))
      BY <1>1, <1>6, <2>5
    <3> QED
      BY <2>3, <2>4, <2>5, <3>1 DEF At, N
  <2>6. CASE ~(k <= 8 * N)
    <3>1. 7 - (n % 8) \in 0..7
      BY <2>1
    <3>2. \A i \in 0..7 : Bit(0, i) = 0
      BY BitIs
    <3> QED
      BY <2>3, <2>4, <2>6, <3>1, <3>2 DEF At, N
  <2> QED
    BY <2>5, <2>6
<1>9. Len(have) \in Len(want)..(Len(want) + 5)
    BY <1>1, <1>7 DEF N
<1> QED
    BY <1>7, <1>8, <1>9 DEF Represents, have, want, S

\* A function on 1..n is a sequence of that length.
LEMMA SeqIs ==
    ASSUME NEW S, NEW n \in Nat, NEW f \in [1..n -> S]
    PROVE  f \in Seq(S) /\ Len(f) = n
OBVIOUS

\* h is f, of length m, and then g, of length n.
IsJoin(h, f, m, g, n, N, S) ==
    /\ h \in [1..N -> S]
    /\ \A i \in 1..m : h[i] = f[i]
    /\ \A i \in 1..n : h[m + i] = g[i]

\* That is what a concatenation is.
LEMMA Joined ==
    ASSUME NEW S, NEW m \in Nat, NEW n \in Nat, NEW N, N = m + n,
           NEW f \in [1..m -> S], NEW g \in [1..n -> S]
    PROVE  IsJoin(f \o g, f, m, g, n, N, S)
<1> DEFINE h == f \o g
<1>1. f \in Seq(S) /\ Len(f) = m /\ g \in Seq(S) /\ Len(g) = n
    BY SeqIs
<1>2. /\ h \in Seq(S) /\ Len(h) = Len(f) + Len(g)
      /\ \A i \in 1..(Len(f) + Len(g)) :
            h[i] = IF i <= Len(f) THEN f[i] ELSE g[i - Len(f)]
    BY <1>1, ConcatProperties
<1> HIDE DEF h
<1>3. Len(h) = N
    BY <1>1, <1>2
<1>4. h \in [1..N -> S]
  <2>1. h \in [1..Len(h) -> S]
    BY <1>2
  <2> QED
    BY <1>3, <2>1
<1>5. \A i \in 1..N : h[i] = IF i <= m THEN f[i] ELSE g[i - m]
    BY <1>1, <1>2
<1>6. ASSUME NEW i \in 1..m PROVE h[i] = f[i]
  <2>1. i \in 1..N /\ i <= m
    OBVIOUS
  <2> QED
    BY <1>5, <2>1
<1>7. ASSUME NEW i \in 1..n PROVE h[m + i] = g[i]
  <2> DEFINE j == m + i
  <2>1. j \in 1..N /\ ~(j <= m) /\ j - m = i
    OBVIOUS
  <2> HIDE DEF j
  <2>2. h[j] = g[j - m]
    BY <1>5, <2>1
  <2> QED
    BY <2>1, <2>2 DEF j
<1> QED
    BY <1>4, <1>6, <1>7 DEF h, IsJoin

\* The digits of an alphabet with x and y for its last two.
LEMMA Digits64Is ==
    ASSUME NEW x \in Byte, NEW y \in Byte, NEW A, A = Digits64(x, y)
    PROVE  /\ A \in [1..64 -> Byte]
           /\ \A k \in 1..26 : A[k] = 64 + k
           /\ \A k \in 27..52 : A[k] = 70 + k
           /\ \A k \in 53..62 : A[k] = k - 5
           /\ A[63] = x /\ A[64] = y
<1>1. /\ DOMAIN A = 1..64
      /\ \A k \in 1..26 : A[k] = 64 + k
      /\ \A k \in 27..52 : A[k] = 70 + k
      /\ \A k \in 53..62 : A[k] = k - 5
      /\ A[63] = x /\ A[64] = y
    BY DEF Digits64
<1>2. ASSUME NEW k \in 1..64 PROVE A[k] \in Byte
  <2>1. k \in 1..26 \/ k \in 27..52 \/ k \in 53..62 \/ k = 63 \/ k = 64
    OBVIOUS
  <2>2. CASE k \in 1..62
    BY <1>1, <2>1, <2>2 DEF Byte
  <2>3. CASE k = 63 \/ k = 64
    BY <1>1, <2>3
  <2> QED
    BY <2>1, <2>2, <2>3
<1>3. A \in [1..64 -> Byte]
  <2>1. A = [k \in 1..64 |-> A[k]]
    BY DEF Digits64
  <2> QED
    BY <1>2, <2>1
<1> QED
    BY <1>1, <1>3

\* base64_value finds the digits of the alphabet and no other character.
LEMMA StandardIs ==
    /\ IsAlphabet(Standard)
    /\ \A k \in 1..64 : base64_value(Standard[k]) = k - 1 /\ Standard[k] \notin Whitespace
    /\ \A c \in Byte \ ToSet(Standard) : base64_value(c) = -1
<1>1. /\ Standard \in [1..64 -> Byte]
      /\ \A k \in 1..26 : Standard[k] = 64 + k
      /\ \A k \in 27..52 : Standard[k] = 70 + k
      /\ \A k \in 53..62 : Standard[k] = k - 5
      /\ Standard[63] = 43 /\ Standard[64] = 47
  <2>1. Standard = Digits64(43, 47) /\ 43 \in Byte /\ 47 \in Byte
    BY DEF Standard, Plus, Slash, Byte
  <2> QED
    BY <2>1, Digits64Is
<1>2. \A k \in 1..64 : k \in 1..26 \/ k \in 27..52 \/ k \in 53..62 \/ k = 63 \/ k = 64
    OBVIOUS
<1>3. /\ \A c \in 65..90 : base64_value(c) = c - 65
      /\ \A c \in 97..122 : base64_value(c) = c - 71
      /\ \A c \in 48..57 : base64_value(c) = c + 4
      /\ base64_value(43) = 62 /\ base64_value(47) = 63
    BY DEF base64_value, Upper, Lower, Figures, Plus, Slash
<1>4. ASSUME NEW k \in 1..64
      PROVE  base64_value(Standard[k]) = k - 1 /\ Standard[k] \notin {32, 9, 13, 10, 61}
  <2>1. CASE k \in 1..26
    BY <1>1, <1>3, <2>1
  <2>2. CASE k \in 27..52
    BY <1>1, <1>3, <2>2
  <2>3. CASE k \in 53..62
    BY <1>1, <1>3, <2>3
  <2>4. CASE k = 63 \/ k = 64
    BY <1>1, <1>3, <2>4
  <2> QED
    BY <1>2, <2>1, <2>2, <2>3, <2>4
<1>5. \A k, l \in 1..64 : Standard[k] = Standard[l] => k = l
  <2> SUFFICES ASSUME NEW k \in 1..64, NEW l \in 1..64, Standard[k] = Standard[l]
               PROVE  k = l
    OBVIOUS
  <2>1. k - 1 = l - 1
    BY <1>4
  <2> QED
    BY <2>1
<1>6. ASSUME NEW c \in Byte \ ToSet(Standard) PROVE base64_value(c) = -1
  <2>1. \A k \in 1..64 : Standard[k] \in ToSet(Standard)
    BY <1>1 DEF ToSet
  <2>2. c \notin 65..90
    <3> SUFFICES ASSUME c \in 65..90 PROVE FALSE
      OBVIOUS
    <3>1. c - 64 \in 1..26 /\ Standard[c - 64] = c
      BY <1>1
    <3> QED
      BY <2>1, <3>1
  <2>3. c \notin 97..122
    <3> SUFFICES ASSUME c \in 97..122 PROVE FALSE
      OBVIOUS
    <3>1. c - 70 \in 27..52 /\ Standard[c - 70] = c
      BY <1>1
    <3> QED
      BY <2>1, <3>1
  <2>4. c \notin 48..57
    <3> SUFFICES ASSUME c \in 48..57 PROVE FALSE
      OBVIOUS
    <3>1. c + 5 \in 53..62 /\ Standard[c + 5] = c
      BY <1>1
    <3> QED
      BY <2>1, <3>1
  <2>5. c # 43 /\ c # 47
    BY <1>1, <2>1
  <2> QED
    BY <2>2, <2>3, <2>4, <2>5
    DEF base64_value, Upper, Lower, Figures, Plus, Slash
<1> QED
    BY <1>1, <1>4, <1>5, <1>6 DEF IsAlphabet, Whitespace, Equals

\* The other alphabet has no digit twice, and no padding.
LEMMA UrlSafeIs == IsAlphabet(UrlSafe)
<1>1. /\ UrlSafe \in [1..64 -> Byte]
      /\ \A k \in 1..26 : UrlSafe[k] = 64 + k
      /\ \A k \in 27..52 : UrlSafe[k] = 70 + k
      /\ \A k \in 53..62 : UrlSafe[k] = k - 5
      /\ UrlSafe[63] = 45 /\ UrlSafe[64] = 95
  <2>1. UrlSafe = Digits64(45, 95) /\ 45 \in Byte /\ 95 \in Byte
    BY DEF UrlSafe, Minus, Underscore, Byte
  <2> QED
    BY <2>1, Digits64Is
<1>2. \A k \in 1..64 : k \in 1..26 \/ k \in 27..52 \/ k \in 53..62 \/ k = 63 \/ k = 64
    OBVIOUS
<1>3. \A k, l \in 1..64 : UrlSafe[k] = UrlSafe[l] => k = l
    BY <1>1, <1>2
<1>4. \A k \in 1..64 : UrlSafe[k] # 61
    BY <1>1, <1>2
<1> QED
    BY <1>1, <1>3, <1>4 DEF IsAlphabet, Equals

\* There is a digit for every slice, and it is no padding.
LEMMA DigitIs ==
    ASSUME NEW v \in Seq(Byte), NEW A, IsAlphabet(A), NEW q \in Nat \ {0}
    PROVE  A[1 + Slice(v, q)] \in Byte /\ A[1 + Slice(v, q)] # Equals
<1> DEFINE x == Slice(v, q)
<1>1. x \in 0..63
    BY SliceType
<1> HIDE DEF x
<1>2. 1 + x \in 1..64
    BY <1>1
<1>3. A[1 + x] \in Byte /\ A[1 + x] # Equals
    BY <1>2 DEF IsAlphabet
<1> QED
    BY <1>3 DEF x

\* The digits of so many sextets of the bytes, after the first from.
HasDigits(F, A, v, from, count) ==
    /\ F \in [1..count -> Byte]
    /\ \A i \in 1..count : F[i] = A[1 + Slice(v, from + i)]

\* Sextets writes the digits of the slices of one group.
LEMMA SextetsIs ==
    ASSUME NEW v \in Seq(Byte), NEW A, IsAlphabet(A),
           NEW from \in Nat, from % 4 = 0,
           NEW count \in 1..4, NEW w, w = 3 * (from \div 4) + 1
    PROVE  HasDigits(Sextets(A, Word(v, w), count), A, v, from, count)
<1> DEFINE g == from \div 4
<1>0. g \in Nat /\ w = 3 * g + 1 /\ from = 4 * g
    OBVIOUS
<1> HIDE DEF g
<1> DEFINE n == Word(v, w)
           a == At(v, 3 * g + 1)
           b == At(v, 3 * g + 2)
           c == At(v, 3 * g + 3)
           F == Sextets(A, n, count)
<1>1. a \in Byte /\ b \in Byte /\ c \in Byte
    BY <1>0, AtType
<1>2. n = 65536 * a + 256 * b + c
    BY <1>0 DEF Word, At
<1>3. F = [i \in 1..count |-> A[1 + ((n \div 2^(24 - 6 * i)) % 64)]]
    BY DEF Sextets
<1>4. /\ Slice(v, 4 * g + 1) = a \div 4
      /\ Slice(v, 4 * g + 2) = 16 * (a % 4) + b \div 16
      /\ Slice(v, 4 * g + 3) = 4 * (b % 16) + c \div 64
      /\ Slice(v, 4 * g + 4) = c % 64
    BY <1>0, SliceIs
<1> HIDE DEF n, a, b, c, F
<1>5. /\ (n \div 262144) % 64 = a \div 4
      /\ (n \div 4096) % 64 = 16 * (a % 4) + b \div 16
      /\ (n \div 64) % 64 = 4 * (b % 16) + c \div 64
      /\ (n \div 1) % 64 = c % 64
    BY <1>1, <1>2, WordSextets
<1>6. ASSUME NEW i \in 1..count
      PROVE  (n \div 2^(24 - 6 * i)) % 64 = Slice(v, 4 * g + i)
  <2> DEFINE e == 24 - 6 * i
  <2>1. /\ i = 1 \/ i = 2 \/ i = 3 \/ i = 4
        /\ i = 1 => e = 18
        /\ i = 2 => e = 12
        /\ i = 3 => e = 6
        /\ i = 4 => e = 0
    OBVIOUS
  <2> HIDE DEF e
  <2>2. CASE i = 1
    BY <1>4, <1>5, <2>1, <2>2, Powers DEF e
  <2>3. CASE i = 2
    BY <1>4, <1>5, <2>1, <2>3, Powers DEF e
  <2>4. CASE i = 3
    BY <1>4, <1>5, <2>1, <2>4, Powers DEF e
  <2>5. CASE i = 4
    BY <1>4, <1>5, <2>1, <2>5, Powers DEF e
  <2> QED
    BY <2>1, <2>2, <2>3, <2>4, <2>5
<1>7. \A i \in 1..count : F[i] = A[1 + Slice(v, 4 * g + i)]
    BY <1>3, <1>6
<1>8. ASSUME NEW i \in 1..count PROVE F[i] \in Byte
  <2>1. 4 * g + i \in Nat \ {0}
    BY <1>0
  <2>2. A[1 + Slice(v, 4 * g + i)] \in Byte
    BY <2>1, DigitIs
  <2> QED
    BY <1>7, <2>2
<1>9. F \in [1..count -> Byte]
  <2>1. F = [i \in 1..count |-> F[i]]
    BY <1>3
  <2> QED
    BY <1>8, <2>1
<1> QED
    BY <1>0, <1>7, <1>9 DEF F, n, HasDigits

\* Groups writes those of all the whole groups.
LEMMA GroupsIs ==
    ASSUME NEW v \in Seq(Byte), NEW A, IsAlphabet(A),
           NEW L, L = 4 * (Len(v) \div 3)
    PROVE  HasDigits(Groups(A, v), A, v, 0, L)
<1> DEFINE F == Groups(A, v)
<1>0. L \in Nat
    OBVIOUS
<1>1. /\ DOMAIN F = 1..L
      /\ F = [k \in 1..L |-> F[k]]
      /\ \A k \in 1..L :
            F[k] = Sextets(A, Word(v, 3 * ((k - 1) \div 4) + 1), 4)[1 + ((k - 1) % 4)]
    BY DEF Groups
<1> HIDE DEF F
<1>2. ASSUME NEW k \in 1..L PROVE F[k] = A[1 + Slice(v, 0 + k)]
  <2> DEFINE from == 4 * ((k - 1) \div 4)
             i == 1 + ((k - 1) % 4)
             w == 3 * ((k - 1) \div 4) + 1
             X == Sextets(A, Word(v, w), 4)
  <2>1. /\ from \in Nat /\ from % 4 = 0 /\ w = 3 * (from \div 4) + 1
        /\ i \in 1..4 /\ from + i = 0 + k /\ 4 \in 1..4
    BY <1>0
  <2>2. F[k] = X[i]
    BY <1>1
  <2> HIDE DEF from, i, w
  <2>3. HasDigits(X, A, v, from, 4)
    BY <2>1, SextetsIs
  <2>4. \A j \in 1..4 : X[j] = A[1 + Slice(v, from + j)]
    BY <2>3 DEF HasDigits
  <2> HIDE DEF X
  <2>5. X[i] = A[1 + Slice(v, from + i)]
    BY <2>1, <2>4
  <2> QED
    BY <2>1, <2>2, <2>5
<1>3. ASSUME NEW k \in 1..L PROVE F[k] \in Byte
  <2>1. k \in Nat \ {0} /\ 0 + k = k
    BY <1>0
  <2> QED
    BY <1>2, <2>1, DigitIs
<1> QED
    BY <1>1, <1>2, <1>3 DEF F, HasDigits

\* The number of sextets that the bits of so many bytes fill.
Filled(n) == (8 * n + 5) \div 6

\* It is two or three more than the whole groups have, if there is a rest.
LEMMA FilledIs ==
    ASSUME NEW n \in Nat
    PROVE  /\ Filled(n) \in Nat /\ 6 * Filled(n) - 8 * n \in 0..5
           /\ n % 3 = 0 => Filled(n) = 4 * (n \div 3) /\ 4 * ((n + 2) \div 3) = Filled(n)
           /\ n % 3 = 1 => Filled(n) = 4 * (n \div 3) + 2 /\ 4 * ((n + 2) \div 3) = Filled(n) + 2
           /\ n % 3 = 2 => Filled(n) = 4 * (n \div 3) + 3 /\ 4 * ((n + 2) \div 3) = Filled(n) + 1
BY DEF Filled

\* A digit after the whole groups is one of the tail.
LEMMA InTail ==
    ASSUME NEW G \in Nat, NEW n \in 0..4, NEW k \in 1..(G + n), ~(k <= G)
    PROVE  k - G \in 1..n /\ k - G \in 1..4 /\ G + (k - G) = k
OBVIOUS

\* base64_encode: a digit for every slice, then padding.
LEMMA EncodedIs ==
    ASSUME NEW v \in Seq(Byte), NEW M, M = Filled(Len(v)),
           NEW L, L = 4 * ((Len(v) + 2) \div 3)
    PROVE  /\ base64_encode(v) \in [1..L -> Byte]
           /\ M \in 0..L
           /\ \A k \in 1..M : base64_encode(v)[k] = Standard[1 + Slice(v, k)]
           /\ \A k \in (M + 1)..L : base64_encode(v)[k] = Equals
<1> DEFINE N == Len(v)
           g == N \div 3
           G == 4 * g
           H == Groups(Standard, v)
           w == TailStart(v)
           T2 == Sextets(Standard, Word(v, w), 2)
           T3 == Sextets(Standard, Word(v, w), 3)
           E == base64_encode(v)
<1>1. /\ N \in Nat /\ g \in Nat /\ G \in Nat /\ w = 3 * (G \div 4) + 1 /\ G % 4 = 0
      /\ N = Len(v) /\ g = N \div 3 /\ G = 4 * (Len(v) \div 3)
      /\ 2 \in 1..4 /\ 3 \in 1..4
    BY DEF TailStart
<1>6. /\ N % 3 = 0 => E = H \o <<>>
      /\ N % 3 = 1 => E = H \o (T2 \o <<Equals, Equals>>)
      /\ N % 3 = 2 => E = H \o (T3 \o <<Equals>>)
  <2>1. ASSUME N % 3 = 0 PROVE E = H \o <<>>
    <3>1. ~(N % 3 = 1) /\ ~(N % 3 = 2)
      BY <2>1
    <3> QED
      BY <2>1, <3>1, Zenon DEF base64_encode
  <2>2. ASSUME N % 3 = 1 PROVE E = H \o (T2 \o <<Equals, Equals>>)
    BY <2>2 DEF base64_encode
  <2>3. ASSUME N % 3 = 2 PROVE E = H \o (T3 \o <<Equals>>)
    BY <2>3 DEF base64_encode
  <2> QED
    BY <2>1, <2>2, <2>3
<1> HIDE DEF N, g, G, w
<1>2. /\ N % 3 = 0 \/ N % 3 = 1 \/ N % 3 = 2
      /\ N % 3 = 0 => M = G /\ L = G
      /\ N % 3 = 1 => M = G + 2 /\ L = G + 4
      /\ N % 3 = 2 => M = G + 3 /\ L = G + 4
  <2>1. /\ N % 3 = 0 => M = 4 * (N \div 3) /\ L = M
        /\ N % 3 = 1 => M = 4 * (N \div 3) + 2 /\ L = M + 2
        /\ N % 3 = 2 => M = 4 * (N \div 3) + 3 /\ L = M + 1
    BY <1>1, FilledIs
  <2> QED
    BY <1>1, <2>1
<1>3. H \in [1..G -> Byte] /\ \A k \in 1..G : H[k] = Standard[1 + Slice(v, k)]
  <2>1. HasDigits(H, Standard, v, 0, G)
    BY <1>1, StandardIs, GroupsIs
  <2>2. \A k \in 1..G : 0 + k = k
    BY <1>1
  <2> QED
    BY <2>1, <2>2 DEF HasDigits
<1>4. /\ T2 \in [1..2 -> Byte]
      /\ \A i \in 1..2 : T2[i] = Standard[1 + Slice(v, G + i)]
  <2>1. HasDigits(T2, Standard, v, G, 2)
    BY <1>1, StandardIs, SextetsIs
  <2> QED
    BY <2>1 DEF HasDigits
<1>5. /\ T3 \in [1..3 -> Byte]
      /\ \A i \in 1..3 : T3[i] = Standard[1 + Slice(v, G + i)]
  <2>1. HasDigits(T3, Standard, v, G, 3)
    BY <1>1, StandardIs, SextetsIs
  <2> QED
    BY <2>1 DEF HasDigits
<1>7. /\ <<>> \in [1..0 -> Byte]
      /\ <<Equals>> \in [1..1 -> Byte] /\ <<Equals>>[1] = Equals
      /\ <<Equals, Equals>> \in [1..2 -> Byte]
      /\ <<Equals, Equals>>[1] = Equals /\ <<Equals, Equals>>[2] = Equals
    BY DEF Equals, Byte
<1> HIDE DEF H, T2, T3, E
<1>8. CASE N % 3 = 0
  <2>1. G = G + 0 /\ 0 \in Nat
    BY <1>1
  <2>2. E \in [1..G -> Byte] /\ \A i \in 1..G : E[i] = H[i]
    <3>1. IsJoin(E, H, G, <<>>, 0, G, Byte)
      BY <1>1, <1>3, <1>6, <1>7, <1>8, <2>1, Joined
    <3> QED
      BY <3>1 DEF IsJoin
  <2>3. (M + 1)..L = {} /\ M \in 0..L
    BY <1>1, <1>2, <1>8
  <2> QED
    BY <1>2, <1>3, <1>8, <2>2, <2>3 DEF E
<1>9. CASE N % 3 = 1
  <2> DEFINE X == <<Equals, Equals>>
             T == T2 \o X
  <2> HIDE DEF X
  <2>1. 4 = 2 + 2 /\ 2 \in Nat /\ L = G + 4 /\ 4 \in Nat
    BY <1>2, <1>9
  <2>2. /\ T \in [1..4 -> Byte] /\ \A i \in 1..2 : T[i] = T2[i]
        /\ \A i \in 1..2 : T[2 + i] = X[i]
    <3>1. X \in [1..2 -> Byte]
      BY <1>7 DEF X
    <3>2. IsJoin(T, T2, 2, X, 2, 4, Byte)
      BY <1>4, <2>1, <3>1, Joined
    <3> QED
      BY <3>2 DEF IsJoin
  <2>3. T[3] = Equals /\ T[4] = Equals
    <3>1. 2 + 1 = 3 /\ 2 + 2 = 4 /\ 1 \in 1..2 /\ 2 \in 1..2
      OBVIOUS
    <3> HIDE DEF T
    <3>2. T[3] = X[1] /\ T[4] = X[2]
      BY <2>2, <3>1
    <3> QED
      BY <1>7, <3>2 DEF X
  <2>4. E = H \o T
    BY <1>6, <1>9 DEF X
  <2> HIDE DEF T
  <2>5. /\ E \in [1..L -> Byte] /\ \A i \in 1..G : E[i] = H[i]
        /\ \A i \in 1..4 : E[G + i] = T[i]
    <3>1. IsJoin(E, H, G, T, 4, L, Byte)
      BY <1>1, <1>3, <2>1, <2>2, <2>4, Joined
    <3> QED
      BY <3>1 DEF IsJoin
  <2>6. ASSUME NEW k \in 1..M PROVE E[k] = Standard[1 + Slice(v, k)]
    <3>1. CASE k <= G
      <4>1. k \in 1..G
        BY <1>1, <1>2, <1>9, <3>1
      <4> QED
        BY <1>3, <2>5, <4>1
    <3>2. CASE ~(k <= G)
      <4> DEFINE i == k - G
      <4>1. i \in 1..2 /\ i \in 1..4 /\ G + i = k
        <5>1. M = G + 2 /\ 2 \in 0..4
          BY <1>2, <1>9
        <5> QED
          BY <1>1, <3>2, <5>1, InTail
      <4> HIDE DEF i
      <4> QED
        BY <1>4, <2>2, <2>5, <4>1
    <3> QED
      BY <3>1, <3>2
  <2>7. ASSUME NEW k \in (M + 1)..L PROVE E[k] = Equals
    <3>1. k = G + 3 \/ k = G + 4
      BY <1>1, <1>2, <1>9
    <3>2. 3 \in 1..4 /\ 4 \in 1..4
      OBVIOUS
    <3> QED
      BY <2>3, <2>5, <3>1, <3>2
  <2>8. M \in 0..L
    BY <1>1, <1>2, <1>9
  <2> QED
    BY <2>5, <2>6, <2>7, <2>8 DEF E
<1>10. CASE N % 3 = 2
  <2> DEFINE X == <<Equals>>
             T == T3 \o X
  <2> HIDE DEF X
  <2>1. 4 = 3 + 1 /\ 3 \in Nat /\ 1 \in Nat /\ L = G + 4 /\ 4 \in Nat
    BY <1>2, <1>10
  <2>2. /\ T \in [1..4 -> Byte] /\ \A i \in 1..3 : T[i] = T3[i]
        /\ \A i \in 1..1 : T[3 + i] = X[i]
    <3>1. X \in [1..1 -> Byte]
      BY <1>7 DEF X
    <3>2. IsJoin(T, T3, 3, X, 1, 4, Byte)
      BY <1>5, <2>1, <3>1, Joined
    <3> QED
      BY <3>2 DEF IsJoin
  <2>3. T[4] = Equals
    <3>1. 3 + 1 = 4 /\ 1 \in 1..1
      OBVIOUS
    <3> HIDE DEF T
    <3>2. T[4] = X[1]
      BY <2>2, <3>1
    <3> QED
      BY <1>7, <3>2 DEF X
  <2>4. E = H \o T
    BY <1>6, <1>10 DEF X
  <2> HIDE DEF T
  <2>5. /\ E \in [1..L -> Byte] /\ \A i \in 1..G : E[i] = H[i]
        /\ \A i \in 1..4 : E[G + i] = T[i]
    <3>1. IsJoin(E, H, G, T, 4, L, Byte)
      BY <1>1, <1>3, <2>1, <2>2, <2>4, Joined
    <3> QED
      BY <3>1 DEF IsJoin
  <2>6. ASSUME NEW k \in 1..M PROVE E[k] = Standard[1 + Slice(v, k)]
    <3>1. CASE k <= G
      <4>1. k \in 1..G
        BY <1>1, <1>2, <1>10, <3>1
      <4> QED
        BY <1>3, <2>5, <4>1
    <3>2. CASE ~(k <= G)
      <4> DEFINE i == k - G
      <4>1. i \in 1..3 /\ i \in 1..4 /\ G + i = k
        <5>1. M = G + 3 /\ 3 \in 0..4
          BY <1>2, <1>10
        <5> QED
          BY <1>1, <3>2, <5>1, InTail
      <4> HIDE DEF i
      <4> QED
        BY <1>5, <2>2, <2>5, <4>1
    <3> QED
      BY <3>1, <3>2
  <2>7. ASSUME NEW k \in (M + 1)..L PROVE E[k] = Equals
    <3>1. k = G + 4
      BY <1>1, <1>2, <1>10
    <3>2. 4 \in 1..4
      OBVIOUS
    <3> QED
      BY <2>3, <2>5, <3>1, <3>2
  <2>8. M \in 0..L
    BY <1>1, <1>2, <1>10
  <2> QED
    BY <2>5, <2>6, <2>7, <2>8 DEF E
<1> QED
    BY <1>2, <1>8, <1>9, <1>10

\* The first n elements of a sequence.
First(E, n) == [i \in 1..n |-> E[i]]

\* A text of M digits and then padding, without the padding.
LEMMA UnpaddedIs ==
    ASSUME NEW L \in Nat, NEW M \in 0..L, NEW E \in [1..L -> Byte],
           \A k \in 1..M : E[k] # Equals,
           \A k \in (M + 1)..L : E[k] = Equals
    PROVE  Unpadded(E) = First(E, M)
<1> DEFINE P(n) == \A i \in DOMAIN E : E[i] = Equals <=> i > n
           found == CHOOSE n \in 0..Len(E) : P(n)
<1>1. Len(E) = L /\ DOMAIN E = 1..L
    BY SeqIs
<1>2. P(M)
  <2> SUFFICES ASSUME NEW i \in 1..L PROVE E[i] = Equals <=> i > M
    BY <1>1
  <2>1. i \in 1..M \/ i \in (M + 1)..L
    OBVIOUS
  <2> QED
    BY <2>1
<1>3. ASSUME NEW n \in 0..L, P(n) PROVE n = M
  <2>1. CASE n < M
    <3>1. n + 1 \in 1..M /\ n + 1 \in DOMAIN E /\ n + 1 > n
      BY <1>1, <2>1
    <3> QED
      BY <1>3, <3>1
  <2>2. CASE n > M
    <3>1. M + 1 \in (M + 1)..L /\ M + 1 \in DOMAIN E /\ ~(M + 1 > n)
      BY <1>1, <2>2
    <3> QED
      BY <1>3, <3>1
  <2> QED
    BY <2>1, <2>2
<1>4. Unpadded(E) = [i \in 1..found |-> E[i]]
    BY DEF Unpadded
<1> HIDE DEF P
<1>5. found = M
    BY <1>1, <1>2, <1>3
<1> HIDE DEF found
<1> QED
    BY <1>4, <1>5 DEF First

\* base64_encode is read back from its digits.
LEMMA EncodedRepresents ==
    ASSUME NEW v \in Seq(Byte)
    PROVE  /\ Represents(Unpadded(base64_encode(v)), Standard, v)
           /\ Len(base64_encode(v)) % 4 = 0
<1> DEFINE N == Len(v)
           M == Filled(Len(v))
           L == 4 * ((Len(v) + 2) \div 3)
           E == base64_encode(v)
           D == First(E, M)
<1>0. IsAlphabet(Standard)
    BY StandardIs
<1>1. /\ N \in Nat /\ N = Len(v) /\ L \in Nat /\ L % 4 = 0
      /\ M = Filled(Len(v)) /\ L = 4 * ((Len(v) + 2) \div 3)
    OBVIOUS
<1>2. M \in Nat /\ 6 * M - 8 * Len(v) \in 0..5
    BY <1>1, FilledIs
<1> HIDE DEF M, L, E
<1>3. /\ E \in [1..L -> Byte] /\ M \in 0..L
      /\ \A k \in 1..M : E[k] = Standard[1 + Slice(v, k)]
      /\ \A k \in (M + 1)..L : E[k] = Equals
    BY <1>1, EncodedIs DEF E
<1>4. ASSUME NEW k \in 1..M PROVE E[k] \in Byte /\ E[k] # Equals
  <2>1. k \in Nat \ {0}
    BY <1>2
  <2> QED
    BY <1>3, <2>1, <1>0, DigitIs
<1>5. Unpadded(E) = D
  <2>1. \A k \in 1..M : E[k] # Equals
    BY <1>4
  <2> QED
    BY <1>1, <1>3, <2>1, UnpaddedIs
<1>6. D \in [1..M -> Byte] /\ \A q \in 1..M : D[q] = Standard[1 + Slice(v, q)]
    BY <1>3, <1>4 DEF First
<1> HIDE DEF D
<1>7. Represents(D, Standard, v)
    BY <1>2, <1>6, <1>0, SlicesRepresent
<1>8. Len(E) = L
    BY <1>1, <1>3, SeqIs
<1> QED
    BY <1>1, <1>5, <1>7, <1>8 DEF E

\* base64url_encode: a digit for every slice.
LEMMA UrlEncodedIs ==
    ASSUME NEW v \in Seq(Byte), NEW M, M = Filled(Len(v))
    PROVE  HasDigits(base64url_encode(v), UrlSafe, v, 0, M)
<1> DEFINE N == Len(v)
           last == v[N]
           G == 4 * (N \div 3)
           w == TailStart(v)
           H == Groups(UrlSafe, v)
           T2 == <<UrlSafe[1 + ((last \div 4) % 64)],
                   UrlSafe[1 + ((last * 16) % 64)]>>
           T3 == Sextets(UrlSafe, Word(v, w), 3)
           E == base64url_encode(v)
<1>1. /\ N \in Nat /\ G \in Nat /\ w = 3 * (G \div 4) + 1 /\ G % 4 = 0
      /\ N = Len(v) /\ G = 4 * (Len(v) \div 3) /\ 3 \in 1..4
    BY DEF TailStart
<1>2. /\ N % 3 = 0 \/ N % 3 = 1 \/ N % 3 = 2
      /\ N % 3 = 0 => M = G
      /\ N % 3 = 1 => M = G + 2
      /\ N % 3 = 2 => M = G + 3
  <2>1. /\ N % 3 = 0 => M = 4 * (N \div 3)
        /\ N % 3 = 1 => M = 4 * (N \div 3) + 2
        /\ N % 3 = 2 => M = 4 * (N \div 3) + 3
    BY <1>1, FilledIs
  <2> QED
    BY <1>1, <2>1
<1>3. HasDigits(H, UrlSafe, v, 0, G)
    BY <1>1, UrlSafeIs, GroupsIs
<1>4. HasDigits(T3, UrlSafe, v, G, 3)
    BY <1>1, UrlSafeIs, SextetsIs
<1>5. ASSUME N % 3 = 1 PROVE HasDigits(T2, UrlSafe, v, G, 2)
  <2> DEFINE x == (last \div 4) % 64
             y == (last * 16) % 64
             g == N \div 3
  <2>1. /\ g \in Nat /\ N = 3 * g + 1 /\ G + 1 = 4 * g + 1 /\ G + 2 = 4 * g + 2
        /\ N \in 1..Len(v)
    BY <1>1, <1>5
  <2>2. last \in Byte
    BY <2>1
  <2> HIDE DEF g, N
  <2>3. At(v, 3 * g + 1) = last /\ At(v, 3 * g + 2) = 0
    <3>1. 3 * g + 1 <= Len(v) /\ ~(3 * g + 2 <= Len(v))
      BY <2>1 DEF N
    <3> QED
      BY <2>1, <3>1 DEF At
  <2>4. /\ Slice(v, G + 1) = last \div 4
        /\ Slice(v, G + 2) = 16 * (last % 4) + 0 \div 16
    <3>1. /\ Slice(v, 4 * g + 1) = At(v, 3 * g + 1) \div 4
          /\ Slice(v, 4 * g + 2) =
                16 * (At(v, 3 * g + 1) % 4) + At(v, 3 * g + 2) \div 16
      BY <2>1, SliceIs
    <3> QED
      BY <2>1, <2>3, <3>1
  <2> HIDE DEF last
  <2>5. last \div 4 = x /\ 16 * (last % 4) + 0 \div 16 = y
    <3>1. last \div 4 = x
      <4> DEFINE p == last \div 4
      <4>1. p \in 0..63
        BY <2>2 DEF Byte
      <4> HIDE DEF p
      <4>2. p % 64 = p
        BY <4>1
      <4> QED
        BY <4>2 DEF p
    <3>2. 0 \div 16 = 0
      OBVIOUS
    <3>3. 16 * (last % 4) = y
      BY <2>2 DEF Byte
    <3>4. 16 * (last % 4) \in Int
      BY <2>2 DEF Byte
    <3> HIDE DEF x, y
    <3> QED
      BY <3>1, <3>2, <3>3, <3>4
  <2> HIDE DEF x, y
  <2>6. T2 = <<UrlSafe[1 + x], UrlSafe[1 + y]>>
    BY DEF x, y
  <2>7. UrlSafe[1 + Slice(v, G + 1)] \in Byte /\ UrlSafe[1 + Slice(v, G + 2)] \in Byte
    <3>1. G + 1 \in Nat \ {0} /\ G + 2 \in Nat \ {0}
      BY <1>1
    <3> QED
      BY <3>1, DigitIs, UrlSafeIs
  <2> HIDE DEF T2
  <2>8. T2 \in [1..2 -> Byte] /\ T2[1] = UrlSafe[1 + x] /\ T2[2] = UrlSafe[1 + y]
    BY <2>4, <2>5, <2>6, <2>7
  <2>9. \A i \in 1..2 : i = 1 \/ i = 2
    OBVIOUS
  <2> QED
    BY <2>4, <2>5, <2>8, <2>9 DEF HasDigits
<1>6. /\ N % 3 = 0 => E = H \o <<>>
      /\ N % 3 = 1 => E = H \o T2
      /\ N % 3 = 2 => E = H \o T3
  <2>1. ASSUME N % 3 = 0 PROVE E = H \o <<>>
    <3>1. ~(N % 3 = 1) /\ ~(N % 3 = 2)
      BY <2>1
    <3> QED
      BY <2>1, <3>1, Zenon DEF base64url_encode
  <2>2. ASSUME N % 3 = 1 PROVE E = H \o T2
    BY <2>2 DEF base64url_encode
  <2>3. ASSUME N % 3 = 2 PROVE E = H \o T3
    BY <2>3 DEF base64url_encode
  <2> QED
    BY <2>1, <2>2, <2>3
<1> HIDE DEF N, G, w, H, T2, T3, E
<1>7. ASSUME NEW T, NEW n \in Nat, HasDigits(T, UrlSafe, v, G, n), E = H \o T,
             M = G + n
      PROVE  HasDigits(E, UrlSafe, v, 0, M)
  <2>1. H \in [1..G -> Byte] /\ T \in [1..n -> Byte]
    BY <1>3, <1>7 DEF HasDigits
  <2>2. IsJoin(E, H, G, T, n, M, Byte)
    BY <1>1, <1>7, <2>1, Joined
  <2>3. E \in [1..M -> Byte]
    BY <2>2 DEF IsJoin
  <2>4. ASSUME NEW k \in 1..M PROVE E[k] = UrlSafe[1 + Slice(v, 0 + k)]
    <3>1. CASE k <= G
      <4>1. k \in 1..G
        BY <1>1, <1>7, <3>1
      <4> QED
        BY <1>3, <2>2, <4>1 DEF HasDigits, IsJoin
    <3>2. CASE ~(k <= G)
      <4> DEFINE i == k - G
      <4>1. i \in 1..n /\ G + i = 0 + k /\ G + i = k
        BY <1>1, <1>7, <3>2
      <4> HIDE DEF i
      <4>2. E[G + i] = T[i]
        BY <2>2, <4>1 DEF IsJoin
      <4>3. T[i] = UrlSafe[1 + Slice(v, G + i)]
        BY <1>7, <4>1 DEF HasDigits
      <4> QED
        BY <4>1, <4>2, <4>3
    <3> QED
      BY <3>1, <3>2
  <2> QED
    BY <2>3, <2>4 DEF HasDigits
<1>8. HasDigits(<<>>, UrlSafe, v, G, 0)
    BY DEF HasDigits
<1>9. /\ 0 \in Nat /\ 2 \in Nat /\ 3 \in Nat /\ G = G + 0
    BY <1>1
<1> QED
    BY <1>2, <1>4, <1>5, <1>6, <1>7, <1>8, <1>9 DEF E

\* base64url_encode is read back from its digits, and pads nothing.
LEMMA UrlEncodedRepresents ==
    ASSUME NEW v \in Seq(Byte)
    PROVE  /\ Represents(base64url_encode(v), UrlSafe, v)
           /\ ~Contains(base64url_encode(v), Equals)
<1> DEFINE M == Filled(Len(v))
           E == base64url_encode(v)
<1>1. Len(v) \in Nat /\ M = Filled(Len(v))
    OBVIOUS
<1>2. M \in Nat /\ 6 * M - 8 * Len(v) \in 0..5
    BY <1>1, FilledIs
<1> HIDE DEF M
<1>3. HasDigits(E, UrlSafe, v, 0, M)
    BY <1>1, UrlEncodedIs
<1>4. \A q \in 1..M : 0 + q = q /\ q \in Nat \ {0}
    BY <1>2
<1> HIDE DEF E
<1>5. E \in [1..M -> Byte] /\ \A q \in 1..M : E[q] = UrlSafe[1 + Slice(v, q)]
    BY <1>3, <1>4 DEF HasDigits
<1>6. Represents(E, UrlSafe, v)
    BY <1>2, <1>5, SlicesRepresent, UrlSafeIs
<1>7. \A q \in 1..M : E[q] # Equals
    BY <1>4, <1>5, DigitIs, UrlSafeIs
<1>8. ~Contains(E, Equals)
  <2>1. Len(E) = M
    BY <1>2, <1>5, SeqIs
  <2> QED
    BY <1>7, <2>1 DEF Contains
<1> QED
    BY <1>6, <1>8 DEF E

-----------------------------------------------------------------------------

\* Decoding: the bytes that have left the buffer, and the bits that stay.

\* base64_value is a sextet or -1.
LEMMA ValueType ==
    ASSUME NEW c \in Byte
    PROVE  base64_value(c) \in -1..63
<1>1. /\ \A k \in 65..90 : base64_value(k) = k - 65
      /\ \A k \in 97..122 : base64_value(k) = k - 71
      /\ \A k \in 48..57 : base64_value(k) = k + 4
      /\ base64_value(43) = 62 /\ base64_value(47) = 63
      /\ c \notin (65..90) \cup (97..122) \cup (48..57) \cup {43, 47} =>
            base64_value(c) = -1
    BY DEF base64_value, Upper, Lower, Figures, Plus, Slash
<1>2. CASE c \in 65..90
    BY <1>1, <1>2
<1>3. CASE c \in 97..122
    BY <1>1, <1>3
<1>4. CASE c \in 48..57
    BY <1>1, <1>4
<1> QED
    BY <1>1, <1>2, <1>3, <1>4

\* The byte that leaves the buffer with the next sextet.
Sextet == 0..63

\* The byte of the last bits of one sextet and the first of the next.
Octet(bits, s, v) ==
    CASE bits = 2 -> (s % 4) * 64 + v
      [] bits = 4 -> (s % 16) * 16 + v \div 4
      [] bits = 6 -> s * 4 + v \div 16

\* The byte that leaves the buffer above e bits.
Leaving(w, e) == (w \div 2^e) % 256

\* What leaves the buffer is a byte.
LEMMA OctetType ==
    ASSUME NEW s \in Sextet, NEW v \in Sextet, NEW bits \in {2, 4, 6}
    PROVE  Octet(bits, s, v) \in Byte
<1>1. (s % 4) * 64 + v \in Byte
    BY DEF Byte, Sextet
<1>2. (s % 16) * 16 + v \div 4 \in Byte
    BY DEF Byte, Sextet
<1>3. s * 4 + v \div 16 \in Byte
    BY DEF Byte, Sextet
<1> QED
    BY <1>1, <1>2, <1>3 DEF Octet

\* The byte that leaves is of two sextets.
LEMMA LeavingIs ==
    ASSUME NEW s \in Sextet, NEW v \in Sextet, NEW w, w = 64 * s + v
    PROVE  /\ Leaving(w, 0) = Octet(2, s, v)
           /\ Leaving(w, 2) = Octet(4, s, v)
           /\ Leaving(w, 4) = Octet(6, s, v)
<1>1. (w \div 1) % 256 = (s % 4) * 64 + v
    BY DEF Sextet
<1>2. (w \div 4) % 256 = (s % 16) * 16 + v \div 4
    BY DEF Sextet
<1>3. (w \div 16) % 256 = s * 4 + v \div 16
    BY DEF Sextet
<1>4. /\ Leaving(w, 0) = (w \div 1) % 256
      /\ Leaving(w, 2) = (w \div 4) % 256
      /\ Leaving(w, 4) = (w \div 16) % 256
    BY Powers DEF Leaving
<1>5. /\ Octet(2, s, v) = (s % 4) * 64 + v
      /\ Octet(4, s, v) = (s % 16) * 16 + v \div 4
      /\ Octet(6, s, v) = s * 4 + v \div 16
    BY DEF Octet
<1> QED
    BY <1>1, <1>2, <1>3, <1>4, <1>5

\* The last sextet that came in, and the buffer after the next.
Buffers == 0..4095

\* The last sextet in the buffer, and the buffer after one more.
Lowest(b) == b % 64
Pushed(b, v) == (b * 64 + v) % 4096

\* The last sextet in is the lowest.
LEMMA LowestIs ==
    ASSUME NEW h \in Sextet, NEW s \in Sextet
    PROVE  Lowest(64 * h + s) = s
BY DEF Lowest, Sextet

\* Of a buffer only the lowest sextet stays.
LEMMA PushedIs ==
    ASSUME NEW b \in Buffers, NEW v \in Sextet
    PROVE  Pushed(b, v) = 64 * Lowest(b) + v
BY DEF Lowest, Pushed, Buffers, Sextet

\* The lowest part of a buffer is a sextet.
LEMMA LowestType ==
    ASSUME NEW b \in Buffers
    PROVE  Lowest(b) \in Sextet
BY DEF Lowest, Buffers, Sextet

\* What leaves a buffer when one more sextet comes in.
LEMMA OctetIs ==
    ASSUME NEW b \in Buffers, NEW s, s = Lowest(b), NEW v \in Sextet,
           NEW w, w = Pushed(b, v)
    PROVE  /\ w \in Buffers /\ Lowest(w) = v /\ s \in Sextet
           /\ Leaving(w, 0) = Octet(2, s, v)
           /\ Leaving(w, 2) = Octet(4, s, v)
           /\ Leaving(w, 4) = Octet(6, s, v)
<1>1. s \in Sextet
    BY LowestType
<1>2. w = 64 * s + v
    BY PushedIs
<1>3. Lowest(w) = v
    BY <1>1, <1>2, LowestIs
<1>4. w \in Buffers
    BY <1>1, <1>2 DEF Buffers, Sextet
<1>5. /\ Leaving(w, 0) = Octet(2, s, v)
      /\ Leaving(w, 2) = Octet(4, s, v)
      /\ Leaving(w, 4) = Octet(6, s, v)
    BY <1>1, <1>2, LeavingIs
<1> QED
    BY <1>1, <1>3, <1>4, <1>5

\* The loop's variables in all the states that they can have.
DecodeStates ==
    [buffer : Buffers, bits : {0, 2, 4, 6}, out : Seq(Byte),
     going : {"on", "padding", "bad"}]

\* What Shift does for each number of bits that are left over, after s, when v
\* comes in.
Shifted(d, e, s, v) ==
    /\ e \in DecodeStates
    /\ Lowest(e.buffer) = v
    /\ e.going = d.going
    /\ d.bits = 0 => e.bits = 6 /\ e.out = d.out
    /\ d.bits = 2 => e.bits = 0 /\ e.out = Append(d.out, Octet(2, s, v))
    /\ d.bits = 4 => e.bits = 2 /\ e.out = Append(d.out, Octet(4, s, v))
    /\ d.bits = 6 => e.bits = 4 /\ e.out = Append(d.out, Octet(6, s, v))

\* Shift, by the bits that are waiting.
LEMMA ShiftIs ==
    ASSUME NEW d \in DecodeStates, NEW v \in Sextet, NEW s, s = Lowest(d.buffer),
           NEW e, e = Shift(d, v)
    PROVE  Shifted(d, e, s, v)
<1> DEFINE w == Pushed(d.buffer, v)
<1>1. /\ d.buffer \in Buffers
      /\ d.bits = 0 \/ d.bits = 2 \/ d.bits = 4 \/ d.bits = 6
      /\ d.out \in Seq(Byte)
      /\ d.going \in {"on", "padding", "bad"}
      /\ d = [buffer |-> d.buffer, bits |-> d.bits, out |-> d.out, going |-> d.going]
    BY DEF DecodeStates
<1>2. /\ w \in Buffers /\ Lowest(w) = v /\ s \in Sextet
      /\ Leaving(w, 0) = Octet(2, s, v)
      /\ Leaving(w, 2) = Octet(4, s, v)
      /\ Leaving(w, 4) = Octet(6, s, v)
  <2> DEFINE b == d.buffer
  <2>1. b \in Buffers /\ s = Lowest(b) /\ w = Pushed(b, v)
    BY <1>1
  <2> HIDE DEF b, w
  <2> QED
    BY <2>1, OctetIs
<1>3. Octet(2, s, v) \in Byte /\ Octet(4, s, v) \in Byte /\ Octet(6, s, v) \in Byte
    BY <1>2, OctetType
<1>4. w = (d.buffer * 64 + v) % 2^12
    BY Powers DEF Pushed
<1> HIDE DEF w
<1> DEFINE bits == d.bits + 6
           next == bits - 8
           full == bits >= 8
<1>5. e = IF full
           THEN [d EXCEPT !.buffer = w, !.bits = next,
                          !.out = Append(@, Leaving(w, next))]
           ELSE [d EXCEPT !.buffer = w, !.bits = bits]
    BY <1>4, Zenon DEF Shift, Leaving
<1>6. /\ d.bits = 0 => ~full /\ bits = 6
      /\ d.bits = 2 => full /\ next = 0
      /\ d.bits = 4 => full /\ next = 2
      /\ d.bits = 6 => full /\ next = 4
    OBVIOUS
<1> HIDE DEF bits, next, full
<1>7. CASE d.bits = 0
  <2>1. e = [buffer |-> w, bits |-> 6, out |-> d.out, going |-> d.going]
    BY <1>1, <1>7, <1>5, <1>6
  <2> QED
    BY <1>1, <1>2, <1>7, <2>1 DEF DecodeStates, Shifted
<1> DEFINE Moved(left, x) ==
        [buffer |-> w, bits |-> left, out |-> Append(d.out, x), going |-> d.going]
<1>8. ASSUME NEW left \in {0, 2, 4}, NEW x \in Byte
      PROVE  Moved(left, x) \in DecodeStates
  <2>1. Append(d.out, x) \in Seq(Byte)
    BY <1>1
  <2> QED
    BY <1>1, <1>2, <2>1 DEF DecodeStates
<1>9. CASE d.bits = 2
  <2>1. e = Moved(0, Leaving(w, 0))
    BY <1>1, <1>9, <1>5, <1>6
  <2> QED
    BY <1>1, <1>2, <1>3, <1>8, <1>9, <2>1 DEF Shifted
<1>10. CASE d.bits = 4
  <2>1. e = Moved(2, Leaving(w, 2))
    BY <1>1, <1>10, <1>5, <1>6
  <2> QED
    BY <1>1, <1>2, <1>3, <1>8, <1>10, <2>1 DEF Shifted
<1>11. CASE d.bits = 6
  <2>1. e = Moved(4, Leaving(w, 4))
    BY <1>1, <1>11, <1>5, <1>6
  <2> QED
    BY <1>1, <1>2, <1>3, <1>8, <1>11, <2>1 DEF Shifted
<1> QED
    BY <1>1, <1>7, <1>9, <1>10, <1>11 DEF Shifted

\* What the loop does with white space, with padding, with any other byte.
LEMMA DecodeStepIs ==
    ASSUME NEW d, NEW c, NEW e, e = DecodeStep(d, c)
    PROVE  /\ d.going # "on" \/ c \in Whitespace => e = d
           /\ d.going = "on" /\ c = Equals => e = [d EXCEPT !.going = "padding"]
           /\ d.going = "on" /\ c \notin Whitespace \cup {Equals} =>
                /\ base64_value(c) < 0 => e = [d EXCEPT !.going = "bad"]
                /\ ~(base64_value(c) < 0) => e = Shift(d, base64_value(c))
<1>1. Equals \notin Whitespace
    BY DEF Equals, Whitespace
<1>2. ASSUME d.going # "on" \/ c \in Whitespace PROVE e = d
    BY <1>1, <1>2, Zenon DEF DecodeStep
<1>3. ASSUME d.going = "on" /\ c = Equals
      PROVE  e = [d EXCEPT !.going = "padding"]
    BY <1>1, <1>3, Zenon DEF DecodeStep
<1>4. ASSUME d.going = "on" /\ c \notin Whitespace \cup {Equals}
      PROVE  e = IF base64_value(c) < 0 THEN [d EXCEPT !.going = "bad"]
                 ELSE Shift(d, base64_value(c))
    BY <1>1, <1>4, Zenon DEF DecodeStep
<1> QED
    BY <1>2, <1>3, <1>4, Zenon

\* Every character leads from state to state.
LEMMA DecodeStepType ==
    ASSUME NEW d \in DecodeStates, NEW c \in Byte
    PROVE  DecodeStep(d, c) \in DecodeStates
<1> DEFINE v == base64_value(c)
           e == DecodeStep(d, c)
           x == Shift(d, v)
           bad == [d EXCEPT !.going = "bad"]
           over == [d EXCEPT !.going = "padding"]
<1>1. bad \in DecodeStates /\ over \in DecodeStates
    BY DEF DecodeStates
<1>2. v \in -1..63
    BY ValueType
<1>3. v \in Sextet => x \in DecodeStates
  <2> HIDE DEF v
  <2>1. v \in Sextet => Shifted(d, x, Lowest(d.buffer), v)
    BY ShiftIs
  <2> QED
    BY <2>1 DEF Shifted
<1>4. e = d \/ e = over \/ (v < 0 /\ e = bad) \/ (~(v < 0) /\ e = x)
    BY DecodeStepIs, Zenon
<1> HIDE DEF v, e, x, bad, over
<1>5. v < 0 \/ v \in Sextet
    BY <1>2 DEF Sextet
<1> QED
    BY <1>1, <1>3, <1>4, <1>5 DEF e

\* The course of the decoder, step by step.
LEMMA DecodeScanIs ==
    ASSUME NEW t \in Seq(Byte)
    PROVE  /\ DecodeScan(t) \in [0..Len(t) -> DecodeStates]
           /\ DecodeScan(t)[0] = DecodeStart
           /\ \A i \in 1..Len(t) :
                DecodeScan(t)[i] = DecodeStep(DecodeScan(t)[i - 1], t[i])
<1> DEFINE N == Len(t)
           step == [p \in DecodeStates \X (1..N) |-> DecodeStep(p[1], t[p[2]])]
           After(f, i) == IF i = 0 THEN DecodeStart ELSE DecodeStep(f[i - 1], t[i])
           Course(f) == f = [i \in 0..N |-> After(f, i)]
<1>1. N \in Nat /\ DecodeStart \in DecodeStates
    BY DEF DecodeStates, DecodeStart, Buffers
<1>2. \A i \in 1..N : t[i] \in Byte
    OBVIOUS
<1>3. step \in [DecodeStates \X (1..N) -> DecodeStates]
    BY <1>2, DecodeStepType
<1>4. PICK f : IsCourse(f, N, DecodeStates, DecodeStart, step)
  <2> HIDE DEF step, N
  <2> QED
    BY <1>1, <1>3, CourseExists
<1>5. \A i \in 1..N : f[i] = DecodeStep(f[i - 1], t[i])
    BY <1>1, <1>4 DEF IsCourse
<1>6. \A i \in 0..N : f[i] = After(f, i)
  <2> HIDE DEF step, N
  <2> QED
    BY <1>1, <1>4, <1>5 DEF IsCourse
<1>7. Course(f)
  <2> HIDE DEF After
  <2> QED
    BY <1>4, <1>6 DEF IsCourse
<1>8. Course(DecodeScan(t))
    BY <1>7 DEF DecodeScan
<1>9. DecodeScan(t)[0] = DecodeStart
    BY <1>1, <1>8
<1>10. \A i \in 1..N : DecodeScan(t)[i] = DecodeStep(DecodeScan(t)[i - 1], t[i])
    BY <1>1, <1>8
<1> DEFINE F == DecodeScan(t)
           T == {i \in 0..N : F[i] \in DecodeStates}
<1>11. DOMAIN F = 0..N /\ F = [i \in 0..N |-> F[i]]
  <2> HIDE DEF After
  <2> QED
    BY <1>8
<1> HIDE DEF F
<1>12. 0 \in T
    BY <1>1, <1>9 DEF F
<1>13. ASSUME NEW i \in 1..N, i - 1 \in T PROVE i \in T
  <2>1. F[i] = DecodeStep(F[i - 1], t[i])
    BY <1>10 DEF F
  <2> QED
    BY <1>1, <1>2, <1>13, <2>1, DecodeStepType
<1> HIDE DEF T
<1>14. 0..N \subseteq T
    BY <1>1, <1>12, <1>13, UpTo
<1>15. F \in [0..N -> DecodeStates]
    BY <1>11, <1>14 DEF T
<1> QED
    BY <1>9, <1>10, <1>15 DEF F

\* Neither a digit nor, if it is in no alphabet, taken for one.
Passed(t, i) == t[i] \in Whitespace \/ \E j \in 1..i : t[j] = Equals

\* The course of the digits that it looks at, step by step.
LEMMA PayloadScanIs ==
    ASSUME NEW t \in Seq(Byte)
    PROVE  /\ PayloadScan(t) \in [0..Len(t) -> Seq(Byte)]
           /\ PayloadScan(t)[0] = <<>>
           /\ \A i \in 1..Len(t) :
                PayloadScan(t)[i] =
                    IF Passed(t, i) THEN PayloadScan(t)[i - 1]
                    ELSE Append(PayloadScan(t)[i - 1], t[i])
<1> DEFINE N == Len(t)
           S == Seq(Byte)
           After(f, i) == IF i = 0 THEN <<>>
                          ELSE IF Passed(t, i) THEN f[i - 1]
                          ELSE Append(f[i - 1], t[i])
           Course(f) == f = [i \in 0..N |-> After(f, i)]
           step == [p \in S \X (1..N) |->
                        IF Passed(t, p[2]) THEN p[1] ELSE Append(p[1], t[p[2]])]
           F == PayloadScan(t)
           T == {i \in 0..N : F[i] \in S}
<1>1. N \in Nat /\ <<>> \in S /\ \A i \in 1..N : t[i] \in Byte
    OBVIOUS
<1>2. \A p \in S : \A i \in 1..N : Append(p, t[i]) \in S
    BY <1>1
<1>3. step \in [S \X (1..N) -> S]
  <2> HIDE DEF N, S
  <2> QED
    BY <1>2
<1>4. PICK f : IsCourse(f, N, S, <<>>, step)
  <2> HIDE DEF step, N, S
  <2> QED
    BY <1>1, <1>3, CourseExists
<1>5. /\ f \in [0..N -> S] /\ f[0] = <<>>
      /\ \A i \in 1..N : f[i] = IF Passed(t, i) THEN f[i - 1] ELSE Append(f[i - 1], t[i])
  <2>1. /\ f \in [0..N -> S] /\ f[0] = <<>>
        /\ \A i \in 1..N : f[i] = step[<<f[i - 1], i>>]
    BY <1>4 DEF IsCourse
  <2> HIDE DEF S, N
  <2>2. ASSUME NEW i \in 1..N
        PROVE  f[i] = IF Passed(t, i) THEN f[i - 1] ELSE Append(f[i - 1], t[i])
    <3>1. f[i - 1] \in S
      BY <1>1, <2>1
    <3> DEFINE p == <<f[i - 1], i>>
    <3>2. p \in S \X (1..N) /\ p[1] = f[i - 1] /\ p[2] = i
      BY <3>1
    <3> HIDE DEF p
    <3> QED
      BY <2>1, <3>2 DEF p
  <2> QED
    BY <2>1, <2>2
<1>6. ASSUME NEW i \in 0..N PROVE f[i] = After(f, i)
  <2> HIDE DEF step, N, S
  <2>1. CASE i = 0
    BY <1>5, <2>1
  <2>2. CASE i # 0
    <3>1. i \in 1..N
      BY <1>1, <2>2
    <3> QED
      BY <1>5, <2>2, <3>1, Zenon
  <2> QED
    BY <2>1, <2>2
<1>7. Course(f)
  <2> HIDE DEF After, S
  <2> QED
    BY <1>5, <1>6
<1>8. Course(F)
    BY <1>7, Zenon DEF PayloadScan, Passed
<1> HIDE DEF F, S
<1>9. /\ DOMAIN F = 0..N /\ F = [i \in 0..N |-> F[i]] /\ F[0] = <<>>
      /\ \A i \in 1..N : F[i] = IF Passed(t, i) THEN F[i - 1] ELSE Append(F[i - 1], t[i])
  <2>1. DOMAIN F = 0..N /\ F = [i \in 0..N |-> F[i]]
    <3> HIDE DEF After
    <3> QED
      BY <1>8
  <2>2. \A i \in 0..N : F[i] = After(F, i)
    <3> HIDE DEF After
    <3> QED
      BY <1>8
  <2> HIDE DEF N
  <2>3. F[0] = <<>>
    <3>1. 0 \in 0..N
      BY <1>1
    <3> QED
      BY <2>2, <3>1, Zenon
  <2>4. ASSUME NEW i \in 1..N
        PROVE  F[i] = IF Passed(t, i) THEN F[i - 1] ELSE Append(F[i - 1], t[i])
    <3>1. i \in 0..N /\ i # 0
      BY <1>1
    <3> QED
      BY <2>2, <3>1, Zenon
  <2> QED
    BY <2>1, <2>3, <2>4
<1>10. 0 \in T
    BY <1>1, <1>9
<1>11. ASSUME NEW i \in 1..N, i - 1 \in T PROVE i \in T
  <2>1. F[i] = F[i - 1] \/ F[i] = Append(F[i - 1], t[i])
    BY <1>9
  <2>2. F[i - 1] \in S /\ i \in 0..N
    BY <1>11
  <2> QED
    BY <1>2, <2>1, <2>2
<1> HIDE DEF T
<1>12. 0..N \subseteq T
    BY <1>1, <1>10, <1>11, UpTo
<1> QED
    BY <1>9, <1>12 DEF T, F, S

\* One byte more changes the last place only.
IsGrown(w, v, x) ==
    /\ w \in Seq(Byte) /\ Len(w) = Len(v) + 1
    /\ At(w, Len(v) + 1) = x
    /\ \A j \in 1..Len(v) : At(w, j) = At(v, j)
    /\ \A j \in Nat : j > Len(v) => At(v, j) = 0
    /\ \A j \in Nat : j > Len(v) + 1 => At(w, j) = 0

\* The bytes of a value that has got one more.
LEMMA AtAppend ==
    ASSUME NEW v \in Seq(Byte), NEW x \in Byte, NEW w, w = Append(v, x)
    PROVE  IsGrown(w, v, x)
<1>1. /\ w \in Seq(Byte) /\ Len(w) = Len(v) + 1 /\ Len(v) \in Nat
      /\ w[Len(v) + 1] = x /\ \A j \in 1..Len(v) : w[j] = v[j]
    OBVIOUS
<1> DEFINE n == Len(v)
<1>2. n \in Nat /\ n = Len(v) /\ n + 1 <= Len(w)
    BY <1>1
<1> HIDE DEF n
<1>3. At(w, n + 1) = x
    BY <1>1, <1>2 DEF At
<1>4. \A j \in 1..n : At(w, j) = At(v, j)
    BY <1>1, <1>2 DEF At
<1>5. \A j \in Nat : j > n => At(v, j) = 0
    BY <1>2 DEF At
<1>6. \A j \in Nat : j > n + 1 => At(w, j) = 0
    BY <1>1, <1>2 DEF At
<1> QED
    BY <1>1, <1>2, <1>3, <1>4, <1>5, <1>6 DEF IsGrown

\* The sextets whose bits are all there stay as they are.
LEMMA SliceStays ==
    ASSUME NEW v \in Seq(Byte), NEW x \in Byte, NEW q \in Nat \ {0},
           6 * q <= 8 * Len(v)
    PROVE  Slice(Append(v, x), q) = Slice(v, q)
<1> DEFINE g == (q - 1) \div 4
           r == (q - 1) % 4
           w == Append(v, x)
           n == Len(v)
<1>1. /\ g \in Nat /\ q = 4 * g + r + 1 /\ n \in Nat
      /\ r = 0 \/ r = 1 \/ r = 2 \/ r = 3
    OBVIOUS
<1>8. w = Append(v, x) /\ n = Len(v)
    OBVIOUS
<1> HIDE DEF g, r, w, n
<1>2. \A j \in 1..n : At(w, j) = At(v, j)
  <2>1. IsGrown(w, v, x)
    BY <1>8, AtAppend
  <2> QED
    BY <1>8, <2>1 DEF IsGrown
<1>3. 6 * q <= 8 * n
    BY DEF n
<1>4. CASE r = 0
  <2>1. 3 * g + 1 \in 1..n /\ q = 4 * g + 1
    BY <1>1, <1>3, <1>4
  <2> QED
    BY <1>1, <1>2, <2>1, SliceIs DEF w
<1>5. CASE r = 1
  <2>1. 3 * g + 1 \in 1..n /\ 3 * g + 2 \in 1..n /\ q = 4 * g + 2
    BY <1>1, <1>3, <1>5
  <2> QED
    BY <1>1, <1>2, <2>1, SliceIs DEF w
<1>6. CASE r = 2
  <2>1. 3 * g + 2 \in 1..n /\ 3 * g + 3 \in 1..n /\ q = 4 * g + 3
    BY <1>1, <1>3, <1>6
  <2> QED
    BY <1>1, <1>2, <2>1, SliceIs DEF w
<1>7. CASE r = 3
  <2>1. 3 * g + 3 \in 1..n /\ q = 4 * g + 4
    BY <1>1, <1>3, <1>7
  <2> QED
    BY <1>1, <1>2, <2>1, SliceIs DEF w
<1> QED
    BY <1>1, <1>4, <1>5, <1>6, <1>7

\* The last sextet of all when its other bits are missing.
LEMMA SliceEnds ==
    ASSUME NEW v \in Seq(Byte), NEW g \in Nat
    PROVE  /\ At(v, 3 * g + 1) = 0 => Slice(v, 4 * g + 1) = 0
           /\ At(v, 3 * g + 2) = 0 =>
                Slice(v, 4 * g + 2) = 16 * (At(v, 3 * g + 1) % 4)
           /\ At(v, 3 * g + 3) = 0 =>
                Slice(v, 4 * g + 3) = 4 * (At(v, 3 * g + 2) % 16)
<1> DEFINE a == At(v, 3 * g + 1)
           b == At(v, 3 * g + 2)
           c == At(v, 3 * g + 3)
           A == 16 * (a % 4)
           B == 4 * (b % 16)
<1>1. a \in Byte /\ b \in Byte
    BY AtType
<1>2. /\ Slice(v, 4 * g + 1) = a \div 4
      /\ Slice(v, 4 * g + 2) = A + b \div 16
      /\ Slice(v, 4 * g + 3) = B + c \div 64
    BY SliceIs
<1> HIDE DEF a, b, c
<1>3. A \in Nat /\ B \in Nat
    BY <1>1 DEF Byte
<1>4. 0 \div 4 = 0 /\ 0 \div 16 = 0 /\ 0 \div 64 = 0
    OBVIOUS
<1> HIDE DEF A, B
<1>5. A + 0 = A /\ B + 0 = B
    BY <1>3
<1>6. /\ a = 0 => Slice(v, 4 * g + 1) = 0
      /\ b = 0 => Slice(v, 4 * g + 2) = A
      /\ c = 0 => Slice(v, 4 * g + 3) = B
    BY <1>2, <1>4, <1>5
<1> QED
    BY <1>6 DEF a, b, c, A, B

\* The last bits of a sextet.
Left(x, bits) == x % 2^bits

\* What has been read of the sextets s after M of them: those before the last
\* are in out, and of the last one all but the bits that are left over.
IsRead(s, M, bits, out) ==
    /\ bits = 6 * M - 8 * Len(out)
    /\ \A q \in 1..(M - 1) : s[q] = Slice(out, q)
    /\ M > 0 => s[M] = Slice(out, M) + Left(s[M], bits)

\* A number from its quotient and its rest.
LEMMA Quotients ==
    ASSUME NEW v \in Nat
    PROVE  v = 16 * (v \div 16) + (v % 16) /\ v = 4 * (v \div 4) + (v % 4)
<1>1. v = 16 * (v \div 16) + (v % 16)
    OBVIOUS
<1>2. v = 4 * (v \div 4) + (v % 4)
    OBVIOUS
<1> QED
    BY <1>1, <1>2

\* A byte is made of what is left of one sextet and of the next.
LEMMA OctetParts ==
    ASSUME NEW s \in Sextet, NEW v \in Sextet
    PROVE  /\ Octet(6, s, v) \div 4 = s
           /\ v = 16 * (Octet(6, s, v) % 4) + Left(v, 4)
           /\ Octet(4, s, v) \div 16 = Left(s, 4)
           /\ v = 4 * (Octet(4, s, v) % 16) + Left(v, 2)
           /\ Octet(2, s, v) \div 64 = Left(s, 2)
           /\ Octet(2, s, v) % 64 = v
<1>1. (s * 4 + v \div 16) \div 4 = s
    BY DEF Sextet
<1>2. v = 16 * ((s * 4 + v \div 16) % 4) + (v % 16)
  <2>1. (s * 4 + v \div 16) % 4 = v \div 16
    BY DEF Sextet
  <2>2. v = 16 * (v \div 16) + (v % 16)
    <3>1. v \in Nat
      BY DEF Sextet
    <3> QED
      BY <3>1, Quotients
  <2> QED
    BY <2>1, <2>2, Zenon
<1>3. ((s % 16) * 16 + v \div 4) \div 16 = s % 16
    BY DEF Sextet
<1>4. v = 4 * (((s % 16) * 16 + v \div 4) % 16) + (v % 4)
  <2>1. ((s % 16) * 16 + v \div 4) % 16 = v \div 4
    BY DEF Sextet
  <2>2. v = 4 * (v \div 4) + (v % 4)
    <3>1. v \in Nat
      BY DEF Sextet
    <3> QED
      BY <3>1, Quotients
  <2> QED
    BY <2>1, <2>2, Zenon
<1>5. ((s % 4) * 64 + v) \div 64 = s % 4
    BY DEF Sextet
<1>6. ((s % 4) * 64 + v) % 64 = v
    BY DEF Sextet
<1>7. /\ Octet(2, s, v) = (s % 4) * 64 + v
      /\ Octet(4, s, v) = (s % 16) * 16 + v \div 4
      /\ Octet(6, s, v) = s * 4 + v \div 16
    BY DEF Octet
<1>8. Left(s, 4) = s % 16 /\ Left(v, 4) = v % 16 /\ Left(s, 2) = s % 4 /\ Left(v, 2) = v % 4
    BY Powers DEF Left
<1>9. Octet(6, s, v) \div 4 = s
    BY <1>1, <1>7, Zenon
<1>10. v = 16 * (Octet(6, s, v) % 4) + Left(v, 4)
    BY <1>2, <1>7, <1>8
<1>11. Octet(4, s, v) \div 16 = Left(s, 4)
    BY <1>3, <1>7, <1>8, Zenon
<1>12. v = 4 * (Octet(4, s, v) % 16) + Left(v, 2)
    BY <1>4, <1>7, <1>8
<1>13. Octet(2, s, v) \div 64 = Left(s, 2)
    BY <1>5, <1>7, <1>8, Zenon
<1>14. Octet(2, s, v) % 64 = v
    BY <1>6, <1>7, Zenon
<1> QED
    BY <1>9, <1>10, <1>11, <1>12, <1>13, <1>14, Zenon

\* Of no bits nothing is left, of six the whole sextet.
LEMMA LeftIs ==
    ASSUME NEW v \in Sextet
    PROVE  Left(v, 0) = 0 /\ Left(v, 6) = v
<1>1. v % 1 = 0 /\ v % 64 = v
    BY DEF Sextet
<1> QED
    BY <1>1, Powers DEF Left

\* So many sextets and bytes are g groups and a little more.
Grouped(bits, M, n, g) ==
    /\ bits = 0 => M = 4 * g /\ n = 3 * g
    /\ bits = 6 => M = 4 * g + 1 /\ n = 3 * g
    /\ bits = 4 => M = 4 * g + 2 /\ n = 3 * g + 1
    /\ bits = 2 => M = 4 * g + 3 /\ n = 3 * g + 2

\* The bits that wait count the sextets of the last group.
LEMMA Counted ==
    ASSUME NEW M \in Nat, NEW n \in Nat, NEW bits, bits = 6 * M - 8 * n
    PROVE  \E g \in Nat : Grouped(bits, M, n, g)
<1> DEFINE g == M \div 4
           r == M % 4
<1>1. M = 4 * g + r /\ g \in Nat /\ r \in 0..3
    OBVIOUS
<1> HIDE DEF g, r
<1>2. r = 0 \/ r = 1 \/ r = 2 \/ r = 3
    BY <1>1
<1>3. /\ bits = 0 => M = 4 * g /\ n = 3 * g
      /\ bits = 6 => M = 4 * g + 1 /\ n = 3 * g
      /\ bits = 4 => M = 4 * g + 2 /\ n = 3 * g + 1
      /\ bits = 2 => M = 4 * g + 3 /\ n = 3 * g + 2
    BY <1>1, <1>2
<1> QED
    BY <1>1, <1>3 DEF Grouped

\* One more sextet read, and its bits in the bytes or waiting.
LEMMA ShiftReads ==
    ASSUME NEW d \in DecodeStates, NEW M \in Nat, NEW s \in [1..(M + 1) -> Sextet],
           IsRead(s, M, d.bits, d.out),
           M > 0 => Lowest(d.buffer) = s[M],
           NEW e, e = Shift(d, s[M + 1])
    PROVE  IsRead(s, M + 1, e.bits, e.out) /\ Lowest(e.buffer) = s[M + 1]
<1> DEFINE u == s[M]
           v == s[M + 1]
           o == d.out
           p == e.out
           bits == d.bits
           n == Len(o)
           l == Lowest(d.buffer)
<1>1. /\ v \in Sextet /\ o \in Seq(Byte) /\ n \in Nat /\ n = Len(o)
      /\ bits = 0 \/ bits = 2 \/ bits = 4 \/ bits = 6
      /\ d.buffer \in Buffers
    BY DEF DecodeStates
<1>2. /\ bits = 6 * M - 8 * n
      /\ \A q \in 1..(M - 1) : s[q] = Slice(o, q)
      /\ M > 0 => u = Slice(o, M) + Left(u, bits)
    BY DEF IsRead
<1>3. /\ Lowest(e.buffer) = v
      /\ bits = 0 => e.bits = 6 /\ p = o
      /\ bits = 2 => e.bits = 0 /\ p = Append(o, Octet(2, l, v))
      /\ bits = 4 => e.bits = 2 /\ p = Append(o, Octet(4, l, v))
      /\ bits = 6 => e.bits = 4 /\ p = Append(o, Octet(6, l, v))
  <2>1. l = Lowest(d.buffer) /\ e = Shift(d, v)
    OBVIOUS
  <2> HIDE DEF l, v
  <2>2. Shifted(d, e, l, v)
    BY <1>1, <2>1, ShiftIs
  <2> QED
    BY <2>2 DEF Shifted
<1>4. M > 0 => u \in Sextet /\ l = u
    OBVIOUS
<1>5. PICK g \in Nat : Grouped(bits, M, n, g)
  <2> HIDE DEF bits, n
  <2> QED
    BY <1>1, <1>2, Counted
<1>12. /\ bits = 0 => M = 4 * g /\ n = 3 * g
       /\ bits = 6 => M = 4 * g + 1 /\ n = 3 * g
       /\ bits = 4 => M = 4 * g + 2 /\ n = 3 * g + 1
       /\ bits = 2 => M = 4 * g + 3 /\ n = 3 * g + 2
    BY <1>5 DEF Grouped
<1> HIDE DEF u, v, o, p, bits, n, l
<1> DEFINE Goal == /\ e.bits = 6 * (M + 1) - 8 * Len(p)
                   /\ \A q \in 1..M : s[q] = Slice(p, q)
                   /\ v = Slice(p, M + 1) + Left(v, e.bits)
<1>6. ASSUME Goal PROVE IsRead(s, M + 1, e.bits, e.out)
  <2> DEFINE m == M + 1
  <2>1. m - 1 = M /\ v = s[m]
    BY DEF v
  <2> HIDE DEF m
  <2>2. e.bits = 6 * m - 8 * Len(e.out)
    BY <1>6 DEF p, m
  <2>3. \A q \in 1..(m - 1) : s[q] = Slice(e.out, q)
    BY <1>6, <2>1 DEF p
  <2>4. s[m] = Slice(e.out, m) + Left(s[m], e.bits)
    BY <1>6, <2>1 DEF p, m
  <2>5. IsRead(s, m, e.bits, e.out)
    BY <2>2, <2>3, <2>4 DEF IsRead
  <2> QED
    BY <2>5 DEF m
<1> HIDE DEF Goal
\* With no byte complete, only the new sextet is left over.
<1>7. ASSUME bits = 0 PROVE Goal
  <2>1. /\ M = 4 * g /\ n = 3 * g /\ p = o /\ e.bits = 6 /\ M + 1 = 4 * g + 1
        /\ 3 * g + 1 > n
    BY <1>1, <1>3, <1>7, <1>12
  <2>2. ASSUME NEW q \in 1..M PROVE s[q] = Slice(p, q)
    <3>1. CASE q = M
      <4> DEFINE x == Slice(o, M)
      <4>1. M > 0 /\ M \in Nat \ {0}
        BY <3>1
      <4>2. u = x + 0
        BY <1>2, <1>4, <1>7, <4>1, LeftIs
      <4>3. x \in 0..63
        BY <1>1, <4>1, SliceType
      <4> HIDE DEF x
      <4>4. u = x
        BY <4>2, <4>3
      <4> QED
        BY <2>1, <3>1, <4>4 DEF u, x
    <3>2. CASE q # M
      <4>1. q \in 1..(M - 1)
        BY <3>2
      <4> QED
        BY <1>2, <2>1, <4>1
    <3> QED
      BY <3>1, <3>2
  <2>3. Slice(p, M + 1) = 0
    <3>1. At(o, 3 * g + 1) = 0
      BY <1>1, <2>1 DEF At
    <3> QED
      BY <1>1, <2>1, <3>1, SliceEnds
  <2>4. v = 0 + Left(v, 6)
    <3>1. v = 0 + v
      BY <1>1 DEF Sextet
    <3> QED
      BY <1>1, <3>1, LeftIs
  <2>5. 6 = 6 * (M + 1) - 8 * n
    BY <1>1, <2>1
  <2>6. e.bits = 6 * (M + 1) - 8 * Len(p)
    BY <1>1, <2>1, <2>5, Zenon
  <2> QED
    BY <2>1, <2>2, <2>3, <2>4, <2>6, Zenon DEF Goal
\* Otherwise a byte is appended, that completes the last sextet.
<1>8. ASSUME NEW x \in Byte, p = Append(o, x), M > 0,
             e.bits = bits - 2, Slice(p, M) = u,
             v = Slice(p, M + 1) + Left(v, e.bits)
      PROVE  Goal
  <2>1. Len(p) = n + 1
    <3>1. IsGrown(p, o, x)
      BY <1>1, <1>8, AtAppend
    <3> QED
      BY <1>1, <3>1 DEF IsGrown
  <2>2. e.bits = 6 * (M + 1) - 8 * Len(p)
    BY <1>1, <1>2, <1>8, <2>1
  <2>3. ASSUME NEW q \in 1..(M - 1) PROVE s[q] = Slice(p, q)
    <3>1. q \in Nat \ {0} /\ 6 * q <= 8 * Len(o)
      BY <1>1, <1>2
    <3> QED
      BY <1>1, <1>2, <1>8, <3>1, SliceStays
  <2>4. \A q \in 1..M : q \in 1..(M - 1) \/ q = M
    OBVIOUS
  <2> QED
    BY <1>8, <2>2, <2>3, <2>4 DEF u, Goal
<1>9. ASSUME bits = 6 PROVE Goal
  <2> DEFINE x == Octet(6, u, v)
  <2>1. /\ M = 4 * g + 1 /\ n = 3 * g /\ M > 0 /\ e.bits = 4
        /\ u \in Sextet /\ p = Append(o, x) /\ M + 1 = 4 * g + 2
        /\ n + 1 = 3 * g + 1 /\ 3 * g + 2 > n + 1 /\ 3 * g + 2 \in Nat
        /\ e.bits = bits - 2
    BY <1>3, <1>4, <1>9, <1>12
  <2>2. x \in Byte
    BY <1>1, <2>1, OctetType
  <2>3. x \div 4 = u /\ v = 16 * (x % 4) + Left(v, 4)
    BY <1>1, <2>1, OctetParts
  <2> HIDE DEF x
  <2>4. p \in Seq(Byte) /\ At(p, 3 * g + 1) = x /\ At(p, 3 * g + 2) = 0
    <3>1. IsGrown(p, o, x)
      BY <1>1, <2>1, <2>2, AtAppend
    <3> QED
      BY <1>1, <2>1, <3>1 DEF IsGrown
  <2>5. Slice(p, M) = x \div 4
    BY <2>1, <2>4, SliceIs
  <2>6. Slice(p, M + 1) = 16 * (x % 4)
    BY <2>1, <2>4, SliceEnds
  <2>7. Slice(p, M) = u /\ v = Slice(p, M + 1) + Left(v, e.bits)
    BY <2>1, <2>3, <2>5, <2>6, Zenon
  <2> QED
    BY <1>8, <2>1, <2>2, <2>7
<1>10. ASSUME bits = 4 PROVE Goal
  <2> DEFINE x == Octet(4, u, v)
             a == At(o, 3 * g + 1)
  <2>1. /\ M = 4 * g + 2 /\ n = 3 * g + 1 /\ M > 0 /\ e.bits = 2
        /\ u \in Sextet /\ p = Append(o, x) /\ M + 1 = 4 * g + 3
        /\ n + 1 = 3 * g + 2 /\ 3 * g + 3 > n + 1 /\ 3 * g + 3 \in Nat
        /\ 3 * g + 1 \in 1..n /\ 3 * g + 2 > n /\ 3 * g + 2 \in Nat
        /\ e.bits = bits - 2
    BY <1>3, <1>4, <1>10, <1>12
  <2>2. x \in Byte
    BY <1>1, <2>1, OctetType
  <2>3. x \div 16 = Left(u, 4) /\ v = 4 * (x % 16) + Left(v, 2)
    BY <1>1, <2>1, OctetParts
  <2> HIDE DEF x
  <2>4. /\ p \in Seq(Byte) /\ At(p, 3 * g + 1) = a
        /\ At(p, 3 * g + 2) = x /\ At(p, 3 * g + 3) = 0
        /\ At(o, 3 * g + 2) = 0
    <3>1. IsGrown(p, o, x)
      BY <1>1, <2>1, <2>2, AtAppend
    <3> QED
      BY <1>1, <2>1, <3>1 DEF IsGrown
  <2>5. Slice(o, M) = 16 * (a % 4)
    BY <1>1, <2>1, <2>4, SliceEnds
  <2>6. Slice(p, M) = 16 * (a % 4) + x \div 16
    BY <2>1, <2>4, SliceIs
  <2>7. Slice(p, M + 1) = 4 * (x % 16)
    BY <2>1, <2>4, SliceEnds
  <2>8. u = Slice(o, M) + Left(u, 4)
    BY <1>2, <1>10, <2>1
  <2>9. Slice(p, M) = u /\ v = Slice(p, M + 1) + Left(v, e.bits)
    BY <2>1, <2>3, <2>5, <2>6, <2>7, <2>8, Zenon
  <2> QED
    BY <1>8, <2>1, <2>2, <2>9
<1>11. ASSUME bits = 2 PROVE Goal
  <2> DEFINE x == Octet(2, u, v)
             a == At(o, 3 * g + 2)
  <2>1. /\ M = 4 * g + 3 /\ n = 3 * g + 2 /\ M > 0 /\ e.bits = 0
        /\ u \in Sextet /\ p = Append(o, x) /\ M + 1 = 4 * g + 4
        /\ n + 1 = 3 * g + 3 /\ 3 * g + 2 \in 1..n
        /\ 3 * g + 3 > n /\ 3 * g + 3 \in Nat
        /\ e.bits = bits - 2
    BY <1>3, <1>4, <1>11, <1>12
  <2>2. x \in Byte
    BY <1>1, <2>1, OctetType
  <2>3. x \div 64 = Left(u, 2) /\ x % 64 = v
    BY <1>1, <2>1, OctetParts
  <2> HIDE DEF x
  <2>4. /\ p \in Seq(Byte) /\ At(p, 3 * g + 2) = a
        /\ At(p, 3 * g + 3) = x /\ At(o, 3 * g + 3) = 0
    <3>1. IsGrown(p, o, x)
      BY <1>1, <2>1, <2>2, AtAppend
    <3> QED
      BY <1>1, <2>1, <3>1 DEF IsGrown
  <2>5. Slice(o, M) = 4 * (a % 16)
    BY <1>1, <2>1, <2>4, SliceEnds
  <2>6. Slice(p, M) = 4 * (a % 16) + x \div 64
    BY <2>1, <2>4, SliceIs
  <2>7. Slice(p, M + 1) = x % 64
    BY <2>1, <2>4, SliceIs
  <2>8. u = Slice(o, M) + Left(u, 2)
    BY <1>2, <1>11, <2>1
  <2>9. v = v + 0 /\ Left(v, 0) = 0
    <3>1. v = v + 0
      BY <1>1 DEF Sextet
    <3> QED
      BY <1>1, <3>1, LeftIs
  <2>10. Slice(p, M) = u /\ v = Slice(p, M + 1) + Left(v, e.bits)
    BY <2>1, <2>3, <2>5, <2>6, <2>7, <2>8, <2>9, Zenon
  <2> QED
    BY <1>8, <2>1, <2>2, <2>10
<1> QED
    BY <1>1, <1>3, <1>6, <1>7, <1>9, <1>10, <1>11 DEF v

\* The sextets of digits.
Values(P) == [m \in 1..Len(P) |-> base64_value(P[m])]

\* The digits P, all of them valid, are what d has read.
HasRead(P, d) ==
    /\ \A m \in 1..Len(P) : base64_value(P[m]) \in Sextet
    /\ IsRead(Values(P), Len(P), d.bits, d.out)
    /\ Len(P) > 0 => Lowest(d.buffer) = base64_value(P[Len(P)])

\* After one more digit the bytes, and the bits that wait, are of one more.
LEMMA HasReadNext ==
    ASSUME NEW P \in Seq(Byte), NEW d \in DecodeStates, HasRead(P, d),
           NEW c \in Byte, NEW v \in Sextet, v = base64_value(c),
           NEW e, e = Shift(d, v), NEW Q, Q = Append(P, c)
    PROVE  HasRead(Q, e)
<1> DEFINE M == Len(P)
           n == M + 1
           r == Values(P)
           s == Values(Q)
<1>1. /\ M \in Nat /\ Len(Q) = n /\ Q[n] = c /\ n \in Nat /\ n > 0 /\ M = Len(P)
      /\ \A m \in 1..M : Q[m] = P[m]
      /\ \A m \in 1..n : m \in 1..M \/ m = n
      /\ \A m \in 1..M : m \in 1..n
      /\ n \in 1..n
    OBVIOUS
<1>2. /\ \A m \in 1..M : r[m] = base64_value(P[m])
      /\ DOMAIN s = 1..n /\ s = [m \in 1..n |-> s[m]]
      /\ \A m \in 1..n : s[m] = base64_value(Q[m])
    BY <1>1 DEF Values
<1>3. /\ \A m \in 1..M : base64_value(P[m]) \in Sextet
      /\ IsRead(r, M, d.bits, d.out)
      /\ M > 0 => Lowest(d.buffer) = base64_value(P[M])
    BY DEF HasRead
<1> HIDE DEF n, M, r, s
<1>4. \A m \in 1..n : base64_value(Q[m]) \in Sextet
    BY <1>1, <1>3
<1>5. s \in [1..n -> Sextet] /\ s[n] = v /\ \A m \in 1..M : s[m] = r[m]
    BY <1>1, <1>2, <1>4
<1>6. M > 0 => M \in 1..M
    BY <1>1
<1>7. IsRead(s, M, d.bits, d.out)
  <2>1. \A q \in 1..(M - 1) : q \in 1..M
    BY <1>1
  <2>2. \A q \in 1..(M - 1) : s[q] = Slice(d.out, q)
    BY <1>3, <1>5, <2>1 DEF IsRead
  <2>3. M > 0 => s[M] = Slice(d.out, M) + Left(s[M], d.bits)
    BY <1>3, <1>5, <1>6 DEF IsRead
  <2>4. d.bits = 6 * M - 8 * Len(d.out)
    BY <1>3 DEF IsRead
  <2> QED
    BY <2>2, <2>3, <2>4 DEF IsRead
<1>8. M > 0 => Lowest(d.buffer) = s[M]
    BY <1>2, <1>3, <1>5, <1>6
<1>9. IsRead(s, n, e.bits, e.out) /\ Lowest(e.buffer) = s[n]
  <2>1. s \in [1..(M + 1) -> Sextet] /\ e = Shift(d, s[M + 1])
    BY <1>5 DEF n
  <2>2. IsRead(s, M + 1, e.bits, e.out) /\ Lowest(e.buffer) = s[M + 1]
    BY <1>1, <1>7, <1>8, <2>1, ShiftReads
  <2> QED
    BY <2>2 DEF n
<1> QED
    BY <1>1, <1>4, <1>5, <1>9 DEF HasRead, s

\* At the start nothing is read.
LEMMA HasReadNothing == HasRead(<<>>, DecodeStart)
BY DEF HasRead, IsRead, DecodeStart

\* What holds of the loop before its next character.
ScanInv(t, i, d, P) ==
    /\ d \in DecodeStates /\ P \in Seq(Byte)
    /\ d.going = "on" => \A j \in 1..i : t[j] # Equals
    /\ d.going = "padding" => \E j \in 1..i : t[j] = Equals
    /\ d.going = "bad" => \E m \in 1..Len(P) : P[m] \notin ToSet(Standard)
    /\ d.going # "bad" => HasRead(P, d)

\* Just the digits of the alphabet have a value.
LEMMA StandardValue ==
    ASSUME NEW c \in Byte
    PROVE  /\ c \in ToSet(Standard) => base64_value(c) \in Sextet
           /\ c \notin ToSet(Standard) => base64_value(c) = -1
<1>1. c \notin ToSet(Standard) => base64_value(c) = -1
    BY StandardIs
<1>2. ASSUME c \in ToSet(Standard) PROVE base64_value(c) \in Sextet
  <2>1. DOMAIN Standard = 1..64
    BY StandardIs DEF IsAlphabet
  <2>2. PICK k \in 1..64 : c = Standard[k]
    BY <1>2, <2>1 DEF ToSet
  <2>3. base64_value(c) = k - 1
    BY <2>2, StandardIs
  <2> QED
    BY <2>3 DEF Sextet
<1> QED
    BY <1>1, <1>2

\* Every character keeps the invariant.
LEMMA ScanInvNext ==
    ASSUME NEW t \in Seq(Byte), NEW i \in 1..Len(t), NEW d, NEW P,
           ScanInv(t, i - 1, d, P),
           NEW e, e = DecodeStep(d, t[i]),
           NEW Q, Q = IF Passed(t, i) THEN P ELSE Append(P, t[i])
    PROVE  ScanInv(t, i, e, Q)
<1> DEFINE c == t[i]
           v == base64_value(c)
           M == Len(P)
           bad == [d EXCEPT !.going = "bad"]
           over == [d EXCEPT !.going = "padding"]
           x == Shift(d, v)
<1>1. /\ d \in DecodeStates /\ P \in Seq(Byte) /\ c \in Byte /\ M \in Nat
      /\ i \in Nat /\ i \in 1..i
      /\ \A j \in 1..i : j \in 1..(i - 1) \/ j = i
      /\ \A j \in 1..(i - 1) : j \in 1..i
    BY DEF ScanInv
<1>2. /\ d.going = "on" \/ d.going = "padding" \/ d.going = "bad"
      /\ d.going = "on" => \A j \in 1..(i - 1) : t[j] # Equals
      /\ d.going = "padding" => \E j \in 1..(i - 1) : t[j] = Equals
      /\ d.going = "bad" => \E m \in 1..M : P[m] \notin ToSet(Standard)
      /\ d.going # "bad" => HasRead(P, d)
    BY DEF ScanInv, DecodeStates
<1>3. Append(P, c) \in Seq(Byte) /\ Q \in Seq(Byte) /\ M = Len(P)
    BY <1>1
<1>4. e \in DecodeStates
    BY <1>1, DecodeStepType
<1>5. /\ d.going # "on" \/ c \in Whitespace => e = d
      /\ d.going = "on" /\ c = Equals => e = over
      /\ d.going = "on" /\ c \notin Whitespace \cup {Equals} =>
            /\ v < 0 => e = bad
            /\ ~(v < 0) => e = x
    BY DecodeStepIs, Zenon
<1>6. /\ bad.going = "bad" /\ over.going = "padding"
      /\ over.bits = d.bits /\ over.out = d.out /\ over.buffer = d.buffer
    BY <1>1 DEF DecodeStates
<1>7. c \in ToSet(Standard) => v \in Sextet
    BY <1>1, StandardValue
<1>8. c \notin ToSet(Standard) => v < 0
  <2>1. c \notin ToSet(Standard) => v = -1
    BY <1>1, StandardValue
  <2> HIDE DEF v
  <2> QED
    BY <2>1
<1>9. v \in Sextet => ~(v < 0)
  <2> HIDE DEF v
  <2> QED
    BY DEF Sextet
<1>10. v \in Sextet => x.going = d.going
  <2> HIDE DEF v
  <2>1. v \in Sextet => Shifted(d, x, Lowest(d.buffer), v)
    BY <1>1, ShiftIs
  <2> QED
    BY <2>1 DEF Shifted
<1> HIDE DEF c, v, M, bad, over, x
<1>11. CASE d.going = "padding"
  <2>1. Passed(t, i) /\ e = d /\ Q = P
    BY <1>1, <1>2, <1>5, <1>11 DEF Passed
  <2> QED
    BY <1>1, <1>2, <1>11, <2>1 DEF ScanInv
<1>12. CASE d.going = "bad"
  <2>1. PICK m \in 1..M : P[m] \notin ToSet(Standard)
    BY <1>2, <1>12
  <2>2. m \in 1..Len(Q) /\ Q[m] = P[m]
    BY <1>1, <1>3
  <2>3. e = d
    BY <1>5, <1>12
  <2> QED
    BY <1>3, <1>4, <1>12, <2>1, <2>2, <2>3 DEF ScanInv
<1>13. CASE d.going = "on" /\ c \in Whitespace
  <2>1. Passed(t, i) /\ e = d /\ Q = P
    BY <1>5, <1>13 DEF Passed, c
  <2>2. t[i] # Equals
    BY <1>13 DEF c, Whitespace, Equals
  <2> QED
    BY <1>1, <1>2, <1>13, <2>1, <2>2 DEF ScanInv
<1>14. CASE d.going = "on" /\ c = Equals
  <2>1. Passed(t, i) /\ e = over /\ Q = P /\ t[i] = Equals
    BY <1>1, <1>5, <1>14 DEF Passed, c
  <2>2. HasRead(P, over)
    BY <1>2, <1>6, <1>14 DEF HasRead
  <2> QED
    BY <1>1, <1>3, <1>4, <1>6, <2>1, <2>2 DEF ScanInv
<1>15. CASE d.going = "on" /\ c \notin Whitespace \cup {Equals}
  <2>1. ~Passed(t, i) /\ t[i] # Equals /\ \A j \in 1..i : t[j] # Equals
    BY <1>1, <1>2, <1>15 DEF Passed, c
  <2>2. Q = Append(P, c)
    BY <2>1 DEF c
  <2>3. Len(Q) = M + 1 /\ Q[M + 1] = c /\ M + 1 \in 1..(M + 1)
    BY <1>1, <1>3, <2>2
  <2>4. CASE c \in ToSet(Standard)
    <3>1. v \in Sextet /\ e = x /\ x.going = "on"
      BY <1>5, <1>7, <1>9, <1>10, <1>15, <2>4
    <3>2. HasRead(Q, e)
      <4>1. v = base64_value(c) /\ e = Shift(d, v) /\ HasRead(P, d)
        BY <1>2, <1>15, <3>1 DEF v, x
      <4> QED
        BY <1>1, <2>2, <3>1, <4>1, HasReadNext
    <3> QED
      BY <1>3, <1>4, <2>1, <3>1, <3>2 DEF ScanInv
  <2>5. CASE c \notin ToSet(Standard)
    <3>1. e = bad /\ e.going = "bad"
      BY <1>5, <1>6, <1>8, <1>15, <2>5
    <3>2. \E m \in 1..Len(Q) : Q[m] \notin ToSet(Standard)
      BY <2>3, <2>5
    <3> QED
      BY <1>3, <1>4, <3>1, <3>2 DEF ScanInv
  <2> QED
    BY <2>4, <2>5
<1> QED
    BY <1>2, <1>11, <1>12, <1>13, <1>14, <1>15

\* At the end of the text it holds of all the digits.
LEMMA ScanInvHolds ==
    ASSUME NEW t \in Seq(Byte)
    PROVE  ScanInv(t, Len(t), DecodeScan(t)[Len(t)], Payload(t))
<1> DEFINE N == Len(t)
           d == DecodeScan(t)
           P == PayloadScan(t)
           T == {i \in 0..N : ScanInv(t, i, d[i], P[i])}
<1>1. N \in Nat /\ N = Len(t)
    OBVIOUS
<1>2. /\ d[0] = DecodeStart /\ d[0] \in DecodeStates
      /\ \A i \in 1..N : d[i] = DecodeStep(d[i - 1], t[i])
    BY <1>1, DecodeScanIs
<1>3. /\ P[0] = <<>>
      /\ \A i \in 1..N : P[i] = IF Passed(t, i) THEN P[i - 1] ELSE Append(P[i - 1], t[i])
    BY PayloadScanIs
<1> HIDE DEF N, d, P
<1>4. 0 \in T
  <2>1. DecodeStart.going = "on"
    BY DEF DecodeStart
  <2>2. \A j \in 1..0 : t[j] # Equals
    OBVIOUS
  <2>3. <<>> \in Seq(Byte)
    OBVIOUS
  <2>4. ScanInv(t, 0, d[0], P[0])
    BY <1>2, <1>3, <2>1, <2>2, <2>3, HasReadNothing DEF ScanInv
  <2> QED
    BY <1>1, <2>4
<1>5. ASSUME NEW i \in 1..N, i - 1 \in T PROVE i \in T
  <2>1. ScanInv(t, i - 1, d[i - 1], P[i - 1]) /\ i \in 0..N /\ i \in 1..Len(t)
    BY <1>1, <1>5
  <2>2. ScanInv(t, i, d[i], P[i])
    BY <1>2, <1>3, <2>1, ScanInvNext
  <2> QED
    BY <2>1, <2>2
<1> HIDE DEF T
<1>6. 0..N \subseteq T
    BY <1>1, <1>4, <1>5, UpTo
<1>7. ScanInv(t, N, d[N], P[N])
    BY <1>1, <1>6 DEF T
<1> QED
    BY <1>7 DEF N, d, P, Payload

\* A digit is found at its value.
LEMMA DigitOf ==
    ASSUME NEW c \in Byte, base64_value(c) \in Sextet
    PROVE  c \in ToSet(Standard) /\ c = Standard[1 + base64_value(c)]
<1> DEFINE v == base64_value(c)
<1>1. v # -1
  <2> HIDE DEF v
  <2> QED
    BY DEF Sextet, v
<1>2. c \in ToSet(Standard)
    BY <1>1, StandardValue
<1>3. DOMAIN Standard = 1..64
    BY StandardIs DEF IsAlphabet
<1>4. PICK k \in 1..64 : c = Standard[k]
    BY <1>2, <1>3 DEF ToSet
<1>5. v = k - 1
    BY <1>4, StandardIs
<1> HIDE DEF v
<1>6. 1 + v = k
    BY <1>5
<1> QED
    BY <1>2, <1>4, <1>6 DEF v

\* The sextets are found again in the alphabet.
LEMMA SextetsAre ==
    ASSUME NEW A, IsAlphabet(A), NEW M \in Nat, NEW D \in [1..M -> Byte],
           NEW s \in [1..M -> Sextet], \A q \in 1..M : D[q] = A[1 + s[q]]
    PROVE  SextetsOf(D, A) = s
<1>1. ASSUME NEW q \in 1..M
      PROVE  (CHOOSE k \in 1..64 : A[k] = D[q]) - 1 = s[q]
  <2> DEFINE x == s[q]
             found == CHOOSE k \in 1..64 : A[k] = D[q]
  <2>1. x \in Sextet /\ A[1 + x] = D[q]
    OBVIOUS
  <2> HIDE DEF x
  <2>2. 1 + x \in 1..64
    BY <2>1 DEF Sextet
  <2>3. found = 1 + x
    BY <2>1, <2>2 DEF IsAlphabet
  <2> HIDE DEF found
  <2>4. found - 1 = x
    BY <2>1, <2>3 DEF Sextet
  <2> QED
    BY <2>4 DEF x, found
<1>2. DOMAIN D = 1..M
    OBVIOUS
<1>3. SextetsOf(D, A) = [q \in 1..M |-> s[q]]
    BY <1>1, <1>2 DEF SextetsOf
<1> QED
    BY <1>3

\* The bits of sextets end with those of the last one.
LEMMA BitsOfSextets ==
    ASSUME NEW M \in Nat, NEW s \in [1..M -> Sextet]
    PROVE  /\ Len(BitsOf(s, 6)) = 6 * M
           /\ M > 0 => \A e \in 0..5 : BitsOf(s, 6)[6 * M - e] = Bit(s[M], e)
<1> DEFINE have == BitsOf(s, 6)
<1>1. Len(s) = M
    BY SeqIs
<1>2. have = [k \in 1..(6 * M) |-> Bit(s[1 + ((k - 1) \div 6)], 5 - ((k - 1) % 6))]
    BY <1>1 DEF BitsOf
<1> HIDE DEF have
<1>3. Len(have) = 6 * M
    BY <1>2
<1>4. ASSUME M > 0, NEW e \in 0..5 PROVE have[6 * M - e] = Bit(s[M], e)
  <2> DEFINE k == 6 * M - e
  <2>1. k \in 1..(6 * M) /\ k - 1 = 6 * (M - 1) + (5 - e) /\ M - 1 \in Nat /\ 5 - e \in 0..5
    BY <1>4
  <2> HIDE DEF k
  <2>2. (k - 1) \div 6 = M - 1 /\ (k - 1) % 6 = 5 - e
    BY <2>1
  <2>3. 1 + ((k - 1) \div 6) = M /\ 5 - ((k - 1) % 6) = e
    BY <2>2
  <2>4. have[k] = Bit(s[1 + ((k - 1) \div 6)], 5 - ((k - 1) % 6))
    BY <1>2, <2>1
  <2> QED
    BY <2>3, <2>4 DEF k
<1> QED
    BY <1>3, <1>4 DEF have

\* The bits that are left over are seen in the buffer as in the last sextet.
LEMMA LeftOver ==
    ASSUME NEW b \in Buffers
    PROVE  /\ Left(Lowest(b), 0) = b % 2^0 /\ Left(Lowest(b), 2) = b % 2^2
           /\ Left(Lowest(b), 4) = b % 2^4 /\ b % 2^0 = 0
<1>4. b % 1 = 0
    BY DEF Buffers
<1>1. (b % 64) % 1 = b % 1
    BY DEF Buffers
<1>2. (b % 64) % 4 = b % 4
    BY DEF Buffers
<1>3. (b % 64) % 16 = b % 16
    BY DEF Buffers
<1> QED
    BY <1>1, <1>2, <1>3, <1>4, Powers DEF Left, Lowest

\* What is not zero has a bit that is not.
LEMMA SomeBit ==
    ASSUME NEW x \in Sextet
    PROVE  /\ Left(x, 2) # 0 => \E e \in 0..1 : Bit(x, e) = 1
           /\ Left(x, 4) # 0 => \E e \in 0..3 : Bit(x, e) = 1
<1>1. x % 4 # 0 => (x \div 1) % 2 = 1 \/ (x \div 2) % 2 = 1
    BY DEF Sextet
<1>2. x % 16 # 0 => \/ (x \div 1) % 2 = 1 \/ (x \div 2) % 2 = 1
                    \/ (x \div 4) % 2 = 1 \/ (x \div 8) % 2 = 1
    BY DEF Sextet
<1>3. Left(x, 2) = x % 4 /\ Left(x, 4) = x % 16
    BY Powers DEF Left
<1>4. /\ Bit(x, 0) = (x \div 1) % 2 /\ Bit(x, 1) = (x \div 2) % 2
      /\ Bit(x, 2) = (x \div 4) % 2 /\ Bit(x, 3) = (x \div 8) % 2
    BY BitIs
<1>5. 0 \in 0..1 /\ 1 \in 0..1 /\ 0 \in 0..3 /\ 1 \in 0..3 /\ 2 \in 0..3 /\ 3 \in 0..3
    OBVIOUS
<1> QED
    BY <1>1, <1>2, <1>3, <1>4, <1>5, Zenon

\* base64_decode in the two cases, for any text.
LEMMA AcceptedIs ==
    ASSUME NEW t \in Seq(Byte), NEW d, d = DecodeScan(t)[Len(t)], Decodable(d),
           NEW P, P = Payload(t)
    PROVE  /\ d.out \in Seq(Byte)
           /\ ToSet(P) \subseteq ToSet(Standard)
           /\ Represents(P, Standard, d.out)
<1> DEFINE M == Len(P)
           s == Values(P)
<1>1. ScanInv(t, Len(t), d, P)
    BY ScanInvHolds
<1>2. /\ d \in DecodeStates /\ P \in Seq(Byte) /\ HasRead(P, d)
      /\ d.bits < 6 /\ d.buffer % 2^d.bits = 0
    BY <1>1 DEF ScanInv, Decodable
<1>0. M \in Nat
    BY <1>2
<1>3. /\ M \in Nat /\ M = Len(P) /\ P \in [1..M -> Byte] /\ DOMAIN P = 1..M
      /\ d.out \in Seq(Byte) /\ d.buffer \in Buffers
      /\ d.bits = 0 \/ d.bits = 2 \/ d.bits = 4
    BY <1>2 DEF DecodeStates
<1>4. /\ \A m \in 1..M : base64_value(P[m]) \in Sextet
      /\ IsRead(s, M, d.bits, d.out)
      /\ M > 0 => Lowest(d.buffer) = base64_value(P[M])
      /\ \A m \in 1..M : s[m] = base64_value(P[m])
    BY <1>2 DEF HasRead, Values
<1> HIDE DEF M, s
<1>5. ASSUME NEW q \in 1..M PROVE s[q] = Slice(d.out, q)
  <2>1. CASE q # M
    <3>1. q \in 1..(M - 1)
      BY <1>0, <2>1
    <3> QED
      BY <1>4, <3>1 DEF IsRead
  <2>2. CASE q = M
    <3> DEFINE x == Slice(d.out, M)
    <3>1. M > 0 /\ M \in Nat \ {0}
      BY <1>3, <2>2
    <3>2. s[M] = x + Left(s[M], d.bits)
      BY <1>4, <3>1 DEF IsRead
    <3>3. s[M] = Lowest(d.buffer)
      BY <1>4, <2>2, <3>1
    <3>4. Left(s[M], d.bits) = 0
      BY <1>2, <1>3, <3>3, LeftOver
    <3>5. x \in 0..63
      BY <1>3, <3>1, SliceType
    <3> HIDE DEF x
    <3>6. s[M] = x
      BY <3>2, <3>4, <3>5
    <3> QED
      BY <2>2, <3>6 DEF x
  <2> QED
    BY <2>1, <2>2
<1>6. ASSUME NEW q \in 1..M
      PROVE  P[q] \in ToSet(Standard) /\ P[q] = Standard[1 + Slice(d.out, q)]
  <2>1. P[q] \in Byte
    BY <1>3
  <2>2. P[q] \in ToSet(Standard) /\ P[q] = Standard[1 + base64_value(P[q])]
    BY <1>4, <2>1, DigitOf
  <2> QED
    BY <1>4, <1>5, <2>2
<1>7. 6 * M - 8 * Len(d.out) \in 0..5
  <2>1. d.bits = 6 * M - 8 * Len(d.out)
    BY <1>4 DEF IsRead
  <2> QED
    BY <1>3, <2>1
<1>8. IsAlphabet(Standard)
    BY StandardIs
<1>9. Represents(P, Standard, d.out)
    BY <1>3, <1>6, <1>7, <1>8, SlicesRepresent
<1>10. ToSet(P) \subseteq ToSet(Standard)
    BY <1>3, <1>6 DEF ToSet
<1> QED
    BY <1>3, <1>9, <1>10

\* Fewer than eight bits make no further byte.
LEMMA WholeBytes ==
    ASSUME NEW n \in Nat, NEW bits \in 0..7, NEW m, m = 8 * n + bits
    PROVE  m \div 8 = n
OBVIOUS

\* A text that is refused, though every digit is known: a digit too many, or
\* a bit left over.
LEMMA RefusedIs ==
    ASSUME NEW t \in Seq(Byte), NEW d, d = DecodeScan(t)[Len(t)], ~Decodable(d),
           NEW P, P = Payload(t), ToSet(P) \subseteq ToSet(Standard),
           NEW B, B = BitsOf(SextetsOf(P, Standard), 6)
    PROVE  \/ Len(P) % 4 = 1
           \/ \E i \in (8 * (Len(B) \div 8) + 1)..Len(B) : B[i] = 1
<1> DEFINE M == Len(P)
           s == Values(P)
           n == Len(d.out)
           x == s[M]
<1>1. ScanInv(t, Len(t), d, P)
    BY ScanInvHolds
<1>2. d \in DecodeStates /\ P \in Seq(Byte)
    BY <1>1 DEF ScanInv
<1>0. M \in Nat
    BY <1>2
<1>3. /\ M \in Nat /\ M = Len(P) /\ P \in [1..M -> Byte] /\ DOMAIN P = 1..M
      /\ d.out \in Seq(Byte) /\ d.buffer \in Buffers /\ n \in Nat
      /\ d.bits = 0 \/ d.bits = 2 \/ d.bits = 4 \/ d.bits = 6
    BY <1>2 DEF DecodeStates
<1>4. d.going # "bad" /\ HasRead(P, d)
    BY <1>1, <1>3 DEF ScanInv, ToSet
<1>5. /\ \A m \in 1..M : base64_value(P[m]) \in Sextet
      /\ IsRead(s, M, d.bits, d.out)
      /\ M > 0 => Lowest(d.buffer) = base64_value(P[M])
      /\ s = [m \in 1..M |-> base64_value(P[m])]
    BY <1>4 DEF HasRead, Values
<1>6. d.bits = 6 * M - 8 * n
    BY <1>5 DEF IsRead
<1> HIDE DEF M, s, n
<1>7. PICK g \in Nat : Grouped(d.bits, M, n, g)
    BY <1>3, <1>6, Counted
<1>8. ~(d.bits < 6) \/ d.buffer % 2^d.bits # 0
    BY <1>4 DEF Decodable
<1>9. CASE ~(d.bits < 6)
  <2>1. d.bits = 6
    BY <1>3, <1>9
  <2>2. M = 4 * g + 1
    BY <1>7, <2>1 DEF Grouped
  <2> QED
    BY <1>3, <2>2
<1>10. CASE d.bits < 6 /\ d.buffer % 2^d.bits # 0
  <2>1. /\ s \in [1..M -> Sextet]
        /\ \A q \in 1..M : s[q] = base64_value(P[q])
    BY <1>5
  <2>2. \A q \in 1..M : P[q] = Standard[1 + s[q]]
    BY <1>3, <1>5, <2>1, DigitOf
  <2>3. SextetsOf(P, Standard) = s
    <3>1. IsAlphabet(Standard) /\ P \in [1..M -> Byte]
      BY <1>3, StandardIs
    <3> QED
      BY <1>0, <2>1, <2>2, <3>1, SextetsAre
  <2>4. d.bits # 0
    <3>1. d.buffer % 2^0 = 0
      BY <1>3, LeftOver
    <3> QED
      BY <1>10, <3>1
  <2>5. /\ d.bits = 2 \/ d.bits = 4
        /\ M > 0 /\ M \in 1..M
        /\ 8 * n = 6 * M - d.bits
    BY <1>3, <1>6, <1>10, <2>4
  <2>6. x \in Sextet /\ x = Lowest(d.buffer)
    BY <1>5, <2>1, <2>5
  <2>7. Left(x, d.bits) # 0
    BY <1>3, <1>10, <2>5, <2>6, LeftOver
  <2>8. /\ Len(B) = 6 * M
        /\ \A e \in 0..5 : B[6 * M - e] = Bit(x, e)
    BY <1>3, <2>1, <2>3, <2>5, BitsOfSextets
  <2>9. PICK e \in 0..(d.bits - 1) : Bit(x, e) = 1
    <3>1. CASE d.bits = 2
      <4>1. \E e \in 0..1 : Bit(x, e) = 1
        BY <2>6, <2>7, <3>1, SomeBit
      <4> QED
        BY <3>1, <4>1
    <3>2. CASE d.bits = 4
      <4>1. \E e \in 0..3 : Bit(x, e) = 1
        BY <2>6, <2>7, <3>2, SomeBit
      <4> QED
        BY <3>2, <4>1
    <3> QED
      BY <2>5, <3>1, <3>2
  <2>10. e \in 0..5 /\ 6 * M - e \in (8 * n + 1)..(6 * M)
    BY <1>3, <2>5, <2>9
  <2>11. (6 * M) \div 8 = n
    <3>1. 6 * M = 8 * n + d.bits /\ d.bits \in 0..7
      BY <1>3, <2>5
    <3> QED
      BY <1>3, <3>1, WholeBytes
  <2>12. B[6 * M - e] = 1
    BY <2>8, <2>9, <2>10
  <2> QED
    BY <2>8, <2>10, <2>11, <2>12
<1> QED
    BY <1>8, <1>9, <1>10

\* base64.hpp:64-67 and 92-93, of any bytes: base64_decode accepts what is, up to
\* padding and white space, the encoding of what it returns, and refuses just
\* what has a foreign character, a digit that completes no byte, or bits left
\* over that are not zero.
THEOREM DecodingExact ==
    ASSUME NEW t \in Seq(Byte)
    PROVE  LET d == base64_decode(t)
               digits == Payload(t)
               known == ToSet(digits) \subseteq ToSet(Standard)
           IN  /\ d.ok => known /\ Represents(digits, Standard, d.out)
               /\ ~d.ok => d.out = <<>>
               /\ ~d.ok /\ known =>
                    \/ Len(digits) % 4 = 1
                    \/ LET bits == BitsOf(SextetsOf(digits, Standard), 6)
                       IN  \E i \in (8 * (Len(bits) \div 8) + 1)..Len(bits) :
                              bits[i] = 1
<1> DEFINE e == DecodeScan(t)[Len(t)]
           d == base64_decode(t)
           P == Payload(t)
           B == BitsOf(SextetsOf(P, Standard), 6)
<1>1. d = IF Decodable(e) THEN [ok |-> TRUE, out |-> e.out] ELSE Refused
    BY DEF base64_decode
<1>2. CASE Decodable(e)
  <2>1. d.ok = TRUE /\ d.out = e.out
    BY <1>1, <1>2
  <2>2. ToSet(P) \subseteq ToSet(Standard) /\ Represents(P, Standard, e.out)
    BY <1>2, AcceptedIs
  <2> QED
    BY <2>1, <2>2
<1>3. CASE ~Decodable(e)
  <2>1. d.ok = FALSE /\ d.out = <<>>
    BY <1>1, <1>3 DEF Refused
  <2>2. ToSet(P) \subseteq ToSet(Standard) =>
          \/ Len(P) % 4 = 1
          \/ \E i \in (8 * (Len(B) \div 8) + 1)..Len(B) : B[i] = 1
    BY <1>3, RefusedIs
  <2> QED
    BY <2>1, <2>2
<1> QED
    BY <1>2, <1>3

-----------------------------------------------------------------------------

\* What is encoded can be read back.

\* A number is known by its half and its parity.
LEMMA Doubled ==
    ASSUME NEW p \in Nat, NEW q \in Nat, p \div 2 = q \div 2, p % 2 = q % 2
    PROVE  p = q
OBVIOUS

\* The halves of a byte, and of its halves.
LEMMA Halvings ==
    ASSUME NEW x \in Byte
    PROVE  /\ x \div 1 \in Nat /\ (x \div 1) \div 2 = x \div 2
           /\ x \div 2 \in Nat /\ (x \div 2) \div 2 = x \div 4
           /\ x \div 4 \in Nat /\ (x \div 4) \div 2 = x \div 8
           /\ x \div 8 \in Nat /\ (x \div 8) \div 2 = x \div 16
           /\ x \div 16 \in Nat /\ (x \div 16) \div 2 = x \div 32
           /\ x \div 32 \in Nat /\ (x \div 32) \div 2 = x \div 64
BY DEF Byte

\* A byte is known by its bits.
LEMMA ByteOfBits ==
    ASSUME NEW x \in Byte, NEW y \in Byte, \A e \in 0..7 : Bit(x, e) = Bit(y, e)
    PROVE  x = y
<1>1. /\ Bit(x, 0) = Bit(y, 0) /\ Bit(x, 1) = Bit(y, 1) /\ Bit(x, 2) = Bit(y, 2)
      /\ Bit(x, 3) = Bit(y, 3) /\ Bit(x, 4) = Bit(y, 4) /\ Bit(x, 5) = Bit(y, 5)
      /\ Bit(x, 6) = Bit(y, 6) /\ Bit(x, 7) = Bit(y, 7)
    OBVIOUS
<1>2. /\ (x \div 1) % 2 = (y \div 1) % 2 /\ (x \div 2) % 2 = (y \div 2) % 2
      /\ (x \div 4) % 2 = (y \div 4) % 2 /\ (x \div 8) % 2 = (y \div 8) % 2
      /\ (x \div 16) % 2 = (y \div 16) % 2 /\ (x \div 32) % 2 = (y \div 32) % 2
      /\ (x \div 64) % 2 = (y \div 64) % 2 /\ (x \div 128) % 2 = (y \div 128) % 2
    BY <1>1, BitIs
<1>3. x \div 64 = y \div 64
    BY <1>2 DEF Byte
<1>4. x \div 32 = y \div 32
    BY <1>2, <1>3, Doubled, Halvings
<1>5. x \div 16 = y \div 16
    BY <1>2, <1>4, Doubled, Halvings
<1>6. x \div 8 = y \div 8
    BY <1>2, <1>5, Doubled, Halvings
<1>7. x \div 4 = y \div 4
    BY <1>2, <1>6, Doubled, Halvings
<1>8. x \div 2 = y \div 2
    BY <1>2, <1>7, Doubled, Halvings
<1>9. x \div 1 = y \div 1
    BY <1>2, <1>8, Doubled, Halvings
<1> QED
    BY <1>9 DEF Byte

\* Where the bits of a value are found.
LEMMA BitsOfBytes ==
    ASSUME NEW v \in Seq(Byte)
    PROVE  /\ Len(BitsOf(v, 8)) = 8 * Len(v)
           /\ \A j \in 1..Len(v) : \A e \in 0..7 :
                BitsOf(v, 8)[8 * j - e] = Bit(v[j], e)
<1> DEFINE N == Len(v)
           B == BitsOf(v, 8)
<1>1. N \in Nat
    OBVIOUS
<1>2. B = [k \in 1..(8 * N) |-> Bit(v[1 + ((k - 1) \div 8)], 7 - ((k - 1) % 8))]
    BY DEF BitsOf
<1> HIDE DEF N, B
<1>3. Len(B) = 8 * N
    BY <1>1, <1>2
<1>4. ASSUME NEW j \in 1..N, NEW e \in 0..7 PROVE B[8 * j - e] = Bit(v[j], e)
  <2> DEFINE k == 8 * j - e
  <2>1. /\ k \in 1..(8 * N) /\ 1 + ((k - 1) \div 8) = j
        /\ 7 - ((k - 1) % 8) = e
    BY <1>1
  <2> HIDE DEF k
  <2>2. B[k] = Bit(v[1 + ((k - 1) \div 8)], 7 - ((k - 1) % 8))
    BY <1>2, <2>1
  <2> QED
    BY <2>1, <2>2 DEF k
<1> QED
    BY <1>3, <1>4 DEF B, N

\* Digits represent the bytes of one value only.
LEMMA RepresentsOne ==
    ASSUME NEW D, NEW A, NEW v \in Seq(Byte), NEW w \in Seq(Byte),
           Represents(D, A, v), Represents(D, A, w)
    PROVE  v = w
<1> DEFINE have == BitsOf(SextetsOf(D, A), 6)
           H == Len(have)
           N == Len(v)
           B == BitsOf(v, 8)
           C == BitsOf(w, 8)
<1>1. N \in Nat /\ Len(w) \in Nat
    OBVIOUS
<1>2. /\ H \in Len(B)..(Len(B) + 5)
      /\ \A i \in 1..H : have[i] = IF i <= Len(B) THEN B[i] ELSE 0
      /\ H \in Len(C)..(Len(C) + 5)
      /\ \A i \in 1..H : have[i] = IF i <= Len(C) THEN C[i] ELSE 0
    BY DEF Represents
<1>3. Len(B) = 8 * N /\ Len(C) = 8 * Len(w)
    BY BitsOfBytes
<1> HIDE DEF have, H, N, B, C
<1>4. Len(w) = N
    BY <1>1, <1>2, <1>3
<1>5. ASSUME NEW j \in 1..N PROVE v[j] = w[j]
  <2>1. v[j] \in Byte /\ w[j] \in Byte
    BY <1>4 DEF N
  <2>2. ASSUME NEW e \in 0..7 PROVE Bit(v[j], e) = Bit(w[j], e)
    <3> DEFINE k == 8 * j - e
    <3>1. k \in 1..H /\ k <= 8 * N
      BY <1>1, <1>2, <1>3
    <3>2. B[k] = Bit(v[j], e)
      BY BitsOfBytes DEF N, B
    <3>3. C[k] = Bit(w[j], e)
      BY <1>4, BitsOfBytes DEF C
    <3> HIDE DEF k
    <3>4. have[k] = B[k] /\ have[k] = C[k]
      BY <1>2, <1>3, <1>4, <3>1
    <3> QED
      BY <3>2, <3>3, <3>4
  <2> QED
    BY <2>1, <2>2, ByteOfBits
<1> QED
    BY <1>4, <1>5 DEF N

\* What base64_decode looks at in an encoded value is what was not padding.
LEMMA PayloadEncoded ==
    ASSUME NEW v \in Seq(Byte), NEW E, E = base64_encode(v),
           NEW M, M = Filled(Len(v))
    PROVE  /\ E \in Seq(Byte)
           /\ Payload(E) = Unpadded(E)
           /\ Len(Payload(E)) = M
           /\ ToSet(Payload(E)) \subseteq ToSet(Standard)
<1> DEFINE L == 4 * ((Len(v) + 2) \div 3)
           K == PayloadScan(E)
           T == {i \in 0..L : K[i] = First(E, IF i <= M THEN i ELSE M)}
<1>0. IsAlphabet(Standard)
    BY StandardIs
<1>1. /\ Len(v) \in Nat /\ L \in Nat /\ L = 4 * ((Len(v) + 2) \div 3)
    OBVIOUS
<1> HIDE DEF L
<1>2. M \in Nat
    BY <1>1, FilledIs
<1>3. /\ E \in [1..L -> Byte] /\ M \in 0..L
      /\ \A k \in 1..M : E[k] = Standard[1 + Slice(v, k)]
      /\ \A k \in (M + 1)..L : E[k] = Equals
    BY <1>1, EncodedIs
<1>4. E \in Seq(Byte) /\ Len(E) = L
    BY <1>1, <1>3, SeqIs
<1>5. ASSUME NEW k \in 1..M
      PROVE  E[k] \in ToSet(Standard) /\ E[k] # Equals /\ E[k] \notin Whitespace
  <2>1. k \in Nat \ {0}
    BY <1>2
  <2>2. 1 + Slice(v, k) \in 1..64
    <3> DEFINE x == Slice(v, k)
    <3>1. x \in 0..63
      BY <2>1, SliceType
    <3> HIDE DEF x
    <3>2. 1 + x \in 1..64
      BY <3>1
    <3> QED
      BY <3>2 DEF x
  <2>3. DOMAIN Standard = 1..64
    BY <1>0 DEF IsAlphabet
  <2>4. \A x \in 1..64 :
            /\ Standard[x] \in ToSet(Standard)
            /\ Standard[x] # Equals /\ Standard[x] \notin Whitespace
    BY <1>0, <2>3, StandardIs DEF IsAlphabet, ToSet
  <2> QED
    BY <1>3, <2>2, <2>4
<1>6. /\ K[0] = <<>>
      /\ \A i \in 1..L : K[i] = IF Passed(E, i) THEN K[i - 1] ELSE Append(K[i - 1], E[i])
    BY <1>4, PayloadScanIs
<1> HIDE DEF K
<1>7. 0 \in T
  <2>1. First(E, 0) = <<>>
    BY DEF First
  <2>2. 0 <= M /\ 0 \in 0..L
    BY <1>1, <1>2
  <2> QED
    BY <1>6, <2>1, <2>2
<1>8. ASSUME NEW i \in 1..L, i - 1 \in T PROVE i \in T
  <2>1. i \in 0..L
    BY <1>1
  <2>2. CASE i <= M
    <3>1. i \in 1..M /\ i - 1 <= M /\ \A j \in 1..i : j \in 1..M
      BY <1>2, <2>2
    <3>2. ~Passed(E, i)
      BY <1>5, <3>1 DEF Passed
    <3>3. K[i] = Append(First(E, i - 1), E[i])
      BY <1>6, <1>8, <3>1, <3>2
    <3>4. First(E, i) = Append(First(E, i - 1), E[i])
      BY <1>3, <3>1 DEF First
    <3> QED
      BY <2>1, <2>2, <3>3, <3>4
  <2>3. CASE ~(i <= M)
    <3>1. i \in (M + 1)..L /\ i \in 1..i
      BY <1>2, <2>3
    <3>2. Passed(E, i)
      BY <1>3, <3>1 DEF Passed
    <3>3. K[i] = K[i - 1]
      BY <1>6, <3>2
    <3>4. First(E, IF i - 1 <= M THEN i - 1 ELSE M) = First(E, M)
      <4>1. (IF i - 1 <= M THEN i - 1 ELSE M) = M
        BY <1>2, <2>3
      <4> QED
        BY <4>1
    <3> QED
      BY <1>8, <2>1, <2>3, <3>3, <3>4
  <2> QED
    BY <2>2, <2>3
<1>9. L \in T
  <2> HIDE DEF T
  <2>1. 0..L \subseteq T
    BY <1>1, <1>7, <1>8, UpTo
  <2> QED
    BY <1>1, <2>1
<1>10. K[L] = First(E, M)
  <2>1. (IF L <= M THEN L ELSE M) = M
    BY <1>1, <1>2, <1>3
  <2> QED
    BY <1>9, <2>1
<1>11. Payload(E) = First(E, M)
    BY <1>4, <1>10 DEF Payload, K
<1>12. Unpadded(E) = First(E, M)
    BY <1>1, <1>3, <1>5, UnpaddedIs
<1>13. /\ Len(First(E, M)) = M
       /\ ToSet(First(E, M)) \subseteq ToSet(Standard)
  <2>1. First(E, M) \in [1..M -> Byte] /\ DOMAIN First(E, M) = 1..M
        /\ \A k \in 1..M : First(E, M)[k] = E[k]
    <3>1. \A k \in 1..M : k \in 1..L
      BY <1>1, <1>3
    <3> QED
      BY <1>3, <3>1 DEF First
  <2>2. Len(First(E, M)) = M
    BY <1>2, <2>1, SeqIs
  <2>3. ToSet(First(E, M)) \subseteq ToSet(Standard)
    <3>1. ASSUME NEW x \in ToSet(First(E, M)) PROVE x \in ToSet(Standard)
      <4>1. PICK k \in 1..M : x = First(E, M)[k]
        BY <2>1 DEF ToSet
      <4> QED
        BY <1>5, <2>1, <4>1
    <3> QED
      BY <3>1
  <2> QED
    BY <2>2, <2>3
<1> QED
    BY <1>4, <1>11, <1>12, <1>13

\* base64_decode undoes base64_encode.
LEMMA DecodedBack ==
    ASSUME NEW v \in Seq(Byte)
    PROVE  base64_decode(base64_encode(v)) = [ok |-> TRUE, out |-> v]
<1> DEFINE E == base64_encode(v)
           M == Filled(Len(v))
           d == DecodeScan(E)[Len(E)]
           P == Payload(E)
           B == BitsOf(SextetsOf(P, Standard), 6)
           N == Len(v)
<1>1. /\ E \in Seq(Byte) /\ P = Unpadded(E) /\ Len(P) = M
      /\ ToSet(P) \subseteq ToSet(Standard)
    BY PayloadEncoded
<1>2. Represents(P, Standard, v)
    BY <1>1, EncodedRepresents
<1>3. N \in Nat
    OBVIOUS
<1>4. M % 4 # 1
  <2> DEFINE g == N \div 3
  <2>1. N % 3 = 0 \/ N % 3 = 1 \/ N % 3 = 2
    BY <1>3
  <2>2. M = 4 * g \/ M = 4 * g + 2 \/ M = 4 * g + 3
    BY <1>3, <2>1, FilledIs
  <2>3. g \in Nat
    BY <1>3
  <2> HIDE DEF g, M
  <2> QED
    BY <2>2, <2>3
<1>5. base64_decode(E) = IF Decodable(d) THEN [ok |-> TRUE, out |-> d.out] ELSE Refused
    BY DEF base64_decode
<1>6. Decodable(d)
  <2> SUFFICES ASSUME ~Decodable(d) PROVE FALSE
    OBVIOUS
  <2>1. \E i \in (8 * (Len(B) \div 8) + 1)..Len(B) : B[i] = 1
    <3>1. \/ Len(P) % 4 = 1
          \/ \E i \in (8 * (Len(B) \div 8) + 1)..Len(B) : B[i] = 1
      BY <1>1, RefusedIs
    <3> QED
      BY <1>1, <1>4, <3>1
  <2>2. PICK i \in (8 * (Len(B) \div 8) + 1)..Len(B) : B[i] = 1
    BY <2>1
  <2>3. /\ Len(B) \in (8 * N)..(8 * N + 5)
        /\ \A j \in 1..Len(B) : j > 8 * N => B[j] = 0
    <3>1. Len(BitsOf(v, 8)) = 8 * N
      BY BitsOfBytes
    <3>2. /\ Len(B) \in Len(BitsOf(v, 8))..(Len(BitsOf(v, 8)) + 5)
          /\ \A j \in 1..Len(B) :
                B[j] = IF j <= Len(BitsOf(v, 8)) THEN BitsOf(v, 8)[j] ELSE 0
      BY <1>2 DEF Represents
    <3> HIDE DEF B
    <3> QED
      BY <1>3, <3>1, <3>2
  <2> HIDE DEF B, N
  <2>4. i \in 1..Len(B) /\ i > 8 * N
    BY <1>3, <2>2, <2>3
  <2> QED
    BY <2>2, <2>3, <2>4
<1>7. d.out \in Seq(Byte) /\ Represents(P, Standard, d.out)
    BY <1>1, <1>6, AcceptedIs
<1>8. d.out = v
    BY <1>2, <1>7, RepresentsOne
<1> QED
    BY <1>5, <1>6, <1>8

\* The characters of a path segment.
Safe == Unreserved \cup {Percent}

\* They are bytes, and none that is not escaped starts an escape.
LEMMA SafeBytes == Safe \subseteq Byte /\ Percent \notin Unreserved
BY DEF Safe, Byte, Unreserved, Upper, Lower, Figures, Minus, Underscore, Percent

\* A hexadecimal digit is a safe character, and read back.
LEMMA HexDigitIs ==
    ASSUME NEW x \in 0..15
    PROVE  HexDigit[1 + x] \in Safe /\ Hex(HexDigit[1 + x]) = x
<1>1. ASSUME NEW k \in 1..16
      PROVE  /\ k <= 10 => HexDigit[k] = 47 + k
             /\ ~(k <= 10) => HexDigit[k] = 54 + k
    BY DEF HexDigit
<1>2. ASSUME NEW k \in 1..16 PROVE HexDigit[k] \in 48..57 \cup 65..90
  <2>1. CASE k <= 10
    BY <1>1, <2>1
  <2>2. CASE ~(k <= 10)
    BY <1>1, <2>2
  <2> QED
    BY <2>1, <2>2
<1>3. ASSUME NEW k \in 1..16, NEW l \in 1..16, HexDigit[k] = HexDigit[l]
      PROVE  k = l
    BY <1>1, <1>3
<1>4. 1 + x \in 1..16
    OBVIOUS
<1>5. (CHOOSE k \in 1..16 : HexDigit[k] = HexDigit[1 + x]) = 1 + x
    BY <1>3, <1>4
<1> DEFINE found == CHOOSE k \in 1..16 : HexDigit[k] = HexDigit[1 + x]
<1>6. Hex(HexDigit[1 + x]) = found - 1
    BY DEF Hex
<1> HIDE DEF found
<1>7. found = 1 + x
    BY <1>5 DEF found
<1>8. Hex(HexDigit[1 + x]) = x
    BY <1>6, <1>7
<1> QED
    BY <1>2, <1>4, <1>8 DEF Safe, Unreserved, Figures, Upper

\* An escape is one unreserved character or a triplet.
High(c) == c \div 16
Low(c) == c % 16

\* The two hexadecimal digits of a byte.
LEMMA Halves ==
    ASSUME NEW c \in Byte
    PROVE  High(c) \in 0..15 /\ Low(c) \in 0..15 /\ 16 * High(c) + Low(c) = c
BY DEF Byte, High, Low

\* e stands for c: the character itself or a triplet.
IsEscape(c, e) ==
    \/ /\ c \in Unreserved /\ e \in [1..1 -> Safe] /\ e[1] = c
    \/ /\ e \in [1..3 -> Safe] /\ e[1] = Percent
       /\ 16 * Hex(e[2]) + Hex(e[3]) = c

\* What is written for a byte stands for it.
LEMMA EscapedIs ==
    ASSUME NEW c \in Byte
    PROVE  IsEscape(c, Escaped(c))
<1> DEFINE e == Escaped(c)
<1>1. CASE c \in Unreserved
  <2>1. e = <<c>> /\ c \in Safe
    BY <1>1 DEF Escaped, Safe
  <2> QED
    BY <1>1, <2>1 DEF IsEscape
<1>2. CASE c \notin Unreserved
  <2> DEFINE x == HexDigit[1 + High(c)]
             y == HexDigit[1 + Low(c)]
  <2>1. e = <<Percent, x, y>>
    BY <1>2 DEF Escaped, High, Low
  <2>2. /\ x \in Safe /\ Hex(x) = High(c)
        /\ y \in Safe /\ Hex(y) = Low(c)
    BY Halves, HexDigitIs
  <2>3. Percent \in Safe
    BY DEF Safe
  <2> HIDE DEF x, y, e
  <2>4. /\ e \in [1..3 -> Safe] /\ e[1] = Percent /\ e[2] = x /\ e[3] = y
    BY <2>1, <2>2, <2>3
  <2>5. 16 * Hex(e[2]) + Hex(e[3]) = c
    BY <2>2, <2>4, Halves
  <2> QED
    BY <2>4, <2>5 DEF e, IsEscape
<1> QED
    BY <1>1, <1>2

\* It is of safe characters only.
LEMMA EscapedType ==
    ASSUME NEW c \in Byte
    PROVE  Escaped(c) \in Seq(Safe)
<1>1. Escaped(c) \in [1..1 -> Safe] \/ Escaped(c) \in [1..3 -> Safe]
    BY EscapedIs DEF IsEscape
<1> QED
    BY <1>1, SeqIs

\* The course of percent_encode, step by step.
LEMMA EncodeScanIs ==
    ASSUME NEW t \in Seq(Byte)
    PROVE  /\ EncodeScan(t) \in [0..Len(t) -> Seq(Safe)]
           /\ EncodeScan(t)[0] = <<>>
           /\ \A i \in 1..Len(t) :
                EncodeScan(t)[i] = EncodeScan(t)[i - 1] \o Escaped(t[i])
<1> DEFINE N == Len(t)
           S == Seq(Safe)
           After(f, i) == IF i = 0 THEN <<>> ELSE f[i - 1] \o Escaped(t[i])
           Course(f) == f = [i \in 0..N |-> After(f, i)]
           step == [p \in S \X (1..N) |-> p[1] \o Escaped(t[p[2]])]
           F == EncodeScan(t)
           T == {i \in 0..N : F[i] \in S}
<1>1. N \in Nat /\ <<>> \in S /\ \A i \in 1..N : t[i] \in Byte
    OBVIOUS
<1>2. ASSUME NEW p \in S, NEW i \in 1..N PROVE p \o Escaped(t[i]) \in S
  <2> DEFINE e == Escaped(t[i])
  <2>1. e \in S
    BY <1>1, EscapedType
  <2> HIDE DEF e
  <2>2. p \o e \in S
    BY <2>1, ConcatProperties
  <2> QED
    BY <2>2 DEF e
<1>3. step \in [S \X (1..N) -> S]
  <2> HIDE DEF N, S
  <2> QED
    BY <1>2
<1>4. PICK f : IsCourse(f, N, S, <<>>, step)
  <2> HIDE DEF step, N, S
  <2> QED
    BY <1>1, <1>3, CourseExists
<1>5. /\ f \in [0..N -> S] /\ f[0] = <<>>
      /\ \A i \in 1..N : f[i] = f[i - 1] \o Escaped(t[i])
  <2>1. /\ f \in [0..N -> S] /\ f[0] = <<>>
        /\ \A i \in 1..N : f[i] = step[<<f[i - 1], i>>]
    BY <1>4 DEF IsCourse
  <2> HIDE DEF S, N
  <2>2. ASSUME NEW i \in 1..N PROVE f[i] = f[i - 1] \o Escaped(t[i])
    <3>1. f[i - 1] \in S
      BY <1>1, <2>1
    <3> DEFINE p == <<f[i - 1], i>>
    <3>2. p \in S \X (1..N) /\ p[1] = f[i - 1] /\ p[2] = i
      BY <3>1
    <3> HIDE DEF p
    <3> QED
      BY <2>1, <3>2 DEF p
  <2> QED
    BY <2>1, <2>2
<1>6. ASSUME NEW i \in 0..N PROVE f[i] = After(f, i)
  <2> HIDE DEF step, N, S
  <2>1. CASE i = 0
    BY <1>5, <2>1
  <2>2. CASE i # 0
    <3>1. i \in 1..N
      BY <1>1, <2>2
    <3> QED
      BY <1>5, <2>2, <3>1, Zenon
  <2> QED
    BY <2>1, <2>2
<1>7. Course(f)
  <2> HIDE DEF After, S
  <2> QED
    BY <1>5, <1>6
<1>8. Course(F)
    BY <1>7, Zenon DEF EncodeScan
<1> HIDE DEF F, S
<1>9. /\ DOMAIN F = 0..N /\ F = [i \in 0..N |-> F[i]] /\ F[0] = <<>>
      /\ \A i \in 1..N : F[i] = F[i - 1] \o Escaped(t[i])
  <2>1. DOMAIN F = 0..N /\ F = [i \in 0..N |-> F[i]]
    <3> HIDE DEF After
    <3> QED
      BY <1>8
  <2>2. \A i \in 0..N : F[i] = After(F, i)
    <3> HIDE DEF After
    <3> QED
      BY <1>8
  <2> HIDE DEF N
  <2>3. F[0] = <<>>
    <3>1. 0 \in 0..N
      BY <1>1
    <3> QED
      BY <2>2, <3>1, Zenon
  <2>4. ASSUME NEW i \in 1..N PROVE F[i] = F[i - 1] \o Escaped(t[i])
    <3>1. i \in 0..N /\ i # 0
      BY <1>1
    <3> QED
      BY <2>2, <3>1, Zenon
  <2> QED
    BY <2>1, <2>3, <2>4
<1>10. 0 \in T
    BY <1>1, <1>9
<1>11. ASSUME NEW i \in 1..N, i - 1 \in T PROVE i \in T
  <2>1. F[i] = F[i - 1] \o Escaped(t[i])
    BY <1>9
  <2>2. F[i - 1] \in S /\ i \in 0..N
    BY <1>11
  <2> QED
    BY <1>2, <2>1, <2>2
<1> HIDE DEF T
<1>12. 0..N \subseteq T
    BY <1>1, <1>10, <1>11, UpTo
<1> QED
    BY <1>9, <1>12 DEF T, F, S

\* Nothing is read.
ReadStart == [skip |-> 0, out |-> <<>>]

\* What a reader can take for an octet of a text.
Octets(t) ==
    {t[i] : i \in 1..Len(t)}
        \cup {16 * Hex(t[i + 1]) + Hex(t[i + 2]) : i \in 1..Len(t)}

\* What the reader of a text can have read.
ReadStates(t) == [skip : 0..2, out : Seq(Octets(t))]

\* Every character leads from state to state.
LEMMA ReadStepType ==
    ASSUME NEW t, NEW i \in 1..Len(t), NEW s \in ReadStates(t)
    PROVE  ReadStep(s, t, i) \in ReadStates(t)
<1> DEFINE Z == Octets(t)
           x == 16 * Hex(t[i + 1]) + Hex(t[i + 2])
<1>1. t[i] \in Z /\ x \in Z
    BY DEF Octets
<1>2. s \in [skip : 0..2, out : Seq(Z)]
    BY DEF ReadStates
<1>3. /\ s.skip > 0 => ReadStep(s, t, i) = [s EXCEPT !.skip = @ - 1]
      /\ ~(s.skip > 0) /\ t[i] # Percent =>
            ReadStep(s, t, i) = [s EXCEPT !.out = Append(@, t[i])]
      /\ ~(s.skip > 0) /\ ~(t[i] # Percent) =>
            ReadStep(s, t, i) = [skip |-> 2, out |-> Append(s.out, x)]
    BY Zenon DEF ReadStep
<1> HIDE DEF Z, x
<1>4. Append(s.out, t[i]) \in Seq(Z) /\ Append(s.out, x) \in Seq(Z)
    BY <1>1, <1>2
<1>5. CASE s.skip > 0
  <2>1. s.skip - 1 \in 0..2
    BY <1>2, <1>5
  <2> QED
    BY <1>2, <1>3, <1>5, <2>1 DEF ReadStates, Z
<1>6. CASE ~(s.skip > 0) /\ t[i] # Percent
  <2>1. [s EXCEPT !.out = Append(@, t[i])] \in [skip : 0..2, out : Seq(Z)]
    BY <1>2, <1>4
  <2> QED
    BY <1>3, <1>6, <2>1 DEF ReadStates, Z
<1>7. CASE ~(s.skip > 0) /\ ~(t[i] # Percent)
  <2>1. [skip |-> 2, out |-> Append(s.out, x)] \in [skip : 0..2, out : Seq(Z)]
    BY <1>4
  <2> QED
    BY <1>3, <1>7, <2>1 DEF ReadStates, Z
<1> QED
    BY <1>5, <1>6, <1>7

\* The course of the reader, step by step.
LEMMA ReadScanIs ==
    ASSUME NEW C, NEW t \in Seq(C)
    PROVE  /\ ReadScan(t)[0] = ReadStart
           /\ \A i \in 1..Len(t) :
                ReadScan(t)[i] = ReadStep(ReadScan(t)[i - 1], t, i)
<1> DEFINE N == Len(t)
           S == ReadStates(t)
           After(f, i) == IF i = 0 THEN ReadStart ELSE ReadStep(f[i - 1], t, i)
           Course(f) == f = [i \in 0..N |-> After(f, i)]
           step == [p \in S \X (1..N) |-> ReadStep(p[1], t, p[2])]
           F == ReadScan(t)
<1>1. N \in Nat /\ ReadStart \in S
    BY DEF ReadStart, ReadStates
<1>2. \A s \in S : \A i \in 1..N : ReadStep(s, t, i) \in S
    BY ReadStepType
<1>3. step \in [S \X (1..N) -> S]
  <2> HIDE DEF N, S
  <2> QED
    BY <1>2
<1>4. PICK f : IsCourse(f, N, S, ReadStart, step)
  <2> HIDE DEF step, N, S
  <2> QED
    BY <1>1, <1>3, CourseExists
<1>5. /\ f \in [0..N -> S] /\ f[0] = ReadStart
      /\ \A i \in 1..N : f[i] = ReadStep(f[i - 1], t, i)
  <2>1. /\ f \in [0..N -> S] /\ f[0] = ReadStart
        /\ \A i \in 1..N : f[i] = step[<<f[i - 1], i>>]
    BY <1>4 DEF IsCourse
  <2> HIDE DEF S, N
  <2>2. ASSUME NEW i \in 1..N PROVE f[i] = ReadStep(f[i - 1], t, i)
    <3>1. f[i - 1] \in S
      BY <1>1, <2>1
    <3> DEFINE p == <<f[i - 1], i>>
    <3>2. p \in S \X (1..N) /\ p[1] = f[i - 1] /\ p[2] = i
      BY <3>1
    <3> HIDE DEF p
    <3> QED
      BY <2>1, <3>2 DEF p
  <2> QED
    BY <2>1, <2>2
<1>6. ASSUME NEW i \in 0..N PROVE f[i] = After(f, i)
  <2> HIDE DEF step, N, S
  <2>1. CASE i = 0
    BY <1>5, <2>1
  <2>2. CASE i # 0
    <3>1. i \in 1..N
      BY <1>1, <2>2
    <3> QED
      BY <1>5, <2>2, <3>1, Zenon
  <2> QED
    BY <2>1, <2>2
<1>7. Course(f)
  <2> HIDE DEF After, S
  <2> QED
    BY <1>5, <1>6
<1>8. Course(F)
    BY <1>7, Zenon DEF ReadScan, ReadStart
<1> HIDE DEF F, S
<1>9. \A i \in 0..N : F[i] = After(F, i)
    <2> HIDE DEF After
    <2> QED
      BY <1>8
<1> HIDE DEF N
<1>10. F[0] = ReadStart
  <2>1. 0 \in 0..N
    BY <1>1
  <2> QED
    BY <1>9, <2>1, Zenon
<1>11. ASSUME NEW i \in 1..N PROVE F[i] = ReadStep(F[i - 1], t, i)
  <2>1. i \in 0..N /\ i # 0
    BY <1>1
  <2> QED
    BY <1>9, <2>1, Zenon
<1> QED
    BY <1>10, <1>11 DEF N, F

\* A text that another begins with.
Begins(p, t) == Len(p) <= Len(t) /\ \A k \in 1..Len(p) : t[k] = p[k]

\* What has been written stays.
LEMMA EncodeScanGrows ==
    ASSUME NEW v \in Seq(Byte), NEW i \in 0..Len(v)
    PROVE  Begins(EncodeScan(v)[i], percent_encode(v))
<1> DEFINE N == Len(v)
           O == EncodeScan(v)
           T == {n \in 0..N : i <= n => Begins(O[i], O[n])}
<1>1. /\ O \in [0..N -> Seq(Safe)]
      /\ \A n \in 1..N : O[n] = O[n - 1] \o Escaped(v[n])
    BY EncodeScanIs
<1>2. N \in Nat /\ i \in 0..N
    OBVIOUS
<1>3. \A n \in 1..N : Escaped(v[n]) \in Seq(Safe)
    BY EscapedType
<1> HIDE DEF O, N
<1>4. ASSUME NEW n \in 0..N PROVE O[n] \in Seq(Safe)
    BY <1>1
<1>5. Begins(O[i], O[i])
    BY <1>2, <1>4 DEF Begins
<1>6. 0 \in T
  <2>1. i <= 0 => i = 0
    BY <1>2
  <2>2. 0 \in 0..N
    BY <1>2
  <2> QED
    BY <1>5, <2>1, <2>2
<1>7. ASSUME NEW n \in 1..N, n - 1 \in T PROVE n \in T
  <2>1. n \in 0..N /\ n - 1 \in 0..N
    BY <1>2
  <2>2. CASE i = n
    BY <1>5, <2>1, <2>2
  <2>3. CASE i # n
    <3> SUFFICES ASSUME i <= n PROVE Begins(O[i], O[n])
      BY <2>1
    <3>1. i <= n - 1
      BY <1>2, <2>1, <2>3
    <3>2. Begins(O[i], O[n - 1])
      BY <1>7, <3>1
    <3> DEFINE p == O[i]
               a == O[n - 1]
               b == O[n]
               e == Escaped(v[n])
    <3>3. /\ p \in Seq(Safe) /\ a \in Seq(Safe) /\ e \in Seq(Safe) /\ b = a \o e
          /\ Begins(p, a)
      BY <1>1, <1>2, <1>3, <1>4, <2>1, <3>2
    <3> HIDE DEF p, a, b, e
    <3>4. /\ Len(b) = Len(a) + Len(e)
          /\ \A k \in 1..(Len(a) + Len(e)) : b[k] = IF k <= Len(a) THEN a[k] ELSE e[k - Len(a)]
      BY <3>3, ConcatProperties
    <3>5. Len(p) \in Nat /\ Len(a) \in Nat /\ Len(e) \in Nat
      BY <3>3
    <3>6. Begins(p, b)
      BY <3>3, <3>4, <3>5 DEF Begins
    <3> QED
      BY <3>6 DEF p, b
  <2> QED
    BY <2>2, <2>3
<1>8. 0..N \subseteq T
  <2> HIDE DEF T
  <2> QED
    BY <1>2, <1>6, <1>7, UpTo
<1>9. Begins(O[i], O[N])
    BY <1>2, <1>8
<1> QED
    BY <1>9 DEF O, N, percent_encode

\* The reader has read so many octets and is within none.
HasUnescaped(s, v, i) == s = [skip |-> 0, out |-> First(v, i)]

\* The reader at place i, with m characters to skip and o read so far.
IsReadStep(m, o, t, i, x, e) ==
    /\ m > 0 => e = [skip |-> m - 1, out |-> o]
    /\ m = 0 /\ t[i] # Percent => e = [skip |-> 0, out |-> Append(o, t[i])]
    /\ m = 0 /\ t[i] = Percent => e = [skip |-> 2, out |-> Append(o, x)]

\* That is what a step of the reader does.
LEMMA ReadStepIs ==
    ASSUME NEW m \in Nat, NEW o, NEW s, s = [skip |-> m, out |-> o],
           NEW t, NEW i, NEW x, x = 16 * Hex(t[i + 1]) + Hex(t[i + 2]),
           NEW e, e = ReadStep(s, t, i)
    PROVE  IsReadStep(m, o, t, i, x, e)
<1>1. s.skip = m /\ s.out = o
    OBVIOUS
<1>2. /\ s.skip > 0 => e = [s EXCEPT !.skip = @ - 1]
      /\ ~(s.skip > 0) /\ t[i] # Percent => e = [s EXCEPT !.out = Append(@, t[i])]
      /\ ~(s.skip > 0) /\ ~(t[i] # Percent) => e = [skip |-> 2, out |-> Append(s.out, x)]
    BY Zenon DEF ReadStep
<1>3. m = 0 => ~(m > 0)
    OBVIOUS
<1>4. /\ [s EXCEPT !.skip = @ - 1] = [skip |-> m - 1, out |-> o]
      /\ m = 0 => [s EXCEPT !.out = Append(@, t[i])] = [skip |-> 0, out |-> Append(o, t[i])]
    OBVIOUS
<1> QED
    BY <1>1, <1>2, <1>3, <1>4 DEF IsReadStep

\* One more octet is read at the end of its escape.
LEMMA UnescapedNext ==
    ASSUME NEW v \in Seq(Byte), NEW i \in 1..Len(v), NEW W \in Seq(Safe), NEW L \in Nat,
           NEW e, IsEscape(v[i], e), L + Len(e) <= Len(W),
           \A k \in 1..Len(e) : W[L + k] = e[k],
           NEW R, \A k \in 1..Len(W) : R[k] = ReadStep(R[k - 1], W, k),
           HasUnescaped(R[L], v, i - 1)
    PROVE  HasUnescaped(R[L + Len(e)], v, i)
<1> DEFINE o == First(v, i - 1)
           c == v[i]
<1>1. First(v, i) = Append(o, c)
    BY DEF First
<1>2. c \in Byte /\ Len(W) \in Nat
    OBVIOUS
<1>3. R[L] = [skip |-> 0, out |-> o]
    BY DEF HasUnescaped
<1>0. 0 \in Nat /\ 1 \in Nat /\ 2 \in Nat /\ 2 > 0 /\ 1 > 0 /\ 2 - 1 = 1 /\ 1 - 1 = 0
    OBVIOUS
<1> HIDE DEF o, c
<1>4. ASSUME c \in Unreserved, e \in [1..1 -> Safe], e[1] = c
      PROVE  HasUnescaped(R[L + Len(e)], v, i)
  <2>1. Len(e) = 1
    BY <1>4, SeqIs
  <2>2. L + 1 \in 1..Len(W) /\ (L + 1) - 1 = L /\ 1 \in 1..1
    BY <1>2, <2>1
  <2>3. R[L + 1] = ReadStep(R[L], W, L + 1)
    BY <2>2
  <2>4. W[L + 1] = c /\ c # Percent
    BY <1>4, <2>1, <2>2, SafeBytes
  <2>6. R[L + 1] = [skip |-> 0, out |-> Append(o, c)]
    <3> DEFINE k == L + 1
               x == 16 * Hex(W[k + 1]) + Hex(W[k + 2])
               s == R[L]
    <3>1. s = [skip |-> 0, out |-> o] /\ R[k] = ReadStep(s, W, k)
      BY <1>3, <2>3
    <3>2. x = 16 * Hex(W[k + 1]) + Hex(W[k + 2])
      OBVIOUS
    <3> HIDE DEF x, k, s
    <3>3. IsReadStep(0, o, W, k, x, R[k])
      BY <1>0, <3>1, <3>2, ReadStepIs
    <3> QED
      BY <2>4, <3>3 DEF IsReadStep, k
  <2> QED
    BY <1>1, <2>1, <2>6 DEF HasUnescaped
<1>5. ASSUME e \in [1..3 -> Safe], e[1] = Percent, 16 * Hex(e[2]) + Hex(e[3]) = c
      PROVE  HasUnescaped(R[L + Len(e)], v, i)
  <2>1. Len(e) = 3
    BY <1>5, SeqIs
  <2>2. /\ L + 1 \in 1..Len(W) /\ (L + 1) - 1 = L
        /\ L + 2 \in 1..Len(W) /\ (L + 2) - 1 = L + 1 /\ (L + 1) + 1 = L + 2
        /\ L + 3 \in 1..Len(W) /\ (L + 3) - 1 = L + 2 /\ (L + 1) + 2 = L + 3
        /\ 1 \in 1..3 /\ 2 \in 1..3 /\ 3 \in 1..3
    BY <1>2, <2>1
  <2>3. /\ R[L + 1] = ReadStep(R[L], W, L + 1)
        /\ R[L + 2] = ReadStep(R[L + 1], W, L + 2)
        /\ R[L + 3] = ReadStep(R[L + 2], W, L + 3)
    BY <2>2
  <2>4. W[L + 1] = Percent /\ W[L + 2] = e[2] /\ W[L + 3] = e[3]
    BY <1>5, <2>1, <2>2
  <2>5. R[L + 1] = [skip |-> 2, out |-> Append(o, c)]
    <3> DEFINE k == L + 1
               x == 16 * Hex(W[k + 1]) + Hex(W[k + 2])
               s == R[L]
    <3>1. /\ s = [skip |-> 0, out |-> o] /\ R[k] = ReadStep(s, W, k)
          /\ x = c
      BY <1>3, <1>5, <2>2, <2>3, <2>4
    <3>2. x = 16 * Hex(W[k + 1]) + Hex(W[k + 2])
      OBVIOUS
    <3> HIDE DEF x, k, s
    <3>3. IsReadStep(0, o, W, k, x, R[k])
      BY <1>0, <3>1, <3>2, ReadStepIs
    <3> QED
      BY <2>4, <3>1, <3>3 DEF IsReadStep, k
  <2>6. R[L + 2] = [skip |-> 1, out |-> Append(o, c)]
    <3> DEFINE k == L + 2
               x == 16 * Hex(W[k + 1]) + Hex(W[k + 2])
               s == R[L + 1]
    <3>1. s = [skip |-> 2, out |-> Append(o, c)] /\ R[k] = ReadStep(s, W, k)
      BY <2>3, <2>5
    <3>2. x = 16 * Hex(W[k + 1]) + Hex(W[k + 2])
      OBVIOUS
    <3> HIDE DEF x, k, s
    <3>3. IsReadStep(2, Append(o, c), W, k, x, R[k])
      BY <1>0, <3>1, <3>2, ReadStepIs
    <3> QED
      BY <1>0, <3>3 DEF IsReadStep, k
  <2>7. R[L + 3] = [skip |-> 0, out |-> Append(o, c)]
    <3> DEFINE k == L + 3
               x == 16 * Hex(W[k + 1]) + Hex(W[k + 2])
               s == R[L + 2]
    <3>1. s = [skip |-> 1, out |-> Append(o, c)] /\ R[k] = ReadStep(s, W, k)
      BY <2>3, <2>6
    <3>2. x = 16 * Hex(W[k + 1]) + Hex(W[k + 2])
      OBVIOUS
    <3> HIDE DEF x, k, s
    <3>3. IsReadStep(1, Append(o, c), W, k, x, R[k])
      BY <1>0, <3>1, <3>2, ReadStepIs
    <3> QED
      BY <1>0, <3>3 DEF IsReadStep, k
  <2> QED
    BY <1>1, <2>1, <2>7 DEF HasUnescaped
<1> QED
    BY <1>4, <1>5 DEF IsEscape, c

\* A path segment is read back, and has no character that needs an escape.
LEMMA PercentRestores ==
    ASSUME NEW v \in Seq(Byte)
    PROVE  /\ PercentDecoded(percent_encode(v)) = v
           /\ ToSet(percent_encode(v)) \subseteq Unreserved \cup {Percent}
<1> DEFINE N == Len(v)
           O == EncodeScan(v)
           W == percent_encode(v)
           R == ReadScan(W)
           T == {i \in 0..N : HasUnescaped(R[Len(O[i])], v, i)}
<1>1. /\ O \in [0..N -> Seq(Safe)] /\ O[0] = <<>>
      /\ \A i \in 1..N : O[i] = O[i - 1] \o Escaped(v[i])
      /\ W = O[N]
    BY EncodeScanIs DEF percent_encode
<1>2. N \in Nat
    OBVIOUS
<1>3. ASSUME NEW i \in 0..N PROVE O[i] \in Seq(Safe) /\ Begins(O[i], W)
    BY <1>1, EncodeScanGrows
<1>4. W \in Seq(Safe)
    BY <1>1, <1>2
<1> HIDE DEF W
<1>5. R[0] = ReadStart /\ \A k \in 1..Len(W) : R[k] = ReadStep(R[k - 1], W, k)
    BY <1>4, ReadScanIs
<1>6. ASSUME NEW i \in 1..N PROVE IsEscape(v[i], Escaped(v[i])) /\ Escaped(v[i]) \in Seq(Safe)
    BY EscapedIs, EscapedType
<1> HIDE DEF O, R
<1>7. 0 \in T
  <2>1. First(v, 0) = <<>> /\ Len(O[0]) = 0
    BY <1>1 DEF First
  <2>2. 0 \in 0..N
    BY <1>2
  <2> QED
    BY <1>5, <2>1, <2>2 DEF HasUnescaped, ReadStart
<1>8. ASSUME NEW i \in 1..N, i - 1 \in T PROVE i \in T
  <2> DEFINE a == O[i - 1]
             b == O[i]
             e == Escaped(v[i])
             L == Len(a)
  <2>1. i \in 0..N /\ i - 1 \in 0..N
    BY <1>2
  <2>2. /\ a \in Seq(Safe) /\ e \in Seq(Safe) /\ b = a \o e
        /\ Begins(b, W) /\ IsEscape(v[i], e) /\ HasUnescaped(R[L], v, i - 1)
    BY <1>1, <1>3, <1>6, <1>8, <2>1
  <2>3. i \in 1..Len(v)
    OBVIOUS
  <2> HIDE DEF a, b, e
  <2>4. /\ L \in Nat /\ Len(e) \in Nat /\ Len(b) = L + Len(e)
        /\ \A k \in 1..(Len(a) + Len(e)) : b[k] = IF k <= Len(a) THEN a[k] ELSE e[k - Len(a)]
    BY <2>2, ConcatProperties
  <2> HIDE DEF L
  <2>5. ASSUME NEW k \in 1..Len(e) PROVE W[L + k] = e[k]
    <3> DEFINE j == L + k
    <3>1. /\ j \in 1..(L + Len(e)) /\ ~(j <= L) /\ j - L = k
      BY <2>4
    <3> HIDE DEF j
    <3>2. b[j] = e[j - L]
      BY <2>4, <3>1 DEF L
    <3>3. W[j] = b[j]
      BY <2>2, <2>4, <3>1 DEF Begins
    <3> QED
      BY <3>1, <3>2, <3>3 DEF j
  <2>6. L + Len(e) <= Len(W)
    BY <2>2, <2>4 DEF Begins
  <2>7. HasUnescaped(R[L + Len(e)], v, i)
    BY <1>4, <1>5, <2>2, <2>3, <2>4, <2>5, <2>6, UnescapedNext
  <2>8. HasUnescaped(R[Len(O[i])], v, i)
    BY <2>4, <2>7 DEF b
  <2> QED
    BY <2>1, <2>8
<1>9. N \in T
  <2> HIDE DEF T
  <2>1. 0..N \subseteq T
    BY <1>2, <1>7, <1>8, UpTo
  <2> QED
    BY <1>2, <2>1
<1>10. PercentDecoded(W) = First(v, N)
    BY <1>1, <1>9 DEF PercentDecoded, R, HasUnescaped
<1>11. First(v, N) = v
    BY DEF First
<1>12. ToSet(W) \subseteq Unreserved \cup {Percent}
    BY <1>4 DEF ToSet, Safe
<1> QED
    BY <1>10, <1>11, <1>12 DEF W

\* base64.hpp:9-11, url.hpp:8-11 and 29-34, of any bytes: what is encoded can be
\* read back, from either alphabet, by base64_decode and from a path segment.
THEOREM EncodingsExact ==
    ASSUME NEW v \in Seq(Byte)
    PROVE  /\ Represents(Unpadded(base64_encode(v)), Standard, v)
           /\ Len(base64_encode(v)) % 4 = 0
           /\ Represents(base64url_encode(v), UrlSafe, v)
           /\ ~Contains(base64url_encode(v), Equals)
           /\ base64_decode(base64_encode(v)) = [ok |-> TRUE, out |-> v]
           /\ PercentDecoded(percent_encode(v)) = v
           /\ ToSet(percent_encode(v)) \subseteq Unreserved \cup {Percent}
BY EncodedRepresents, UrlEncodedRepresents, DecodedBack, PercentRestores

-----------------------------------------------------------------------------

\* The theorems on texts as invariants of the runs.

\* A text is of the characters of its kind.
TextInv == kind \in DOMAIN Alphabet => text \in Seq(Alphabet[kind])

\* Text grows by characters of its kind only.
LEMMA TextSafe == Spec => []TextInv
<1>1. Init => TextInv
    BY DEF Init, TextInv
<1>2. TextInv /\ [Next]_vars => TextInv'
  <2> SUFFICES ASSUME TextInv, [Next]_vars PROVE TextInv'
    OBVIOUS
  <2>1. CASE Grow
    <3> DEFINE A == Alphabet[kind]
    <3>1. PICK c \in A : text' = Append(text, c)
      BY <2>1 DEF Grow
    <3>2. kind' = kind /\ kind \in DOMAIN Alphabet
      BY <2>1 DEF Grow
    <3>3. text \in Seq(A)
      BY <3>2 DEF TextInv
    <3> HIDE DEF A
    <3>4. text' \in Seq(A)
      BY <3>1, <3>3
    <3> QED
      BY <3>2, <3>4 DEF TextInv, A
  <2>2. CASE Spoil
    BY <2>2 DEF Spoil, TextInv
  <2>3. CASE UNCHANGED vars
    BY <2>3 DEF vars, TextInv
  <2> QED
    BY <2>1, <2>2, <2>3 DEF Next
<1> QED
    BY <1>1, <1>2, PTL DEF Spec

\* The texts that are encoded or decoded are of bytes.
LEMMA TextOfBytes ==
    ASSUME TextInv, kind \in {"byte", "bytes", "base64"}
    PROVE  text \in Seq(Byte)
<1>1. kind \in DOMAIN Alphabet
    BY DEF Alphabet
<1>2. Alphabet[kind] \subseteq Byte
  <2>1. CASE kind = "byte"
    <3>1. Alphabet["byte"] = 0..255
      BY DEF Alphabet
    <3> QED
      BY <2>1, <3>1 DEF Byte
  <2>2. CASE kind = "bytes"
    <3>1. Alphabet["bytes"] = {0, 1, 65, 128, 251, 255}
      BY DEF Alphabet
    <3> QED
      BY <2>2, <3>1 DEF Byte
  <2>3. CASE kind = "base64"
    <3>1. Alphabet["base64"] = {65, 66, 81, 122, 57, 43, 47, 45, 61, 10}
      BY DEF Alphabet, Plus, Slash, Minus, Equals
    <3> QED
      BY <2>3, <3>1 DEF Byte
  <2> QED
    BY <2>1, <2>2, <2>3
<1>3. text \in Seq(Alphabet[kind])
    BY <1>1 DEF TextInv
<1> QED
    BY <1>2, <1>3

(* base64.hpp:9-11, url.hpp:8-11 and 29-34: whatever is encoded can be read *)
(* back, in either alphabet, by base64_decode and from a path segment.      *)
THEOREM EncodingsAlwaysRestore == Spec => []EncodingsRestore
<1>1. TextInv => EncodingsRestore
  <2> SUFFICES ASSUME TextInv, kind \in {"byte", "bytes"} PROVE EncodingsRestore
    BY DEF EncodingsRestore
  <2>1. text \in Seq(Byte)
    BY TextOfBytes
  <2> QED
    BY <2>1, EncodingsExact DEF EncodingsRestore
<1> QED
    BY <1>1, TextSafe, PTL

(* base64.hpp:64-67 and 92-93: base64_decode accepts just the encodings of  *)
(* what it returns, and cuts none off in mid-byte.                          *)
THEOREM DecodeAlwaysExact == Spec => []DecodeIsExact
<1>1. TextInv => DecodeIsExact
  <2> SUFFICES ASSUME TextInv, kind = "base64" PROVE DecodeIsExact
    BY DEF DecodeIsExact
  <2>1. text \in Seq(Byte)
    BY TextOfBytes
  <2> QED
    BY <2>1, DecodingExact DEF DecodeIsExact
<1> QED
    BY <1>1, TextSafe, PTL

\* An IPv6 literal with a group has one to GroupLimit of them.
LEMMA LiteralHasGroups ==
    ASSUME NEW C, NEW t \in Seq(C), IsIPv6(t), GroupStarts(t) # {}
    PROVE  IsColonHex(t)
<1> DEFINE g == Cardinality(GroupStarts(t))
<1>1. g \in Nat /\ g # 0
  <2>1. GroupStarts(t) \subseteq 1..Len(t)
    BY DEF GroupStarts
  <2>2. IsFiniteSet(GroupStarts(t))
    <3>1. Len(t) \in Int /\ 1 \in Int
      OBVIOUS
    <3>2. IsFiniteSet(1..Len(t))
      BY <3>1, FS_Interval
    <3> QED
      BY <2>1, <3>2, FS_Subset
  <2> QED
    BY <2>2, FS_CardinalityType, FS_EmptySet
<1>2. /\ ":" \in ToSet(t) /\ ToSet(t) \subseteq HexDigits \cup {":"}
      /\ g <= GroupLimit
  <2> HIDE DEF g
  <2>1. g = GroupLimit \/ g < GroupLimit
    BY DEF IsIPv6, g
  <2> QED
    BY <1>1, <2>1, LimitAssumption DEF IsIPv6
<1> HIDE DEF g
<1>3. g \in 1..GroupLimit
  BY <1>1, <1>2, LimitAssumption
<1> QED
  BY <1>2, <1>3 DEF IsColonHex, g

(* client.cpp:339-344: the scanner of addresses accepts just the dotted     *)
(* quads of octets, refuses no IPv6 literal with a group in it, and accepts *)
(* nothing with another character or with too many groups.                  *)
THEOREM AddressesAlwaysAccepted == Spec => []AddressesAccepted
<1>1. TextInv => AddressesAccepted
  <2> SUFFICES ASSUME TextInv, kind \in {"quad", "colon"} PROVE AddressesAccepted
    BY DEF AddressesAccepted
  <2>1. text \in Seq(Alphabet[kind])
    BY DEF TextInv, Alphabet
  <2>2. is_valid_ip(text) <=> IsQuad(text) \/ IsColonHex(text)
    BY <2>1, AddressesExact
  <2>3. ASSUME kind = "quad"
        PROVE  ~IsColonHex(text)
    <3>1. text \in Seq({"2", "5", "6", "."})
      BY <2>1, <2>3 DEF Alphabet
    <3> QED
      BY <3>1 DEF IsColonHex, ToSet
  <2>4. ASSUME IsIPv6(text), GroupStarts(text) # {}
        PROVE  IsColonHex(text)
    BY <2>1, <2>4, LiteralHasGroups
  <2>5. ASSUME Contains(text, ":"), is_valid_ip(text)
        PROVE  IsColonHex(text)
    BY <2>1, <2>5, V6Exact DEF is_valid_ip
  <2>6. IsColonHex(text) =>
            /\ ToSet(text) \subseteq HexDigits \cup {":"}
            /\ Cardinality(GroupStarts(text)) <= GroupLimit
    <3> DEFINE g == Cardinality(GroupStarts(text))
    <3>1. IsColonHex(text) =>
            ToSet(text) \subseteq HexDigits \cup {":"} /\ g \in 1..GroupLimit
      BY DEF IsColonHex
    <3> HIDE DEF g
    <3>2. g \in 1..GroupLimit => g <= GroupLimit
      OBVIOUS
    <3> QED
      BY <3>1, <3>2 DEF g
  <2> QED
    BY <2>2, <2>3, <2>4, <2>5, <2>6, Zenon DEF AddressesAccepted
<1> QED
    BY <1>1, TextSafe, PTL

(* client.cpp:390-393: the scanner of domains accepts just the host names   *)
(* within the limits, and no address.                                       *)
THEOREM DomainsAlwaysAccepted == Spec => []DomainsAccepted
<1>1. TextInv => DomainsAccepted
  <2> SUFFICES ASSUME TextInv, kind \in {"domain", "quad"} PROVE DomainsAccepted
    BY DEF DomainsAccepted
  <2>1. text \in Seq(Alphabet[kind])
    BY DEF TextInv, Alphabet
  <2> QED
    BY <2>1, DomainsExact DEF DomainsAccepted
<1> QED
    BY <1>1, TextSafe, PTL

=============================================================================
