---------------------------- MODULE ClientCallsProofs ----------------------------
(***************************************************************************)
(* Machine-checked proofs about the calls of VirusTotal, for every method  *)
(* and for batches of any length.                                          *)
(***************************************************************************)
EXTENDS ClientCalls, EndpointsProofs, FiniteSetTheorems

\* What is left of a call when its next exchange has not been waited for.
Unpaced ==
    Shapes
        \cup {<<>>, <<"check_all">>, <<"store">>,
              <<"wait", "GET", "bytes", "store">>, <<"bytes", "store">>,
              <<"wait", "GET", "string", "wait", "POST", "lenient">>,
              <<"string", "wait", "POST", "lenient">>,
              <<"check", "wait", "POST", "lenient", "wait", "GET", "strict">>,
              <<"wait", "POST", "lenient", "wait", "GET", "strict">>,
              <<"lenient", "wait", "GET", "strict">>}
        \cup {<<d>> : d \in Decoders}
        \cup {<<"encode", "wait", v, d>> : v \in Verbs, d \in Decoders}

\* What is left when it has been.
Ready ==
    {<<"GET", "bytes", "store">>,
     <<"GET", "string", "wait", "POST", "lenient">>,
     <<"POST", "lenient", "wait", "GET", "strict">>}
        \cup {<<v, d>> : v \in Verbs, d \in Decoders}
        \cup {<<"encode", v, d>> : v \in Verbs, d \in Decoders}

StepNames ==
    Verbs \cup Decoders \cup {"check", "check_all", "encode", "wait", "store"}

Changing == Verbs \ {"GET"}

Mutates(steps) == \E k \in DOMAIN steps : steps[k] \in Changing

Over == {<<>>, <<"store">>}

\* One step forward: where each step leads.
WellFormed(s) ==
    /\ s \in Seq(StepNames)
    /\ s # <<>> =>
        /\ Head(s) \in StepNames
        /\ Head(s) \in Verbs <=> Tail(s) # <<>> /\ Head(Tail(s)) \in Decoders
        /\ Tail(s) \in Over /\ Head(s) \notin Decoders =>
               s \in {<<"store">>, <<"check">>, <<"check_all">>}
        /\ Tail(s) \notin {<<"check">>, <<"check_all">>}
        /\ Mutates(Tail(s)) => Mutates(s)
        /\ Head(s) \in Changing => Mutates(s) /\ ~Mutates(Tail(s))

\* Head, tail and changing steps of a sequence that is written out.
IsWritten(s, head, tail, changes) ==
    /\ s # <<>> /\ Head(s) = head /\ Tail(s) = tail
    /\ Mutates(s) <=> changes

LEMMA WrittenOut ==
    /\ ~Mutates(<<>>)
    /\ \A a :
          IsWritten(<<a>>, a, <<>>,
                    a \in Changing)
    /\ \A a, b :
          IsWritten(<<a, b>>, a, <<b>>,
                    a \in Changing \/ b \in Changing)
    /\ \A a, b, c :
          IsWritten(<<a, b, c>>, a, <<b, c>>,
                    a \in Changing \/ b \in Changing \/ c \in Changing)
    /\ \A a, b, c, d :
          IsWritten(<<a, b, c, d>>, a, <<b, c, d>>,
                    \E x \in {a, b, c, d} : x \in Changing)
    /\ \A a, b, c, d, e :
          IsWritten(<<a, b, c, d, e>>, a, <<b, c, d, e>>,
                    \E x \in {a, b, c, d, e} : x \in Changing)
    /\ \A a, b, c, d, e, f :
          IsWritten(<<a, b, c, d, e, f>>, a, <<b, c, d, e, f>>,
                    \E x \in {a, b, c, d, e, f} : x \in Changing)
    /\ \A a, b, c, d, e, f, g :
          IsWritten(<<a, b, c, d, e, f, g>>, a, <<b, c, d, e, f, g>>,
                    \E x \in {a, b, c, d, e, f, g} : x \in Changing)
<1>0. ~Mutates(<<>>)
    BY DEF Mutates
<1>1. ASSUME NEW a
      PROVE  IsWritten(<<a>>, a, <<>>, a \in Changing)
  <2> DEFINE s == <<a>>
  <2>1. s # <<>> /\ Head(s) = a /\ Tail(s) = <<>>
    OBVIOUS
  <2>2. DOMAIN s = 1..1 /\ s[1] = a
    OBVIOUS
  <2> HIDE DEF s
  <2>3. Mutates(s) <=> \E k \in 1..1 : s[k] \in Changing
    BY <2>2 DEF Mutates
  <2>4. Mutates(s) <=> (a \in Changing)
    BY <2>2, <2>3
  <2> QED
    BY <2>1, <2>4 DEF IsWritten, s
<1>2. ASSUME NEW a, NEW b
      PROVE  IsWritten(<<a, b>>, a, <<b>>, a \in Changing \/ b \in Changing)
  <2> DEFINE s == <<a, b>>
  <2>1. s # <<>> /\ Head(s) = a /\ Tail(s) = <<b>>
    OBVIOUS
  <2>2. DOMAIN s = 1..2 /\ s[1] = a /\ s[2] = b
    OBVIOUS
  <2> HIDE DEF s
  <2>3. Mutates(s) <=> \E k \in 1..2 : s[k] \in Changing
    BY <2>2 DEF Mutates
  <2>4. Mutates(s) <=> (a \in Changing \/ b \in Changing)
    BY <2>2, <2>3
  <2> QED
    BY <2>1, <2>4 DEF IsWritten, s
<1>3. ASSUME NEW a, NEW b, NEW c
      PROVE  IsWritten(<<a, b, c>>, a, <<b, c>>, a \in Changing \/ b \in Changing \/ c \in Changing)
  <2> DEFINE s == <<a, b, c>>
  <2>1. s # <<>> /\ Head(s) = a /\ Tail(s) = <<b, c>>
    OBVIOUS
  <2>2. DOMAIN s = 1..3 /\ s[1] = a /\ s[2] = b /\ s[3] = c
    OBVIOUS
  <2> HIDE DEF s
  <2>3. Mutates(s) <=> \E k \in 1..3 : s[k] \in Changing
    BY <2>2 DEF Mutates
  <2>4. Mutates(s) <=> (a \in Changing \/ b \in Changing \/ c \in Changing)
    BY <2>2, <2>3
  <2> QED
    BY <2>1, <2>4 DEF IsWritten, s
<1>4. ASSUME NEW a, NEW b, NEW c, NEW d
      PROVE  IsWritten(<<a, b, c, d>>, a, <<b, c, d>>, \E x \in {a, b, c, d} : x \in Changing)
  <2> DEFINE s == <<a, b, c, d>>
  <2>1. s # <<>> /\ Head(s) = a /\ Tail(s) = <<b, c, d>>
    OBVIOUS
  <2>2. DOMAIN s = 1..4 /\ s[1] = a /\ s[2] = b /\ s[3] = c /\ s[4] = d
    OBVIOUS
  <2> HIDE DEF s
  <2>3. Mutates(s) <=> \E k \in 1..4 : s[k] \in Changing
    BY <2>2 DEF Mutates
  <2>4. Mutates(s) <=> \E x \in {a, b, c, d} : x \in Changing
    BY <2>2, <2>3
  <2> QED
    BY <2>1, <2>4 DEF IsWritten, s
<1>5. ASSUME NEW a, NEW b, NEW c, NEW d, NEW e
      PROVE  IsWritten(<<a, b, c, d, e>>, a, <<b, c, d, e>>, \E x \in {a, b, c, d, e} : x \in Changing)
  <2> DEFINE s == <<a, b, c, d, e>>
  <2>1. s # <<>> /\ Head(s) = a /\ Tail(s) = <<b, c, d, e>>
    OBVIOUS
  <2>2. DOMAIN s = 1..5 /\ s[1] = a /\ s[2] = b /\ s[3] = c /\ s[4] = d /\ s[5] = e
    OBVIOUS
  <2> HIDE DEF s
  <2>3. Mutates(s) <=> \E k \in 1..5 : s[k] \in Changing
    BY <2>2 DEF Mutates
  <2>4. Mutates(s) <=> \E x \in {a, b, c, d, e} : x \in Changing
    BY <2>2, <2>3
  <2> QED
    BY <2>1, <2>4 DEF IsWritten, s
<1>6. ASSUME NEW a, NEW b, NEW c, NEW d, NEW e, NEW f
      PROVE  IsWritten(<<a, b, c, d, e, f>>, a, <<b, c, d, e, f>>, \E x \in {a, b, c, d, e, f} : x \in Changing)
  <2> DEFINE s == <<a, b, c, d, e, f>>
  <2>1. s # <<>> /\ Head(s) = a /\ Tail(s) = <<b, c, d, e, f>>
    OBVIOUS
  <2>2. DOMAIN s = 1..6 /\ s[1] = a /\ s[2] = b /\ s[3] = c /\ s[4] = d /\ s[5] = e /\ s[6] = f
    OBVIOUS
  <2> HIDE DEF s
  <2>3. Mutates(s) <=> \E k \in 1..6 : s[k] \in Changing
    BY <2>2 DEF Mutates
  <2>4. Mutates(s) <=> \E x \in {a, b, c, d, e, f} : x \in Changing
    BY <2>2, <2>3
  <2> QED
    BY <2>1, <2>4 DEF IsWritten, s
<1>7. ASSUME NEW a, NEW b, NEW c, NEW d, NEW e, NEW f, NEW g
      PROVE  IsWritten(<<a, b, c, d, e, f, g>>, a, <<b, c, d, e, f, g>>, \E x \in {a, b, c, d, e, f, g} : x \in Changing)
  <2> DEFINE s == <<a, b, c, d, e, f, g>>
  <2>1. s # <<>> /\ Head(s) = a /\ Tail(s) = <<b, c, d, e, f, g>>
    OBVIOUS
  <2>2. DOMAIN s = 1..7 /\ s[1] = a /\ s[2] = b /\ s[3] = c /\ s[4] = d /\ s[5] = e /\ s[6] = f /\ s[7] = g
    OBVIOUS
  <2> HIDE DEF s
  <2>3. Mutates(s) <=> \E k \in 1..7 : s[k] \in Changing
    BY <2>2 DEF Mutates
  <2>4. Mutates(s) <=> \E x \in {a, b, c, d, e, f, g} : x \in Changing
    BY <2>2, <2>3
  <2> QED
    BY <2>1, <2>4 DEF IsWritten, s
<1> QED
    BY <1>0, <1>1, <1>2, <1>3, <1>4, <1>5, <1>6, <1>7

\* Where each step leads: only wait() leads to an exchange, only an exchange to
\* a decoder, and only a decoder, or the very first step, to the end; there is
\* one changing exchange at most.
UnpacedStep(s) ==
    /\ WellFormed(s)
    /\ s # <<>> =>
        /\ Head(s) \notin Verbs
        /\ Head(s) = "wait" => Tail(s) \in Ready
        /\ Head(s) # "wait" => Tail(s) \in Unpaced

ReadyStep(s) ==
    /\ WellFormed(s)
    /\ s # <<>> /\ Head(s) \in Verbs \cup {"encode"}
    /\ Head(s) \in Verbs => Tail(s) \in Unpaced /\ Tail(s) # <<>>
    /\ Head(s) = "encode" => Tail(s) \in Ready

LEMMA StepKinds ==
    /\ Verbs \cap Decoders = {} /\ Changing \subseteq Verbs /\ "GET" \notin Changing
    /\ {"check", "check_all", "encode", "wait", "store"} \cap (Verbs \cup Decoders) = {}
    /\ {"GET", "POST"} \subseteq Verbs /\ "POST" \in Changing
    /\ {"bytes", "string", "lenient", "strict"} \subseteq Decoders
    /\ Verbs \cup Decoders \cup {"check", "check_all", "encode", "wait", "store"}
           = StepNames
    BY DEF Verbs, Decoders, Changing, StepNames

LEMMA ReadyFacts == \A s \in Ready : ReadyStep(s)
<1>1. ASSUME NEW v \in Verbs, NEW d \in Decoders
      PROVE  ReadyStep(<<v, d>>)
  <2>1. /\ IsWritten(<<v, d>>, v, <<d>>, v \in Changing \/ d \in Changing)
        /\ IsWritten(<<d>>, d, <<>>, d \in Changing)
    BY WrittenOut
  <2>2. <<v, d>> \in Seq(StepNames) /\ <<d>> \in Unpaced
    BY StepKinds DEF Download, Guarded, GuardedWorded, LinkOnly, Plain, Prepared, Shapes, StepNames, Unpaced, Upload, Worded
  <2> QED
    BY <2>1, <2>2, StepKinds DEF ReadyStep, WellFormed, IsWritten, Over
<1>2. ASSUME NEW v \in Verbs, NEW d \in Decoders
      PROVE  ReadyStep(<<"encode", v, d>>)
  <2>1. /\ IsWritten(<<"encode", v, d>>, "encode", <<v, d>>, "encode" \in Changing \/ v \in Changing \/ d \in Changing)
        /\ IsWritten(<<v, d>>, v, <<d>>, v \in Changing \/ d \in Changing)
    BY WrittenOut
  <2>2. <<"encode", v, d>> \in Seq(StepNames) /\ <<v, d>> \in Ready
    BY StepKinds DEF Ready, StepNames
  <2> QED
    BY <2>1, <2>2, StepKinds DEF ReadyStep, WellFormed, IsWritten, Over
<1>3. ReadyStep(<<"GET", "bytes", "store">>)
  <2>1. /\ IsWritten(<<"GET", "bytes", "store">>, "GET", <<"bytes", "store">>, "GET" \in Changing \/ "bytes" \in Changing \/ "store" \in Changing)
        /\ IsWritten(<<"bytes", "store">>, "bytes", <<"store">>, "bytes" \in Changing \/ "store" \in Changing)
    BY WrittenOut
  <2>2. <<"GET", "bytes", "store">> \in Seq(StepNames) /\ <<"bytes", "store">> \in Unpaced
    BY StepKinds DEF Download, Guarded, GuardedWorded, LinkOnly, Plain, Prepared, Shapes, StepNames, Unpaced, Upload, Worded
  <2> QED
    BY <2>1, <2>2, StepKinds DEF ReadyStep, WellFormed, IsWritten, Over
<1>4. ReadyStep(<<"GET", "string", "wait", "POST", "lenient">>)
  <2>1. /\ IsWritten(<<"GET", "string", "wait", "POST", "lenient">>, "GET", <<"string", "wait", "POST", "lenient">>, \E x \in {"GET", "string", "wait", "POST", "lenient"} : x \in Changing)
        /\ IsWritten(<<"string", "wait", "POST", "lenient">>, "string", <<"wait", "POST", "lenient">>, \E x \in {"string", "wait", "POST", "lenient"} : x \in Changing)
    BY WrittenOut
  <2>2. <<"GET", "string", "wait", "POST", "lenient">> \in Seq(StepNames) /\ <<"string", "wait", "POST", "lenient">> \in Unpaced
    BY StepKinds DEF Download, Guarded, GuardedWorded, LinkOnly, Plain, Prepared, Shapes, StepNames, Unpaced, Upload, Worded
  <2> QED
    BY <2>1, <2>2, StepKinds DEF ReadyStep, WellFormed, IsWritten, Over
<1>5. ReadyStep(<<"POST", "lenient", "wait", "GET", "strict">>)
  <2>1. /\ IsWritten(<<"POST", "lenient", "wait", "GET", "strict">>, "POST", <<"lenient", "wait", "GET", "strict">>, \E x \in {"POST", "lenient", "wait", "GET", "strict"} : x \in Changing)
        /\ IsWritten(<<"lenient", "wait", "GET", "strict">>, "lenient", <<"wait", "GET", "strict">>, \E x \in {"lenient", "wait", "GET", "strict"} : x \in Changing)
    BY WrittenOut
  <2>2. <<"POST", "lenient", "wait", "GET", "strict">> \in Seq(StepNames) /\ <<"lenient", "wait", "GET", "strict">> \in Unpaced
    BY StepKinds DEF Download, Guarded, GuardedWorded, LinkOnly, Plain, Prepared, Shapes, StepNames, Unpaced, Upload, Worded
  <2> QED
    BY <2>1, <2>2, StepKinds DEF ReadyStep, WellFormed, IsWritten, Over
<1> QED
    BY <1>1, <1>2, <1>3, <1>4, <1>5 DEF Ready

LEMMA UnpacedFacts == \A s \in Unpaced : UnpacedStep(s)
<1>1. UnpacedStep(<<"check">>)
  <2>1. /\ IsWritten(<<"check">>, "check", <<>>, "check" \in Changing)
        /\ ~Mutates(<<>>)
    BY WrittenOut
  <2>2. <<"check">> \in Seq(StepNames) /\ <<>> \in Unpaced
    BY StepKinds DEF Download, Guarded, GuardedWorded, LinkOnly, Plain, Prepared, Shapes, StepNames, Unpaced, Upload, Worded
  <2> QED
    BY <2>1, <2>2, StepKinds DEF UnpacedStep, WellFormed, IsWritten, Over
<1>2. UnpacedStep(<<"check", "wait", "GET", "bytes", "store">>)
  <2>1. /\ IsWritten(<<"check", "wait", "GET", "bytes", "store">>, "check", <<"wait", "GET", "bytes", "store">>, \E x \in {"check", "wait", "GET", "bytes", "store"} : x \in Changing)
        /\ IsWritten(<<"wait", "GET", "bytes", "store">>, "wait", <<"GET", "bytes", "store">>, \E x \in {"wait", "GET", "bytes", "store"} : x \in Changing)
    BY WrittenOut
  <2>2. <<"check", "wait", "GET", "bytes", "store">> \in Seq(StepNames) /\ <<"wait", "GET", "bytes", "store">> \in Unpaced
    BY StepKinds DEF Download, Guarded, GuardedWorded, LinkOnly, Plain, Prepared, Shapes, StepNames, Unpaced, Upload, Worded
  <2> QED
    BY <2>1, <2>2, StepKinds DEF UnpacedStep, WellFormed, IsWritten, Over
<1>3. UnpacedStep(<<"check", "wait", "GET", "string", "wait", "POST", "lenient">>)
  <2>1. /\ IsWritten(<<"check", "wait", "GET", "string", "wait", "POST", "lenient">>, "check", <<"wait", "GET", "string", "wait", "POST", "lenient">>, \E x \in {"check", "wait", "GET", "string", "wait", "POST", "lenient"} : x \in Changing)
        /\ IsWritten(<<"wait", "GET", "string", "wait", "POST", "lenient">>, "wait", <<"GET", "string", "wait", "POST", "lenient">>, \E x \in {"wait", "GET", "string", "wait", "POST", "lenient"} : x \in Changing)
    BY WrittenOut
  <2>2. <<"check", "wait", "GET", "string", "wait", "POST", "lenient">> \in Seq(StepNames) /\ <<"wait", "GET", "string", "wait", "POST", "lenient">> \in Unpaced
    BY StepKinds DEF Download, Guarded, GuardedWorded, LinkOnly, Plain, Prepared, Shapes, StepNames, Unpaced, Upload, Worded
  <2> QED
    BY <2>1, <2>2, StepKinds DEF UnpacedStep, WellFormed, IsWritten, Over
<1>4. ASSUME NEW v \in Verbs, NEW d \in Decoders
      PROVE  UnpacedStep(<<"wait", v, d>>)
  <2>1. /\ IsWritten(<<"wait", v, d>>, "wait", <<v, d>>, "wait" \in Changing \/ v \in Changing \/ d \in Changing)
        /\ IsWritten(<<v, d>>, v, <<d>>, v \in Changing \/ d \in Changing)
    BY WrittenOut
  <2>2. <<"wait", v, d>> \in Seq(StepNames) /\ <<v, d>> \in Ready
    BY StepKinds DEF Ready, StepNames
  <2> QED
    BY <2>1, <2>2, StepKinds DEF UnpacedStep, WellFormed, IsWritten, Over
<1>5. ASSUME NEW v \in Verbs, NEW d \in Decoders
      PROVE  UnpacedStep(<<"check", "wait", v, d>>)
  <2>1. /\ IsWritten(<<"check", "wait", v, d>>, "check", <<"wait", v, d>>, \E x \in {"check", "wait", v, d} : x \in Changing)
        /\ IsWritten(<<"wait", v, d>>, "wait", <<v, d>>, "wait" \in Changing \/ v \in Changing \/ d \in Changing)
    BY WrittenOut
  <2>2. <<"check", "wait", v, d>> \in Seq(StepNames) /\ <<"wait", v, d>> \in Unpaced
    BY StepKinds DEF Download, Guarded, GuardedWorded, LinkOnly, Plain, Prepared, Shapes, StepNames, Unpaced, Upload, Worded
  <2> QED
    BY <2>1, <2>2, StepKinds DEF UnpacedStep, WellFormed, IsWritten, Over
<1>6. ASSUME NEW v \in Verbs, NEW d \in Decoders
      PROVE  UnpacedStep(<<"wait", "encode", v, d>>)
  <2>1. /\ IsWritten(<<"wait", "encode", v, d>>, "wait", <<"encode", v, d>>, \E x \in {"wait", "encode", v, d} : x \in Changing)
        /\ IsWritten(<<"encode", v, d>>, "encode", <<v, d>>, "encode" \in Changing \/ v \in Changing \/ d \in Changing)
    BY WrittenOut
  <2>2. <<"wait", "encode", v, d>> \in Seq(StepNames) /\ <<"encode", v, d>> \in Ready
    BY StepKinds DEF Ready, StepNames
  <2> QED
    BY <2>1, <2>2, StepKinds DEF UnpacedStep, WellFormed, IsWritten, Over
<1>7. ASSUME NEW v \in Verbs, NEW d \in Decoders
      PROVE  UnpacedStep(<<"check", "wait", "encode", v, d>>)
  <2>1. /\ IsWritten(<<"check", "wait", "encode", v, d>>, "check", <<"wait", "encode", v, d>>, \E x \in {"check", "wait", "encode", v, d} : x \in Changing)
        /\ IsWritten(<<"wait", "encode", v, d>>, "wait", <<"encode", v, d>>, \E x \in {"wait", "encode", v, d} : x \in Changing)
    BY WrittenOut
  <2>2. <<"check", "wait", "encode", v, d>> \in Seq(StepNames) /\ <<"wait", "encode", v, d>> \in Unpaced
    BY StepKinds DEF Download, Guarded, GuardedWorded, LinkOnly, Plain, Prepared, Shapes, StepNames, Unpaced, Upload, Worded
  <2> QED
    BY <2>1, <2>2, StepKinds DEF UnpacedStep, WellFormed, IsWritten, Over
<1>8. ASSUME NEW v \in Verbs, NEW d \in Decoders
      PROVE  UnpacedStep(<<"check", "encode", "wait", v, d>>)
  <2>1. /\ IsWritten(<<"check", "encode", "wait", v, d>>, "check", <<"encode", "wait", v, d>>, \E x \in {"check", "encode", "wait", v, d} : x \in Changing)
        /\ IsWritten(<<"encode", "wait", v, d>>, "encode", <<"wait", v, d>>, \E x \in {"encode", "wait", v, d} : x \in Changing)
    BY WrittenOut
  <2>2. <<"check", "encode", "wait", v, d>> \in Seq(StepNames) /\ <<"encode", "wait", v, d>> \in Unpaced
    BY StepKinds DEF Download, Guarded, GuardedWorded, LinkOnly, Plain, Prepared, Shapes, StepNames, Unpaced, Upload, Worded
  <2> QED
    BY <2>1, <2>2, StepKinds DEF UnpacedStep, WellFormed, IsWritten, Over
<1>9. UnpacedStep(<<"check_all">>)
  <2>1. /\ IsWritten(<<"check_all">>, "check_all", <<>>, "check_all" \in Changing)
        /\ ~Mutates(<<>>)
    BY WrittenOut
  <2>2. <<"check_all">> \in Seq(StepNames) /\ <<>> \in Unpaced
    BY StepKinds DEF Download, Guarded, GuardedWorded, LinkOnly, Plain, Prepared, Shapes, StepNames, Unpaced, Upload, Worded
  <2> QED
    BY <2>1, <2>2, StepKinds DEF UnpacedStep, WellFormed, IsWritten, Over
<1>10. UnpacedStep(<<"store">>)
  <2>1. /\ IsWritten(<<"store">>, "store", <<>>, "store" \in Changing)
        /\ ~Mutates(<<>>)
    BY WrittenOut
  <2>2. <<"store">> \in Seq(StepNames) /\ <<>> \in Unpaced
    BY StepKinds DEF Download, Guarded, GuardedWorded, LinkOnly, Plain, Prepared, Shapes, StepNames, Unpaced, Upload, Worded
  <2> QED
    BY <2>1, <2>2, StepKinds DEF UnpacedStep, WellFormed, IsWritten, Over
<1>11. UnpacedStep(<<"wait", "GET", "bytes", "store">>)
  <2>1. /\ IsWritten(<<"wait", "GET", "bytes", "store">>, "wait", <<"GET", "bytes", "store">>, \E x \in {"wait", "GET", "bytes", "store"} : x \in Changing)
        /\ IsWritten(<<"GET", "bytes", "store">>, "GET", <<"bytes", "store">>, "GET" \in Changing \/ "bytes" \in Changing \/ "store" \in Changing)
    BY WrittenOut
  <2>2. <<"wait", "GET", "bytes", "store">> \in Seq(StepNames) /\ <<"GET", "bytes", "store">> \in Ready
    BY StepKinds DEF Ready, StepNames
  <2> QED
    BY <2>1, <2>2, StepKinds DEF UnpacedStep, WellFormed, IsWritten, Over
<1>12. UnpacedStep(<<"bytes", "store">>)
  <2>1. /\ IsWritten(<<"bytes", "store">>, "bytes", <<"store">>, "bytes" \in Changing \/ "store" \in Changing)
        /\ IsWritten(<<"store">>, "store", <<>>, "store" \in Changing)
    BY WrittenOut
  <2>2. <<"bytes", "store">> \in Seq(StepNames) /\ <<"store">> \in Unpaced
    BY StepKinds DEF Download, Guarded, GuardedWorded, LinkOnly, Plain, Prepared, Shapes, StepNames, Unpaced, Upload, Worded
  <2> QED
    BY <2>1, <2>2, StepKinds DEF UnpacedStep, WellFormed, IsWritten, Over
<1>13. UnpacedStep(<<"wait", "GET", "string", "wait", "POST", "lenient">>)
  <2>1. /\ IsWritten(<<"wait", "GET", "string", "wait", "POST", "lenient">>, "wait", <<"GET", "string", "wait", "POST", "lenient">>, \E x \in {"wait", "GET", "string", "wait", "POST", "lenient"} : x \in Changing)
        /\ IsWritten(<<"GET", "string", "wait", "POST", "lenient">>, "GET", <<"string", "wait", "POST", "lenient">>, \E x \in {"GET", "string", "wait", "POST", "lenient"} : x \in Changing)
    BY WrittenOut
  <2>2. <<"wait", "GET", "string", "wait", "POST", "lenient">> \in Seq(StepNames) /\ <<"GET", "string", "wait", "POST", "lenient">> \in Ready
    BY StepKinds DEF Ready, StepNames
  <2> QED
    BY <2>1, <2>2, StepKinds DEF UnpacedStep, WellFormed, IsWritten, Over
<1>14. UnpacedStep(<<"string", "wait", "POST", "lenient">>)
  <2>1. /\ IsWritten(<<"string", "wait", "POST", "lenient">>, "string", <<"wait", "POST", "lenient">>, \E x \in {"string", "wait", "POST", "lenient"} : x \in Changing)
        /\ IsWritten(<<"wait", "POST", "lenient">>, "wait", <<"POST", "lenient">>, "wait" \in Changing \/ "POST" \in Changing \/ "lenient" \in Changing)
    BY WrittenOut
  <2>2. <<"string", "wait", "POST", "lenient">> \in Seq(StepNames) /\ <<"wait", "POST", "lenient">> \in Unpaced
    BY StepKinds DEF Download, Guarded, GuardedWorded, LinkOnly, Plain, Prepared, Shapes, StepNames, Unpaced, Upload, Worded
  <2> QED
    BY <2>1, <2>2, StepKinds DEF UnpacedStep, WellFormed, IsWritten, Over
<1>15. UnpacedStep(<<"check", "wait", "POST", "lenient", "wait", "GET", "strict">>)
  <2>1. /\ IsWritten(<<"check", "wait", "POST", "lenient", "wait", "GET", "strict">>, "check", <<"wait", "POST", "lenient", "wait", "GET", "strict">>, \E x \in {"check", "wait", "POST", "lenient", "wait", "GET", "strict"} : x \in Changing)
        /\ IsWritten(<<"wait", "POST", "lenient", "wait", "GET", "strict">>, "wait", <<"POST", "lenient", "wait", "GET", "strict">>, \E x \in {"wait", "POST", "lenient", "wait", "GET", "strict"} : x \in Changing)
    BY WrittenOut
  <2>2. <<"check", "wait", "POST", "lenient", "wait", "GET", "strict">> \in Seq(StepNames) /\ <<"wait", "POST", "lenient", "wait", "GET", "strict">> \in Unpaced
    BY StepKinds DEF Download, Guarded, GuardedWorded, LinkOnly, Plain, Prepared, Shapes, StepNames, Unpaced, Upload, Worded
  <2> QED
    BY <2>1, <2>2, StepKinds DEF UnpacedStep, WellFormed, IsWritten, Over
<1>16. UnpacedStep(<<"wait", "POST", "lenient", "wait", "GET", "strict">>)
  <2>1. /\ IsWritten(<<"wait", "POST", "lenient", "wait", "GET", "strict">>, "wait", <<"POST", "lenient", "wait", "GET", "strict">>, \E x \in {"wait", "POST", "lenient", "wait", "GET", "strict"} : x \in Changing)
        /\ IsWritten(<<"POST", "lenient", "wait", "GET", "strict">>, "POST", <<"lenient", "wait", "GET", "strict">>, \E x \in {"POST", "lenient", "wait", "GET", "strict"} : x \in Changing)
    BY WrittenOut
  <2>2. <<"wait", "POST", "lenient", "wait", "GET", "strict">> \in Seq(StepNames) /\ <<"POST", "lenient", "wait", "GET", "strict">> \in Ready
    BY StepKinds DEF Ready, StepNames
  <2> QED
    BY <2>1, <2>2, StepKinds DEF UnpacedStep, WellFormed, IsWritten, Over
<1>17. UnpacedStep(<<"lenient", "wait", "GET", "strict">>)
  <2>1. /\ IsWritten(<<"lenient", "wait", "GET", "strict">>, "lenient", <<"wait", "GET", "strict">>, \E x \in {"lenient", "wait", "GET", "strict"} : x \in Changing)
        /\ IsWritten(<<"wait", "GET", "strict">>, "wait", <<"GET", "strict">>, "wait" \in Changing \/ "GET" \in Changing \/ "strict" \in Changing)
    BY WrittenOut
  <2>2. <<"lenient", "wait", "GET", "strict">> \in Seq(StepNames) /\ <<"wait", "GET", "strict">> \in Unpaced
    BY StepKinds DEF Download, Guarded, GuardedWorded, LinkOnly, Plain, Prepared, Shapes, StepNames, Unpaced, Upload, Worded
  <2> QED
    BY <2>1, <2>2, StepKinds DEF UnpacedStep, WellFormed, IsWritten, Over
<1>18. ASSUME NEW d \in Decoders
      PROVE  UnpacedStep(<<d>>)
  <2>1. /\ IsWritten(<<d>>, d, <<>>, d \in Changing)
        /\ ~Mutates(<<>>)
    BY WrittenOut
  <2>2. <<d>> \in Seq(StepNames) /\ <<>> \in Unpaced
    BY StepKinds DEF Download, Guarded, GuardedWorded, LinkOnly, Plain, Prepared, Shapes, StepNames, Unpaced, Upload, Worded
  <2> QED
    BY <2>1, <2>2, StepKinds DEF UnpacedStep, WellFormed, IsWritten, Over
<1>19. ASSUME NEW v \in Verbs, NEW d \in Decoders
      PROVE  UnpacedStep(<<"encode", "wait", v, d>>)
  <2>1. /\ IsWritten(<<"encode", "wait", v, d>>, "encode", <<"wait", v, d>>, \E x \in {"encode", "wait", v, d} : x \in Changing)
        /\ IsWritten(<<"wait", v, d>>, "wait", <<v, d>>, "wait" \in Changing \/ v \in Changing \/ d \in Changing)
    BY WrittenOut
  <2>2. <<"encode", "wait", v, d>> \in Seq(StepNames) /\ <<"wait", v, d>> \in Unpaced
    BY StepKinds DEF Download, Guarded, GuardedWorded, LinkOnly, Plain, Prepared, Shapes, StepNames, Unpaced, Upload, Worded
  <2> QED
    BY <2>1, <2>2, StepKinds DEF UnpacedStep, WellFormed, IsWritten, Over
<1>20. UnpacedStep(<<>>)
    BY DEF UnpacedStep, WellFormed
<1>21. \A s \in Shapes : UnpacedStep(s)
    BY <1>1, <1>2, <1>3, <1>4, <1>5, <1>6, <1>7, <1>8
    DEF Shapes, Plain, Guarded, Worded, GuardedWorded, Prepared, LinkOnly, Download,
        Upload
<1> QED
    BY <1>9, <1>10, <1>11, <1>12, <1>13, <1>14, <1>15, <1>16, <1>17, <1>18, <1>19, <1>20, <1>21 DEF Unpaced

-----------------------------------------------------------------------------

\* The invariant, by parts.  Where the call is in its items and in its row: the
\* very first steps come before every exchange.
PosInv ==
    /\ ~IsBatch => pos = 1
    /\ pos = 0 => todo \in {<<"check_all">>, <<>>}
    /\ todo = <<"check_all">> => pos = 0 /\ wire = <<>>
    /\ todo = <<"check">> => wire = <<>>

\* A ticket is held between wait() and its exchange, and at no other time.
TicketInv ==
    /\ outcome = "pending" =>
        \/ todo \in Unpaced /\ tickets = 0
        \/ todo \in Ready /\ tickets = 1
    /\ Paced

\* What is decoded is the answer to the last exchange.
AnswerInv ==
    outcome = "pending" /\ todo # <<>> /\ Head(todo) \in Decoders =>
        /\ wire # <<>> /\ reply \in Replies /\ LastStatus = reply.status
        /\ LastStatus \in Success /\ wire[Len(wire)].verb # "GET" =>
               wire[Len(wire)].applied

\* A refusal or a lost answer waits for no step but its decoder: the call then
\* ends, or the answer was a 404.
ClearInv ==
    /\ outcome \in {"pending", "returned"} /\ wire # <<>>
    /\ ~(todo # <<>> /\ Head(todo) \in Decoders)
    => LastStatus \in Success \cup {404}

SavedSearches == {"get_saved_searches", "get_saved_search"}

\* Nothing is over before the last exchange was a success, or a look-up of saved
\* searches that found none; and what it was to change is then changed.
DoneInv ==
    outcome \in {"pending", "returned"} =>
        /\ todo \in Over /\ wire # <<>> =>
            \/ LastStatus \in Success
            \/ LastStatus = 404 /\ call.method \in SavedSearches
        /\ \A k \in DOMAIN wire :
            wire[k].verb # "GET" =>
                \/ wire[k].applied
                \/ k = Len(wire) /\ todo # <<>> /\ Head(todo) \in Decoders
        /\ outcome = "returned" => todo = <<>>

\* Looking up saved searches changes nothing.
SavedInv ==
    call.method \in SavedSearches =>
        ~Mutates(todo) /\ \A k \in DOMAIN wire : wire[k].verb = "GET"

\* One call of a method changes something once at most.
SingleInv ==
    ~IsBatch =>
        /\ outcome = "pending" /\ Mutates(todo) =>
            \A k \in DOMAIN wire : wire[k].verb = "GET"
        /\ \A k, l \in DOMAIN wire :
            wire[k].verb # "GET" /\ wire[l].verb # "GET" => k = l

\* get_url_report, before and after it has caught NotFound.
ScanAndReport == <<"check", "wait", "POST", "lenient", "wait", "GET", "strict">>

Reporting ==
    /\ ~caught
    /\ \/ todo \in {<<"wait", "GET", "strict">>, <<"GET", "strict">>}
          /\ Len(wire) = 0
       \/ todo \in {<<"strict">>, <<>>} /\ Len(wire) = 1

Scanning ==
    /\ caught
    /\ \/ /\ todo \in {ScanAndReport,
                       <<"wait", "POST", "lenient", "wait", "GET", "strict">>,
                       <<"POST", "lenient", "wait", "GET", "strict">>}
          /\ Len(wire) = 1
       \/ /\ todo \in {<<"lenient", "wait", "GET", "strict">>,
                       <<"wait", "GET", "strict">>, <<"GET", "strict">>}
          /\ Len(wire) = 2
       \/ todo \in {<<"strict">>, <<>>} /\ Len(wire) = 3

ReportInv ==
    call.method = "get_url_report" =>
        /\ outcome \in {"pending", "returned"} => Reporting \/ Scanning
        /\ Len(wire) <= 3
        /\ \A k \in DOMAIN wire : wire[k].verb = IF k = 2 THEN "POST" ELSE "GET"
        /\ Len(wire) > 1 \/ caught => call.scan /\ wire[1].status = 404

\* A batch: its k-th exchange is for its k-th item.
Asking ==
    {<<"check", "wait", v, d>> : v \in Verbs, d \in Decoders}
        \cup {<<"wait", v, d>> : v \in Verbs, d \in Decoders}
        \cup {<<v, d>> : v \in Verbs, d \in Decoders}

BatchInv ==
    IsBatch =>
        /\ \A k \in DOMAIN wire : wire[k].item = k
        /\ \A k \in DOMAIN wire :
            k < pos /\ wire[k].verb # "GET" => wire[k].applied
        /\ Len(wire) \in {pos - 1, pos}
        /\ outcome \in {"pending", "returned"} =>
            \/ todo \in Asking /\ Len(wire) = pos - 1
            \/ /\ todo \in {<<"check_all">>, <<>>} \cup {<<d>> : d \in Decoders}
               /\ Len(wire) = pos

\* A bad argument stops the call where it starts.
InvalidInv ==
    Contains(call.items, "bad") /\ (IsBatch \/ Contains(ItemSteps, "check")) =>
        /\ wire = <<>> /\ tickets = 0
        /\ todo = IF IsBatch THEN <<"check_all">> ELSE ItemSteps

CallInv ==
    /\ PosInv /\ TicketInv /\ AnswerInv /\ ClearInv /\ DoneInv /\ SavedInv
    /\ SingleInv
    /\ ReportInv /\ BatchInv /\ InvalidInv /\ ExceptionNamesCause

-----------------------------------------------------------------------------

\* The batches are no rows of the tables, and a call is what Calls says.
LEMMA BatchesAreNoMethods == DOMAIN Batches \cap Methods = {}
<1>1. ASSUME NEW m \in DOMAIN Batches, NEW table \in Tables
      PROVE  m \notin DOMAIN table
    BY DEF Batches, Tables, FileCalls, BehaviourCalls, UrlScanCalls, UrlCalls,
           IpCalls, DomainCalls, AnalysisCalls, CommentCalls, ObjectCalls,
           SearchCalls, CollectionCalls, CollectionPartCalls, GraphCalls,
           GraphPartCalls, YaraCalls, ZipCalls, InsightCalls
<1> QED
    BY <1>1 DEF Methods

LEMMA SomeMethods ==
    {"get_url_report", "get_saved_searches", "get_saved_search"}
        \cap DOMAIN Batches = {}
    BY DEF Batches

LEMMA CallFacts ==
    ASSUME call \in Calls
    PROVE  /\ call.items \in Seq(Arguments) /\ Len(call.items) \in Nat
           /\ call.scan \in BOOLEAN
           /\ DOMAIN call.items = 1..Len(call.items)
           /\ ~IsBatch => call.method \in Methods /\ Len(call.items) = 1
<1>1. CASE call \in [method : Methods, items : {<<a>> : a \in Arguments},
                    scan : {FALSE}]
  <2>1. PICK a \in Arguments : call.items = <<a>>
    BY <1>1
  <2>2. /\ <<a>> \in Seq(Arguments) /\ Len(<<a>>) = 1 /\ DOMAIN <<a>> = 1..1
        /\ 1 \in Nat
    OBVIOUS
  <2>3. call.method \in Methods /\ call.scan = FALSE
    BY <1>1
  <2> QED
    BY <2>1, <2>2, <2>3
<1>2. CASE call \in [method : {"get_url_report"}, items : {<<"good">>, <<"bad">>},
                    scan : {TRUE}]
  <2>1. PICK a \in Arguments : call.items = <<a>>
    BY <1>2 DEF Arguments
  <2>2. /\ <<a>> \in Seq(Arguments) /\ Len(<<a>>) = 1 /\ DOMAIN <<a>> = 1..1
        /\ 1 \in Nat
    OBVIOUS
  <2>3. call.method \in Methods /\ call.scan = TRUE
    BY <1>2, RowsOfCallees
  <2> QED
    BY <2>1, <2>2, <2>3
<1>3. CASE call \in [method : DOMAIN Batches,
                    items : BoundedSeq({"good", "bad"}, MaxItems), scan : {FALSE}]
  <2>1. call.items \in Seq({"good", "bad"})
    BY <1>3, CallAssumption DEF BoundedSeq, SeqOf
  <2>2. call.items \in Seq(Arguments)
    BY <2>1 DEF Arguments
  <2>3. call.method \in DOMAIN Batches /\ call.scan = FALSE
    BY <1>3
  <2>4. Len(call.items) \in Nat /\ DOMAIN call.items = 1..Len(call.items)
    BY <2>2
  <2> QED
    BY <2>2, <2>3, <2>4 DEF IsBatch
<1> QED
    BY <1>1, <1>2, <1>3 DEF Calls

\* The steps of the items of a batch make one exchange.
LEMMA ItemFacts ==
    ASSUME call \in Calls
    PROVE  /\ IsBatch => ItemSteps \in Asking \cap Shapes
           /\ ~IsBatch => ItemSteps \in Shapes
           /\ call.method \in SavedSearches => ~IsBatch /\ ~Mutates(ItemSteps)
           /\ call.method = "get_url_report" =>
                  ~IsBatch /\ ItemSteps = <<"wait", "GET", "strict">>
<1>1. ASSUME IsBatch
      PROVE  ItemSteps \in Asking \cap Shapes
  <2>1. ItemSteps \in {Guarded("POST", "lenient"), Guarded("GET", "lenient"),
                       Plain("GET", "strict")}
    BY <1>1, RowsOfCallees DEF ItemSteps, IsBatch, Batches
  <2> QED
    BY <2>1, StepKinds DEF Asking, Shapes, Guarded, Plain
<1>2. ASSUME ~IsBatch
      PROVE  ItemSteps \in Shapes
    BY <1>2, CallFacts, RowsHaveShapes DEF ItemSteps
<1>3. ASSUME call.method \in SavedSearches
      PROVE  ~IsBatch /\ ~Mutates(ItemSteps)
  <2>1. ~IsBatch
    BY <1>3, SomeMethods DEF IsBatch, SavedSearches
  <2>2. ItemSteps \in {Plain("GET", "strict"), Guarded("GET", "strict")}
    BY <1>3, <2>1, RowsOfSavedSearches DEF ItemSteps, SavedSearches
  <2>3. /\ IsWritten(<<"wait", "GET", "strict">>, "wait", <<"GET", "strict">>,
                     "wait" \in Changing \/ "GET" \in Changing \/ "strict" \in Changing)
        /\ IsWritten(<<"check", "wait", "GET", "strict">>, "check",
                     <<"wait", "GET", "strict">>,
                     \E x \in {"check", "wait", "GET", "strict"} : x \in Changing)
    BY WrittenOut
  <2> QED
    BY <2>1, <2>2, <2>3, StepKinds DEF IsWritten, Plain, Guarded
<1>4. ASSUME call.method = "get_url_report"
      PROVE  ~IsBatch /\ ItemSteps = <<"wait", "GET", "strict">>
  <2>1. ~IsBatch
    BY <1>4, SomeMethods DEF IsBatch
  <2> QED
    BY <1>4, <2>1, RowsOfCallees DEF ItemSteps, Plain
<1> QED
    BY <1>1, <1>2, <1>3, <1>4

\* A method that tests its arguments does so first.
LEMMA ChecksComeFirst ==
    ASSUME NEW s \in Shapes, Contains(s, "check")
    PROVE  s # <<>> /\ Head(s) = "check"
<1>1. ASSUME NEW v \in Verbs, NEW d \in Decoders
      PROVE  /\ ~Contains(<<"wait", v, d>>, "check")
             /\ ~Contains(<<"wait", "encode", v, d>>, "check")
    BY StepKinds DEF Contains
<1>2. \A v, d :
          /\ Head(<<"check", "wait", v, d>>) = "check"
          /\ Head(<<"check", "wait", "encode", v, d>>) = "check"
          /\ Head(<<"check", "encode", "wait", v, d>>) = "check"
          /\ <<"check", "wait", v, d>> # <<>>
          /\ <<"check", "wait", "encode", v, d>> # <<>>
          /\ <<"check", "encode", "wait", v, d>> # <<>>
    OBVIOUS
<1>3. CASE s \in {LinkOnly, Download, Upload}
    BY <1>3 DEF LinkOnly, Download, Upload
<1>4. CASE s \notin {LinkOnly, Download, Upload}
  <2>1. PICK v \in Verbs, d \in Decoders :
            s \in {<<"wait", v, d>>, <<"wait", "encode", v, d>>,
                  <<"check", "wait", v, d>>, <<"check", "wait", "encode", v, d>>,
                  <<"check", "encode", "wait", v, d>>}
    BY <1>4 DEF Shapes, Plain, Guarded, Worded, GuardedWorded, Prepared
  <2>2. s # <<"wait", v, d>> /\ s # <<"wait", "encode", v, d>>
    BY <1>1
  <2> QED
    BY <1>2, <2>1, <2>2
<1> QED
    BY <1>3, <1>4

\* The steps of an item of a batch.
LEMMA AskingFacts ==
    ASSUME NEW s \in Asking
    PROVE  /\ s # <<>> /\ Head(s) \in Verbs \cup {"check", "wait"}
           /\ Head(s) \in Verbs => Tail(s) \in {<<d>> : d \in Decoders}
           /\ Head(s) \notin Verbs => Tail(s) \in Asking
<1> DEFINE Ok(t) ==
        /\ t # <<>> /\ Head(t) \in Verbs \cup {"check", "wait"}
        /\ Head(t) \in Verbs => Tail(t) \in {<<d>> : d \in Decoders}
        /\ Head(t) \notin Verbs => Tail(t) \in Asking
<1>1. ASSUME NEW v \in Verbs, NEW d \in Decoders
      PROVE  /\ Ok(<<"check", "wait", v, d>>)
             /\ Ok(<<"wait", v, d>>)
             /\ Ok(<<v, d>>)
  <2>1. /\ Head(<<"check", "wait", v, d>>) = "check"
        /\ Tail(<<"check", "wait", v, d>>) = <<"wait", v, d>>
        /\ Head(<<"wait", v, d>>) = "wait" /\ Tail(<<"wait", v, d>>) = <<v, d>>
        /\ Head(<<v, d>>) = v /\ Tail(<<v, d>>) = <<d>>
    OBVIOUS
  <2>2. <<"wait", v, d>> \in Asking /\ <<v, d>> \in Asking
    BY DEF Asking
  <2>3. /\ <<"check", "wait", v, d>> # <<>> /\ <<"wait", v, d>> # <<>>
        /\ <<v, d>> # <<>>
    OBVIOUS
  <2> QED
    BY <2>1, <2>2, <2>3, StepKinds
<1>2. PICK v \in Verbs, d \in Decoders :
          s \in {<<"check", "wait", v, d>>, <<"wait", v, d>>, <<v, d>>}
    BY DEF Asking
<1> QED
    BY <1>1, <1>2

-----------------------------------------------------------------------------

(* Before the first step nothing is sent, held or over.                     *)
LEMMA CallStart == Init => TypeOK /\ CallInv
<1> SUFFICES ASSUME Init
             PROVE  TypeOK /\ CallInv
    OBVIOUS
<1>1. /\ call \in Calls /\ outcome = "pending" /\ tickets = 0 /\ wire = <<>>
      /\ ~caught /\ caught \in BOOLEAN /\ reply = NoReply
      /\ pos = (IF IsBatch THEN 0 ELSE 1)
      /\ todo = (IF IsBatch THEN <<"check_all">> ELSE ItemSteps)
    BY DEF Init
<1>2. /\ Len(wire) = 0 /\ DOMAIN wire = {}
      /\ wire \in Seq([verb : Verbs, item : Nat, applied : BOOLEAN, status : Nat])
    BY <1>1
<1>3. todo \in Unpaced /\ UnpacedStep(todo)
    BY <1>1, ItemFacts, UnpacedFacts DEF Unpaced
<1>4. pos \in 0..Len(call.items)
    BY <1>1, CallFacts
<1>5. /\ todo # <<>> /\ todo # <<"store">>
      /\ todo = <<"check_all">> => pos = 0
      /\ Head(todo) \notin Decoders
  <2>1. CASE IsBatch
    BY <1>1, <2>1, StepKinds
  <2>2. CASE ~IsBatch
    <3>1. /\ \A a, b, c : /\ <<a, b, c>> \notin {<<>>, <<"store">>, <<"check_all">>}
                         /\ Head(<<a, b, c>>) = a
          /\ \A a, b, c, d : /\ <<a, b, c, d>> \notin {<<>>, <<"store">>, <<"check_all">>}
                            /\ Head(<<a, b, c, d>>) = a
          /\ \A a, b, c, d, e :
                 /\ <<a, b, c, d, e>> \notin {<<>>, <<"store">>, <<"check_all">>}
                 /\ Head(<<a, b, c, d, e>>) = a
      OBVIOUS
    <3>2. CASE todo \in {LinkOnly, Download, Upload}
      BY <3>2, StepKinds DEF LinkOnly, Download, Upload
    <3>3. CASE todo \notin {LinkOnly, Download, Upload}
      <4>1. PICK v \in Verbs, d \in Decoders :
                todo \in {<<"wait", v, d>>, <<"wait", "encode", v, d>>,
                      <<"check", "wait", v, d>>, <<"check", "wait", "encode", v, d>>,
                      <<"check", "encode", "wait", v, d>>}
        BY <1>1, <2>2, <3>3, ItemFacts
        DEF Shapes, Plain, Guarded, Worded, GuardedWorded, Prepared
      <4> QED
        BY <3>1, <4>1, StepKinds
    <3> QED
      BY <3>2, <3>3
  <2> QED
    BY <2>1, <2>2
<1>6. TypeOK
    BY <1>1, <1>2, <1>3, <1>4 DEF TypeOK, UnpacedStep, WellFormed, StepNames
<1>7. PosInv
    BY <1>1, <1>5 DEF PosInv
<1>8. TicketInv /\ Paced
    BY <1>1, <1>3 DEF TicketInv, Paced, Ended
<1>9. AnswerInv /\ DoneInv /\ InvalidInv
    BY <1>1, <1>2, <1>5 DEF AnswerInv, DoneInv, InvalidInv, Over
<1>10. SavedInv /\ SingleInv
    BY <1>1, <1>2, ItemFacts DEF SavedInv, SingleInv
<1>11. ReportInv
    BY <1>1, <1>2, ItemFacts DEF ReportInv, Reporting
<1>12. BatchInv
    BY <1>1, <1>2 DEF BatchInv
<1>13. ExceptionNamesCause /\ ClearInv
    BY <1>1 DEF ExceptionNamesCause, ClearInv, Ended
<1> QED
    BY <1>6, <1>7, <1>8, <1>9, <1>10, <1>11, <1>12, <1>13 DEF CallInv

-----------------------------------------------------------------------------

\* The steps that go on in the row, and those that end the call, by what the
\* rest of the state says of them.
Advance ==
    /\ todo # <<>> /\ Continue /\ UNCHANGED <<reply, wire>>
    /\ tickets' = IF Head(todo) = "wait" THEN tickets + 1 ELSE tickets
    /\ \/ Head(todo) = "check" /\ Item # "bad"
       \/ Head(todo) = "check_all" /\ ~Contains(call.items, "bad")
       \/ Head(todo) \in {"encode", "wait", "store"}
       \/ /\ Head(todo) \in Decoders
          /\ \/ reply.status \in Success
             \/ reply.status = 404 /\ call.method \in SavedSearches

Fails ==
    /\ todo # <<>>
    /\ \E exception \in Exceptions :
        /\ Throw(exception)
        /\ \/ Head(todo) \in {"check", "check_all", "store"} /\ exception = "VtError"
           \/ /\ Head(todo) = "encode" /\ Item = "garbled"
              /\ exception = "json::type_error"
           \/ Head(todo) \in Decoders /\ exception \in Decoded(Head(todo), reply)
    /\ UNCHANGED <<reply, wire>>

Sent(status) ==
    /\ todo # <<>> /\ Head(todo) \in Verbs
    /\ \E applied \in BOOLEAN :
        /\ status \in Success /\ Head(todo) # "GET" => applied
        /\ Exchanged(Head(todo), applied, status)
    /\ tickets' = tickets - 1

Goes ==
    \E r \in Replies : Sent(r.status) /\ reply' = r /\ Continue

Breaks ==
    Sent(0) /\ outcome' = "NetworkError" /\ UNCHANGED <<call, pos, todo, caught, reply>>

Rescans ==
    /\ todo # <<>> /\ Head(todo) \in Decoders
    /\ reply.status = 404
    /\ call.method = "get_url_report" /\ call.scan /\ ~caught
    /\ caught' = TRUE
    /\ todo' = ScanAndReport
    /\ UNCHANGED <<call, pos, reply, tickets, wire, outcome>>

LEMMA StepCases ==
    ASSUME TypeOK, CallInv, Next
    PROVE  /\ outcome = "pending"
           /\ \/ Advance \/ Fails \/ Goes \/ Breaks \/ Rescans
              \/ NextItem \/ Return
<1>1. outcome = "pending"
    BY DEF Next, Check, CheckAll, Encode, Wait, Answered, Unanswered, DecodeValue,
           DecodeThrows, DecodeSwallows, DecodeScans, Store, NextItem, Return, At
<1>2. ASSUME DecodeValue \/ DecodeSwallows \/ DecodeThrows \/ DecodeScans
      PROVE  /\ todo # <<>> /\ Head(todo) \in Decoders /\ Head(todo) # "wait"
             /\ "value" \in Decoded(Head(todo), reply) => reply.status \in Success
             /\ "NotFound" \in Decoded(Head(todo), reply) => reply.status = 404
             /\ Decoded(Head(todo), reply) \ {"value"} \subseteq Exceptions
  <2>1. todo # <<>> /\ Head(todo) \in Decoders /\ Head(todo) # "wait"
    BY <1>2, StepKinds
    DEF DecodeValue, DecodeSwallows, DecodeThrows, DecodeScans, At
  <2>2. reply \in Replies
    BY <1>1, <2>1 DEF CallInv, AnswerInv
  <2> QED
    BY <2>1, <2>2, DecodedFacts
<1>3. CASE Check \/ CheckAll \/ Encode \/ Wait \/ Store
    BY <1>3, StepKinds
    DEF Check, CheckAll, Encode, Wait, Store, At, Advance, Fails, Throw, Continue,
        Exceptions
<1>4. CASE DecodeValue
  <2>1. /\ todo # <<>> /\ Head(todo) \in Decoders /\ Head(todo) # "wait"
        /\ "value" \in Decoded(Head(todo), reply) => reply.status \in Success
    BY <1>2, <1>4
  <2> QED
    BY <1>1, <2>1, <1>4 DEF DecodeValue, Advance
<1>9. CASE DecodeSwallows
  <2>1. /\ todo # <<>> /\ Head(todo) \in Decoders /\ Head(todo) # "wait"
        /\ "NotFound" \in Decoded(Head(todo), reply) => reply.status = 404
    BY <1>2, <1>9
  <2> QED
    BY <1>1, <2>1, <1>9 DEF DecodeSwallows, Swallows, SavedSearches, Advance
<1>5. CASE DecodeThrows
  <2>1. /\ todo # <<>> /\ Head(todo) \in Decoders
        /\ Decoded(Head(todo), reply) \ {"value"} \subseteq Exceptions
    BY <1>2, <1>5
  <2> QED
    BY <1>1, <2>1, <1>5 DEF DecodeThrows, Fails
<1>6. CASE Answered
    BY <1>6 DEF Answered, At, Goes, Sent
<1>7. CASE Unanswered
    BY <1>7 DEF Unanswered, At, Breaks, Sent, Success
<1>8. CASE DecodeScans
  <2>1. Steps.scan_url \o Steps.get_url_report = ScanAndReport
    BY RowsOfCallees, FourAndThree DEF Guarded, Plain, ScanAndReport
  <2>2. /\ todo # <<>> /\ Head(todo) \in Decoders
        /\ "NotFound" \in Decoded(Head(todo), reply) => reply.status = 404
    BY <1>2, <1>8
  <2> QED
    BY <1>1, <1>8, <2>1, <2>2 DEF DecodeScans, ScansFirst, Rescans
<1> QED
    BY <1>1, <1>3, <1>4, <1>5, <1>6, <1>7, <1>8, <1>9 DEF Next

Stepping ==
    /\ outcome = "pending"
    /\ \/ Advance \/ Fails \/ Goes \/ Breaks \/ Rescans
       \/ NextItem \/ Return

-----------------------------------------------------------------------------

\* What is left of a pending call, and the ticket it holds.
LEMMA TodoFacts ==
    ASSUME TypeOK, CallInv, outcome = "pending"
    PROVE  /\ WellFormed(todo)
           /\ todo = <<>> => tickets = 0
           /\ todo # <<>> =>
                /\ Head(todo) \in Verbs =>
                       tickets = 1 /\ Tail(todo) \in Unpaced /\ Tail(todo) # <<>>
                /\ Head(todo) = "encode" =>
                       \/ tickets = 1 /\ Tail(todo) \in Ready
                       \/ tickets = 0 /\ Tail(todo) \in Unpaced
                /\ Head(todo) = "wait" => tickets = 0 /\ Tail(todo) \in Ready
                /\ Head(todo) \notin Verbs \cup {"encode", "wait"} =>
                       tickets = 0 /\ Tail(todo) \in Unpaced
<1>1. \/ todo \in Unpaced /\ tickets = 0
      \/ todo \in Ready /\ tickets = 1
    BY DEF CallInv, TicketInv
<1>2. CASE todo \in Unpaced /\ tickets = 0
  <2>1. UnpacedStep(todo)
    BY <1>2, UnpacedFacts
  <2> QED
    BY <1>2, <2>1, StepKinds DEF UnpacedStep
<1>3. CASE todo \in Ready /\ tickets = 1
  <2>1. ReadyStep(todo)
    BY <1>3, ReadyFacts
  <2> QED
    BY <1>3, <2>1, StepKinds DEF ReadyStep
<1> QED
    BY <1>1, <1>2, <1>3

\* An exchange is added at the end of the history.
LEMMA WireFacts ==
    ASSUME TypeOK, NEW status \in Nat, Sent(status)
    PROVE  /\ wire' \in Seq([verb : Verbs, item : Nat, applied : BOOLEAN,
                             status : Nat])
           /\ Len(wire) \in Nat /\ DOMAIN wire = 1..Len(wire)
           /\ Len(wire') = Len(wire) + 1 /\ DOMAIN wire' = 1..(Len(wire) + 1)
           /\ \A k \in 1..Len(wire) : wire'[k] = wire[k]
           /\ LET last == wire'[Len(wire) + 1]
              IN  /\ last.verb = Head(todo) /\ last.item = pos
                  /\ last.status = status
                  /\ status \in Success /\ Head(todo) # "GET" => last.applied
           /\ LastStatus' = status /\ wire' # <<>>
<1> DEFINE Records == [verb : Verbs, item : Nat, applied : BOOLEAN, status : Nat]
<1>1. PICK applied \in BOOLEAN :
        /\ status \in Success /\ Head(todo) # "GET" => applied
        /\ Exchanged(Head(todo), applied, status)
    BY DEF Sent
<1> DEFINE last == [verb |-> Head(todo), item |-> pos,
                    applied |-> applied, status |-> status]
<1>2. last \in Records
  <2>1. Head(todo) \in Verbs
    BY DEF Sent
  <2>2. pos \in Nat
    BY CallFacts DEF TypeOK
  <2> QED
    BY <2>1, <2>2
<1>3. /\ last.verb = Head(todo) /\ last.item = pos
      /\ last.status = status /\ last.applied = applied
    OBVIOUS
<1>4. wire' = Append(wire, last)
    BY <1>1 DEF Exchanged
<1>5. wire \in Seq(Records)
    BY DEF TypeOK
<1> HIDE DEF last, Records
<1>6. /\ wire' \in Seq(Records) /\ Len(wire) \in Nat
      /\ DOMAIN wire = 1..Len(wire)
      /\ Len(wire') = Len(wire) + 1
      /\ wire'[Len(wire) + 1] = last
      /\ \A k \in 1..Len(wire) : wire'[k] = wire[k]
    BY <1>2, <1>4, <1>5
<1>7. DOMAIN wire' = 1..(Len(wire) + 1) /\ wire' # <<>>
    BY <1>6
<1>8. LastStatus' = last.status
    BY <1>6 DEF LastStatus
<1> QED
    BY <1>1, <1>3, <1>6, <1>7, <1>8 DEF Records

\* Only a batch has a next item, and it asks for it as for the one before.
LEMMA NextItemFacts ==
    ASSUME TypeOK, CallInv, outcome = "pending", NextItem
    PROVE  /\ IsBatch /\ IsBatch' /\ Len(wire) = pos
           /\ todo' \in Asking /\ todo' \in Unpaced
           /\ todo' # <<>> /\ Head(todo') \notin Decoders
           /\ todo' \notin {<<"check">>, <<"check_all">>, <<"store">>}
           /\ pos' = pos + 1 /\ pos' \in 1..Len(call.items)
           /\ UNCHANGED <<call, caught, reply, tickets, wire, outcome>>
<1>1. /\ todo = <<>> /\ pos < Len(call.items) /\ pos' = pos + 1
      /\ todo' = ItemSteps
      /\ UNCHANGED <<call, caught, reply, tickets, wire, outcome>>
    BY DEF NextItem
<1>2. Len(call.items) \in Nat /\ pos \in 0..Len(call.items)
    BY CallFacts DEF TypeOK
<1>3. IsBatch
  <2> SUFFICES ASSUME ~IsBatch
               PROVE  FALSE
    OBVIOUS
  <2>1. pos = 1 /\ Len(call.items) = 1
    BY CallFacts DEF TypeOK, CallInv, PosInv
  <2>2. pos < Len(call.items)
    BY <1>1
  <2> QED
    BY <2>1, <2>2
<1>4. todo' \in Asking /\ todo' \in Unpaced
    BY <1>1, <1>3, ItemFacts DEF TypeOK, Unpaced
<1>5. /\ todo' # <<>> /\ Head(todo') \in Verbs \cup {"check", "wait"}
      /\ Tail(todo') # <<>>
  <2>1. \A s \in Asking :
          /\ s # <<>> /\ Head(s) \in Verbs \cup {"check", "wait"}
          /\ Head(s) \in Verbs => Tail(s) \in {<<d>> : d \in Decoders}
          /\ Head(s) \notin Verbs => Tail(s) \in Asking
    BY AskingFacts
  <2>2. <<>> \notin Asking
    BY <2>1
  <2>3. <<>> \notin {<<d>> : d \in Decoders}
    OBVIOUS
  <2>4. /\ todo' # <<>> /\ Head(todo') \in Verbs \cup {"check", "wait"}
        /\ Tail(todo') \in {<<d>> : d \in Decoders} \/ Tail(todo') \in Asking
    BY <1>4, <2>1
  <2> QED
    BY <2>2, <2>3, <2>4
<1>6. /\ Tail(<<"check">>) = <<>> /\ Tail(<<"check_all">>) = <<>>
      /\ Tail(<<"store">>) = <<>>
    OBVIOUS
<1>7. Len(wire) = pos
  <2>1. <<>> \notin Asking
    BY AskingFacts
  <2> QED
    BY <1>1, <1>3, <2>1 DEF CallInv, BatchInv
<1>8. todo' \notin {<<"check">>, <<"check_all">>, <<"store">>}
    BY <1>5, <1>6
<1>9. Head(todo') \notin Decoders
    BY <1>5, StepKinds
<1>10. IsBatch' /\ pos' \in 1..Len(call.items)
    BY <1>1, <1>2, <1>3 DEF IsBatch
<1> QED
    BY <1>1, <1>3, <1>4, <1>5, <1>7, <1>8, <1>9, <1>10

-----------------------------------------------------------------------------

\* Every step keeps every part of the invariant.
LEMMA TypeStep ==
    ASSUME TypeOK, CallInv, Stepping
    PROVE  TypeOK'
<1>1. outcome = "pending" /\ WellFormed(todo)
    BY TodoFacts DEF Stepping
<1>2. /\ todo \in Seq(StepNames)
      /\ todo # <<>> => Tail(todo) \in Seq(StepNames)
    BY <1>1 DEF WellFormed
<1> DEFINE Records == [verb : Verbs, item : Nat, applied : BOOLEAN, status : Nat]
<1>3. CASE Advance
  <2>1. /\ todo' \in Seq(StepNames) /\ tickets' \in Int
        /\ UNCHANGED <<call, pos, caught, outcome, reply, wire>>
    BY <1>2, <1>3 DEF Advance, Continue, TypeOK
  <2> QED
    BY <2>1 DEF TypeOK, StepNames
<1>4. CASE Fails
  <2>1. /\ outcome' \in Exceptions
        /\ UNCHANGED <<call, pos, todo, caught, tickets, reply, wire>>
    BY <1>4 DEF Fails, Throw
  <2> QED
    BY <2>1 DEF TypeOK
<1>5. CASE Goes
  <2>1. PICK r \in Replies : Sent(r.status) /\ reply' = r /\ Continue
    BY <1>5 DEF Goes
  <2>2. r.status \in Nat
    BY DEF Replies
  <2>3. wire' \in Seq(Records)
    BY <2>1, <2>2, WireFacts
  <2>4. /\ todo' \in Seq(StepNames) /\ tickets' \in Int /\ reply' \in Replies
        /\ UNCHANGED <<call, pos, caught, outcome>>
    BY <1>2, <2>1 DEF Sent, Continue, TypeOK
  <2> QED
    BY <2>3, <2>4 DEF TypeOK, StepNames
<1>6. CASE Breaks
  <2>1. wire' \in Seq(Records)
    BY <1>6, WireFacts DEF Breaks
  <2>2. /\ outcome' \in Exceptions /\ tickets' \in Int
        /\ UNCHANGED <<call, pos, todo, caught, reply>>
    BY <1>6 DEF Breaks, Sent, Exceptions, TypeOK
  <2> QED
    BY <2>1, <2>2 DEF TypeOK
<1>7. CASE Rescans
  <2>1. todo' = ScanAndReport /\ caught' = TRUE
        /\ UNCHANGED <<call, pos, reply, tickets, wire, outcome>>
    BY <1>7 DEF Rescans
  <2>2. ScanAndReport \in Seq(StepNames)
    BY StepKinds DEF ScanAndReport, StepNames
  <2> QED
    BY <2>1, <2>2 DEF TypeOK, StepNames
<1>8. CASE NextItem
  <2>1. /\ todo' \in Unpaced /\ pos' \in 1..Len(call.items)
        /\ UNCHANGED <<call, caught, reply, tickets, wire, outcome>>
    BY <1>1, <1>8, NextItemFacts
  <2>2. todo' \in Seq(StepNames)
    BY <2>1, UnpacedFacts DEF UnpacedStep, WellFormed
  <2>3. Len(call.items) \in Nat
    BY CallFacts DEF TypeOK
  <2>4. pos' \in 0..Len(call'.items)
    BY <2>1, <2>3
  <2> QED
    BY <2>1, <2>2, <2>4 DEF TypeOK, StepNames
<1>9. CASE Return
    BY <1>9 DEF Return, TypeOK
<1> QED
    BY <1>3, <1>4, <1>5, <1>6, <1>7, <1>8, <1>9 DEF Stepping

LEMMA PosStep ==
    ASSUME TypeOK, CallInv, Stepping
    PROVE  PosInv'
<1>1. /\ outcome = "pending" /\ WellFormed(todo) /\ PosInv
    BY TodoFacts DEF Stepping, CallInv
<1>2. /\ Tail(<<"check_all">>) = <<>> /\ Head(<<"check_all">>) = "check_all"
      /\ <<"check_all">> # <<>> /\ Head(<<"check">>) = "check"
    OBVIOUS
<1>3. /\ todo # <<>> =>
             /\ Head(todo) \in StepNames
             /\ Tail(todo) \notin {<<"check">>, <<"check_all">>}
      /\ pos = 0 /\ todo # <<>> => Tail(todo) = <<>>
    BY <1>1, <1>2 DEF WellFormed, PosInv
<1>4. CASE Advance
    BY <1>1, <1>3, <1>4 DEF Advance, Continue, PosInv, IsBatch
<1>5. CASE Fails
    BY <1>1, <1>5 DEF Fails, Throw, PosInv, IsBatch
<1>6. CASE Goes
  <2>1. todo # <<>> /\ todo' = Tail(todo) /\ UNCHANGED <<call, pos>>
    BY <1>6 DEF Goes, Sent, Continue
  <2> QED
    BY <1>1, <1>3, <2>1 DEF PosInv, IsBatch
<1>7. CASE Breaks
  <2>1. /\ Head(todo) \in Verbs /\ UNCHANGED <<call, pos, todo>>
    BY <1>7 DEF Breaks, Sent
  <2>2. todo \notin {<<"check">>, <<"check_all">>}
    BY <1>2, <2>1, StepKinds
  <2> QED
    BY <1>1, <2>1, <2>2 DEF PosInv, IsBatch
<1>8. CASE Rescans
  <2>1. /\ todo' = ScanAndReport /\ UNCHANGED <<call, pos>>
        /\ call.method = "get_url_report"
    BY <1>8 DEF Rescans
  <2>2. pos = 1
    BY <1>1, <2>1, ItemFacts DEF TypeOK, PosInv
  <2>3. /\ Tail(<<"check">>) = <<>> /\ Tail(ScanAndReport) # <<>>
        /\ Head(ScanAndReport) = "check"
    BY DEF ScanAndReport
  <2>4. ScanAndReport \notin {<<"check">>, <<"check_all">>}
    BY <1>2, <2>3
  <2> QED
    BY <1>1, <2>1, <2>2, <2>4 DEF PosInv, IsBatch
<1>9. CASE NextItem
  <2>1. /\ IsBatch' /\ pos' # 0 /\ todo' \notin {<<"check">>, <<"check_all">>}
    BY <1>1, <1>9, NextItemFacts
  <2> QED
    BY <2>1 DEF PosInv
<1>10. CASE Return
    BY <1>1, <1>10 DEF Return, PosInv, IsBatch
<1> QED
    BY <1>4, <1>5, <1>6, <1>7, <1>8, <1>9, <1>10 DEF Stepping

LEMMA TicketStep ==
    ASSUME TypeOK, CallInv, Stepping
    PROVE  TicketInv'
<1>1. outcome = "pending" /\ TicketInv
    BY DEF Stepping, CallInv
<1>2. tickets \in {0, 1}
    BY <1>1 DEF TicketInv, Paced
<1>3. CASE Advance
  <2>1. /\ todo # <<>> /\ todo' = Tail(todo) /\ UNCHANGED <<call, outcome>>
        /\ tickets' = IF Head(todo) = "wait" THEN tickets + 1 ELSE tickets
        /\ Head(todo) \notin Verbs
    BY <1>3, StepKinds DEF Advance, Continue
  <2>2. \/ todo' \in Unpaced /\ tickets' = 0
        \/ todo' \in Ready /\ tickets' = 1
    BY <1>1, <2>1, TodoFacts
  <2> QED
    BY <1>1, <2>1, <2>2 DEF TicketInv, Paced, Ended
<1>4. CASE Fails
  <2>1. PICK exception \in Exceptions :
            /\ Throw(exception)
            /\ \/ Head(todo) \in {"check", "check_all", "store"}
               \/ /\ Head(todo) = "encode" /\ Item = "garbled"
                  /\ exception = "json::type_error"
               \/ Head(todo) \in Decoders
    BY <1>4 DEF Fails
  <2>2. todo # <<>> /\ UNCHANGED <<call, todo, tickets>> /\ outcome' = exception
    BY <1>4, <2>1 DEF Fails, Throw
  <2>3. outcome' # "pending"
    BY <2>2 DEF Exceptions
  <2>4. tickets = 1 => Head(todo) = "encode"
    BY <1>1, <2>1, <2>2, TodoFacts, StepKinds
  <2>5. Item = "garbled" /\ Head(todo) = "encode" => Contains(call.items, "garbled")
    <3>1. pos \in 0..Len(call.items) /\ Len(call.items) \in Nat
      BY CallFacts DEF TypeOK
    <3>2. Head(todo) = "encode" => pos # 0
      BY <2>2 DEF CallInv, PosInv
    <3> QED
      BY <3>1, <3>2 DEF Contains, Item
  <2> QED
    BY <1>2, <2>1, <2>2, <2>3, <2>4, <2>5, StepKinds DEF TicketInv, Paced, Ended
<1>5. CASE Goes
  <2>1. /\ todo # <<>> /\ Head(todo) \in Verbs /\ tickets' = tickets - 1
        /\ todo' = Tail(todo) /\ UNCHANGED <<call, outcome>>
    BY <1>5 DEF Goes, Sent, Continue
  <2> QED
    BY <1>1, <2>1, TodoFacts DEF TicketInv, Paced, Ended
<1>6. CASE Breaks
  <2>1. /\ todo # <<>> /\ Head(todo) \in Verbs /\ tickets' = tickets - 1
        /\ outcome' = "NetworkError"
    BY <1>6 DEF Breaks, Sent
  <2> QED
    BY <1>1, <2>1, TodoFacts DEF TicketInv, Paced, Ended
<1>7. CASE Rescans
  <2>1. /\ todo # <<>> /\ Head(todo) \in Decoders
        /\ todo' = ScanAndReport /\ UNCHANGED <<call, tickets, outcome>>
    BY <1>7 DEF Rescans
  <2>2. tickets = 0
    BY <1>1, <2>1, TodoFacts, StepKinds
  <2>3. ScanAndReport \in Unpaced
    BY DEF ScanAndReport, Unpaced
  <2> QED
    BY <1>1, <2>1, <2>2, <2>3 DEF TicketInv, Paced, Ended
<1>8. CASE NextItem
  <2>1. todo = <<>> /\ todo' \in Unpaced /\ UNCHANGED <<call, tickets, outcome>>
    BY <1>1, <1>8, NextItemFacts DEF NextItem
  <2>2. tickets = 0
    BY <1>1, <2>1, TodoFacts
  <2> QED
    BY <1>1, <2>1, <2>2 DEF TicketInv, Paced, Ended
<1>9. CASE Return
  <2>1. todo = <<>> /\ outcome' = "returned" /\ UNCHANGED <<call, tickets>>
    BY <1>9 DEF Return
  <2>2. tickets = 0
    BY <1>1, <2>1, TodoFacts
  <2> QED
    BY <2>1, <2>2 DEF TicketInv, Paced, Ended
<1> QED
    BY <1>3, <1>4, <1>5, <1>6, <1>7, <1>8, <1>9 DEF Stepping

LEMMA AnswerStep ==
    ASSUME TypeOK, CallInv, Stepping
    PROVE  AnswerInv'
<1>1. outcome = "pending" /\ AnswerInv /\ WellFormed(todo)
    BY TodoFacts DEF Stepping, CallInv
<1>2. CASE Advance
  <2>1. todo # <<>> /\ todo' = Tail(todo) /\ Head(todo) \notin Verbs
    BY <1>2, StepKinds DEF Advance, Continue
  <2>2. ~(todo' # <<>> /\ Head(todo') \in Decoders)
    BY <1>1, <2>1 DEF WellFormed
  <2> QED
    BY <2>2 DEF AnswerInv
<1>3. CASE Fails
  <2>1. outcome' # "pending"
    BY <1>3 DEF Fails, Throw, Exceptions
  <2> QED
    BY <2>1 DEF AnswerInv
<1>4. CASE Goes
  <2>1. PICK r \in Replies : Sent(r.status) /\ reply' = r /\ Continue
    BY <1>4 DEF Goes
  <2>2. r.status \in Nat
    BY DEF Replies
  <2> DEFINE status == r.status
  <2>3. /\ Len(wire') = Len(wire) + 1
        /\ wire'[Len(wire) + 1].verb = Head(todo)
        /\ status \in Success /\ Head(todo) # "GET" =>
               wire'[Len(wire) + 1].applied
        /\ LastStatus' = status /\ wire' # <<>>
    BY <2>1, <2>2, WireFacts
  <2> QED
    BY <2>1, <2>3 DEF AnswerInv
<1>5. CASE Breaks
    BY <1>5 DEF Breaks, AnswerInv
<1>6. CASE Rescans
  <2>1. todo' = ScanAndReport /\ Head(ScanAndReport) = "check"
    BY <1>6 DEF Rescans, ScanAndReport
  <2> QED
    BY <2>1, StepKinds DEF AnswerInv
<1>7. CASE NextItem
    BY <1>1, <1>7, NextItemFacts DEF AnswerInv
<1>8. CASE Return
    BY <1>8 DEF Return, AnswerInv
<1> QED
    BY <1>2, <1>3, <1>4, <1>5, <1>6, <1>7, <1>8 DEF Stepping

\* The second scan comes after a single look-up.
LEMMA RescanFacts ==
    ASSUME TypeOK, CallInv, outcome = "pending", Rescans
    PROVE  /\ ~IsBatch /\ Len(wire) = 1 /\ wire[1].verb = "GET"
           /\ wire[1].status = 404 /\ DOMAIN wire = 1..1 /\ call.scan
           /\ call.method \notin SavedSearches
           /\ call.method = "get_url_report" /\ todo' = ScanAndReport /\ caught'
           /\ UNCHANGED <<call, pos, reply, tickets, wire, outcome>>
<1>1. /\ todo # <<>> /\ Head(todo) \in Decoders /\ reply.status = 404
      /\ call.method = "get_url_report" /\ call.scan /\ ~caught
      /\ todo' = ScanAndReport /\ caught' = TRUE
      /\ UNCHANGED <<call, pos, reply, tickets, wire, outcome>>
    BY DEF Rescans
<1>2. Reporting
    BY <1>1 DEF CallInv, ReportInv, Scanning
<1>3. /\ Head(<<"wait", "GET", "strict">>) = "wait"
      /\ Head(<<"GET", "strict">>) = "GET"
    OBVIOUS
<1>4. Len(wire) = 1
    BY <1>1, <1>2, <1>3, StepKinds DEF Reporting
<1>5. LastStatus = 404
    BY <1>1 DEF CallInv, AnswerInv
<1>6. wire[1].status = 404
    BY <1>4, <1>5 DEF LastStatus
<1>7. DOMAIN wire = 1..1
    BY <1>4 DEF TypeOK
<1>8. wire[1].verb = "GET"
    BY <1>1, <1>7 DEF CallInv, ReportInv
<1>9. ~IsBatch /\ call.method \notin SavedSearches
    BY <1>1, ItemFacts DEF TypeOK, SavedSearches
<1> QED
    BY <1>1, <1>4, <1>6, <1>7, <1>8, <1>9

LEMMA DoneStep ==
    ASSUME TypeOK, CallInv, Stepping
    PROVE  DoneInv'
<1>1. outcome = "pending" /\ DoneInv /\ AnswerInv /\ PosInv /\ WellFormed(todo)
    BY TodoFacts DEF Stepping, CallInv
<1>2. Head(<<"store">>) = "store" /\ <<"store">> # <<>>
    OBVIOUS
<1>3. CASE Advance
  <2>1. /\ todo # <<>> /\ todo' = Tail(todo) /\ Head(todo) \notin Verbs
        /\ UNCHANGED <<call, wire, outcome>>
        /\ Head(todo) \in Decoders =>
             \/ reply.status \in Success
             \/ reply.status = 404 /\ call.method \in SavedSearches
    BY <1>3, StepKinds DEF Advance, Continue
  <2>2. ASSUME todo' \in Over, wire # <<>>
        PROVE  \/ LastStatus \in Success
               \/ LastStatus = 404 /\ call.method \in SavedSearches
    <3>1. CASE Head(todo) \in Decoders
      BY <1>1, <2>1, <3>1 DEF AnswerInv
    <3>2. CASE Head(todo) \notin Decoders
      <4>1. todo \in {<<"store">>, <<"check">>, <<"check_all">>}
        BY <1>1, <2>1, <2>2, <3>2 DEF WellFormed
      <4>2. todo = <<"store">>
        BY <1>1, <2>2, <4>1 DEF PosInv
      <4> QED
        BY <1>1, <2>2, <4>2 DEF DoneInv, Over
    <3> QED
      BY <3>1, <3>2
  <2>3. ASSUME NEW k \in DOMAIN wire, wire[k].verb # "GET"
        PROVE  wire[k].applied
    <3>1. CASE k = Len(wire) /\ Head(todo) \in Decoders
      <4>1. call.method \notin SavedSearches
        BY <2>3 DEF CallInv, SavedInv
      <4> QED
        BY <1>1, <2>1, <2>3, <3>1, <4>1 DEF AnswerInv
    <3>2. CASE ~(k = Len(wire) /\ Head(todo) \in Decoders)
      BY <1>1, <2>3, <3>2 DEF DoneInv
    <3> QED
      BY <3>1, <3>2
  <2>4. LastStatus' = LastStatus
    BY <2>1 DEF LastStatus
  <2> QED
    BY <1>1, <2>1, <2>2, <2>3, <2>4 DEF DoneInv
<1>4. CASE Fails
  <2>1. outcome' \notin {"pending", "returned"}
    BY <1>4 DEF Fails, Throw, Exceptions
  <2> QED
    BY <2>1 DEF DoneInv
<1>5. CASE Goes
  <2>1. PICK r \in Replies : Sent(r.status) /\ reply' = r /\ Continue
    BY <1>5 DEF Goes
  <2>2. r.status \in Nat
    BY DEF Replies
  <2>3. /\ Len(wire) \in Nat /\ DOMAIN wire = 1..Len(wire)
        /\ Len(wire') = Len(wire) + 1 /\ DOMAIN wire' = 1..(Len(wire) + 1)
        /\ \A k \in 1..Len(wire) : wire'[k] = wire[k]
    BY <2>1, <2>2, WireFacts
  <2>4. todo # <<>> /\ Head(todo) \in Verbs /\ todo' = Tail(todo) /\ outcome' = outcome
    BY <2>1 DEF Sent, Continue
  <2>5. todo' # <<>> /\ Head(todo') \in Decoders
    BY <1>1, <2>4 DEF WellFormed
  <2>6. todo' \notin Over
    BY <1>2, <2>5, StepKinds DEF Over
  <2>7. ASSUME NEW k \in DOMAIN wire', wire'[k].verb # "GET", k # Len(wire')
        PROVE  wire'[k].applied
    <3>1. k \in 1..Len(wire) /\ wire'[k] = wire[k]
      BY <2>3, <2>7
    <3> QED
      BY <1>1, <2>3, <2>4, <2>7, <3>1, StepKinds DEF DoneInv
  <2> QED
    BY <1>1, <2>4, <2>5, <2>6, <2>7 DEF DoneInv
<1>6. CASE Breaks
    BY <1>6 DEF Breaks, DoneInv
<1>7. CASE Rescans
  <2>1. /\ DOMAIN wire = 1..1 /\ wire[1].verb = "GET"
        /\ todo' = ScanAndReport /\ UNCHANGED <<wire, outcome>>
    BY <1>1, <1>7, RescanFacts
  <2>2. ScanAndReport # <<>> /\ Head(ScanAndReport) = "check"
    BY DEF ScanAndReport
  <2>3. todo' \notin Over
    BY <1>2, <2>1, <2>2 DEF Over
  <2> QED
    BY <1>1, <2>1, <2>3 DEF DoneInv
<1>8. CASE NextItem
  <2>1. todo = <<>> /\ todo' \notin Over /\ UNCHANGED <<wire, outcome>>
    BY <1>1, <1>8, NextItemFacts DEF NextItem, Over
  <2> QED
    BY <1>1, <2>1 DEF DoneInv
<1>9. CASE Return
  <2>1. todo = <<>> /\ UNCHANGED <<call, todo, wire>>
    BY <1>9 DEF Return
  <2>2. LastStatus' = LastStatus
    BY <2>1 DEF LastStatus
  <2> QED
    BY <1>1, <2>1, <2>2 DEF DoneInv
<1> QED
    BY <1>3, <1>4, <1>5, <1>6, <1>7, <1>8, <1>9 DEF Stepping

LEMMA SavedStep ==
    ASSUME TypeOK, CallInv, Stepping
    PROVE  SavedInv'
<1> SUFFICES ASSUME call'.method \in SavedSearches
             PROVE  ~Mutates(todo') /\ \A k \in DOMAIN wire' : wire'[k].verb = "GET"
    BY DEF SavedInv
<1>1. outcome = "pending" /\ SavedInv /\ WellFormed(todo)
    BY TodoFacts DEF Stepping, CallInv
<1>2. UNCHANGED call
    BY DEF Stepping, Advance, Fails, Goes, Breaks, Rescans, NextItem, Return, Continue,
           Throw
<1>3. /\ ~IsBatch /\ call.method \in SavedSearches
      /\ ~Mutates(todo) /\ \A k \in DOMAIN wire : wire[k].verb = "GET"
    BY <1>1, <1>2, ItemFacts DEF SavedInv, TypeOK
<1>4. todo # <<>> => ~Mutates(Tail(todo)) /\ Head(todo) \notin Changing
    BY <1>1, <1>3 DEF WellFormed
<1>5. CASE Advance \/ Fails \/ Return
  <2>1. /\ UNCHANGED wire
        /\ \/ todo' = todo
           \/ todo # <<>> /\ todo' = Tail(todo)
    BY <1>5 DEF Advance, Fails, Return, Continue, Throw
  <2> QED
    BY <1>3, <1>4, <2>1
<1>6. ASSUME NEW status \in Nat, Sent(status)
      PROVE  \A k \in DOMAIN wire' : wire'[k].verb = "GET"
  <2>1. /\ Len(wire) \in Nat /\ DOMAIN wire = 1..Len(wire)
        /\ DOMAIN wire' = 1..(Len(wire) + 1)
        /\ \A k \in 1..Len(wire) : wire'[k] = wire[k]
        /\ wire'[Len(wire) + 1].verb = Head(todo)
    BY <1>6, WireFacts
  <2>2. Head(todo) = "GET"
    BY <1>4, <1>6 DEF Sent, Changing
  <2>3. \A k \in 1..(Len(wire) + 1) : k \in 1..Len(wire) \/ k = Len(wire) + 1
    BY <2>1
  <2> QED
    BY <1>3, <2>1, <2>2, <2>3
<1>7. CASE Goes
  <2>1. PICK r \in Replies : Sent(r.status) /\ Continue
    BY <1>7 DEF Goes
  <2>2. r.status \in Nat
    BY DEF Replies
  <2>3. todo # <<>> /\ todo' = Tail(todo)
    BY <2>1 DEF Sent, Continue
  <2> QED
    BY <1>4, <1>6, <2>1, <2>2, <2>3
<1>8. CASE Breaks
    BY <1>3, <1>6, <1>8 DEF Breaks
<1>9. CASE Rescans
    BY <1>1, <1>3, <1>9, RescanFacts
<1>10. CASE NextItem
    BY <1>1, <1>3, <1>10, NextItemFacts
<1> QED
    BY <1>5, <1>7, <1>8, <1>9, <1>10 DEF Stepping

LEMMA SingleStep ==
    ASSUME TypeOK, CallInv, Stepping
    PROVE  SingleInv'
<1> DEFINE AllRead == \A k \in DOMAIN wire : wire[k].verb = "GET"
           OneChange == \A k, l \in DOMAIN wire :
                           wire[k].verb # "GET" /\ wire[l].verb # "GET" => k = l
<1> SUFFICES ASSUME ~IsBatch'
             PROVE  /\ outcome' = "pending" /\ Mutates(todo') => AllRead'
                    /\ OneChange'
    BY DEF SingleInv
<1>1. outcome = "pending" /\ WellFormed(todo)
    BY TodoFacts DEF Stepping
<1>2. UNCHANGED call
    BY DEF Stepping, Advance, Fails, Goes, Breaks, Rescans, NextItem, Return, Continue,
           Throw
<1>3. /\ ~IsBatch
      /\ Mutates(todo) => AllRead
      /\ OneChange
    BY <1>1, <1>2 DEF CallInv, SingleInv, IsBatch
<1>4. todo # <<>> =>
          /\ Mutates(Tail(todo)) => Mutates(todo)
          /\ Head(todo) \in Changing => Mutates(todo) /\ ~Mutates(Tail(todo))
    BY <1>1 DEF WellFormed
<1>5. CASE Advance \/ Fails \/ Return
  <2>1. /\ UNCHANGED wire
        /\ \/ todo' = todo
           \/ todo # <<>> /\ todo' = Tail(todo)
    BY <1>5 DEF Advance, Fails, Return, Continue, Throw
  <2> QED
    BY <1>3, <1>4, <2>1
<1>6. ASSUME NEW status \in Nat, Sent(status)
      PROVE  OneChange' /\ (Mutates(Tail(todo)) => AllRead')
  <2>1. /\ Len(wire) \in Nat /\ DOMAIN wire = 1..Len(wire)
        /\ DOMAIN wire' = 1..(Len(wire) + 1)
        /\ \A k \in 1..Len(wire) : wire'[k] = wire[k]
        /\ wire'[Len(wire) + 1].verb = Head(todo)
    BY <1>6, WireFacts
  <2>2. todo # <<>> /\ Head(todo) \in Verbs
    BY <1>6 DEF Sent
  <2>3. \A k \in DOMAIN wire' : k \in DOMAIN wire \/ k = Len(wire) + 1
    BY <2>1
  <2>4. CASE Head(todo) = "GET"
    BY <1>3, <1>4, <2>1, <2>2, <2>3, <2>4
  <2>5. CASE Head(todo) # "GET"
    <3>1. AllRead /\ ~Mutates(Tail(todo))
      BY <1>3, <1>4, <2>2, <2>5 DEF Changing
    <3>2. \A k \in DOMAIN wire' : wire'[k].verb # "GET" => k = Len(wire) + 1
      BY <2>1, <2>3, <3>1
    <3> QED
      BY <3>1, <3>2
  <2> QED
    BY <2>4, <2>5
<1>7. CASE Goes
  <2>1. PICK r \in Replies : Sent(r.status) /\ Continue
    BY <1>7 DEF Goes
  <2>2. r.status \in Nat
    BY DEF Replies
  <2>3. todo' = Tail(todo)
    BY <2>1 DEF Continue
  <2> QED
    BY <1>6, <2>1, <2>2, <2>3
<1>8. CASE Breaks
  <2>1. OneChange' /\ outcome' # "pending"
    BY <1>6, <1>8 DEF Breaks
  <2> QED
    BY <2>1
<1>9. CASE Rescans
  <2>1. /\ DOMAIN wire = 1..1 /\ wire[1].verb = "GET" /\ UNCHANGED wire
    BY <1>1, <1>9, RescanFacts
  <2> QED
    BY <2>1
<1>10. CASE NextItem
    BY <1>1, <1>3, <1>10, NextItemFacts
<1> QED
    BY <1>5, <1>7, <1>8, <1>9, <1>10 DEF Stepping

LEMMA InvalidStep ==
    ASSUME TypeOK, CallInv, Stepping
    PROVE  InvalidInv'
<1>1. UNCHANGED call
    BY DEF Stepping, Advance, Fails, Goes, Breaks, Rescans, NextItem, Return, Continue,
           Throw
<1>2. (IsBatch' <=> IsBatch) /\ ItemSteps' = ItemSteps
    BY <1>1 DEF IsBatch, ItemSteps
<1> SUFFICES ASSUME Contains(call.items, "bad"),
                    IsBatch \/ Contains(ItemSteps, "check")
             PROVE  /\ wire' = <<>> /\ tickets' = 0
                    /\ todo' = IF IsBatch THEN <<"check_all">> ELSE ItemSteps
    BY <1>1, <1>2 DEF InvalidInv
<1>3. /\ wire = <<>> /\ tickets = 0
      /\ todo = IF IsBatch THEN <<"check_all">> ELSE ItemSteps
    BY DEF CallInv, InvalidInv
<1>4. /\ todo # <<>>
      /\ Head(todo) = IF IsBatch THEN "check_all" ELSE "check"
  <2>1. CASE IsBatch
    BY <1>3, <2>1
  <2>2. CASE ~IsBatch
    <3>1. ItemSteps \in Shapes /\ Contains(ItemSteps, "check")
      BY <2>2, ItemFacts DEF TypeOK
    <3> QED
      BY <1>3, <2>2, <3>1, ChecksComeFirst
  <2> QED
    BY <2>1, <2>2
<1>5. Head(todo) \notin Verbs \cup Decoders \cup {"encode", "wait", "store"}
    BY <1>4, StepKinds
<1>6. ~IsBatch => Item = "bad"
  <2>1. ~IsBatch => pos = 1 /\ Len(call.items) = 1
    BY CallFacts DEF TypeOK, CallInv, PosInv
  <2> QED
    BY <2>1 DEF Contains, Item
<1>7. ~Advance
    BY <1>4, <1>5, <1>6 DEF Advance
<1>8. ~Goes /\ ~Breaks /\ ~Rescans /\ ~NextItem /\ ~Return
    BY <1>4, <1>5 DEF Goes, Breaks, Sent, Rescans, NextItem, Return
<1>9. CASE Fails
    BY <1>3, <1>9 DEF Fails, Throw
<1> QED
    BY <1>7, <1>8, <1>9 DEF Stepping

LEMMA ClearStep ==
    ASSUME TypeOK, CallInv, Stepping
    PROVE  ClearInv'
<1>1. outcome = "pending" /\ ClearInv /\ AnswerInv /\ WellFormed(todo)
    BY TodoFacts DEF Stepping, CallInv
<1>2. CASE Advance
  <2>1. /\ todo # <<>> /\ UNCHANGED wire
        /\ Head(todo) \in Decoders => reply.status \in Success \cup {404}
    BY <1>2, StepKinds DEF Advance
  <2>2. wire # <<>> => LastStatus \in Success \cup {404}
    BY <1>1, <2>1 DEF ClearInv, AnswerInv
  <2>3. LastStatus' = LastStatus
    BY <2>1 DEF LastStatus
  <2> QED
    BY <2>1, <2>2, <2>3 DEF ClearInv
<1>3. CASE Fails
  <2>1. outcome' \notin {"pending", "returned"}
    BY <1>3 DEF Fails, Throw, Exceptions
  <2> QED
    BY <2>1 DEF ClearInv
<1>4. CASE Goes
  <2>1. todo # <<>> /\ Head(todo) \in Verbs /\ todo' = Tail(todo)
    BY <1>4 DEF Goes, Sent, Continue
  <2>2. todo' # <<>> /\ Head(todo') \in Decoders
    BY <1>1, <2>1 DEF WellFormed
  <2> QED
    BY <2>2 DEF ClearInv
<1>5. CASE Breaks
    BY <1>5 DEF Breaks, ClearInv
<1>6. CASE Rescans
  <2>1. todo # <<>> /\ Head(todo) \in Decoders /\ reply.status = 404 /\ UNCHANGED wire
    BY <1>6 DEF Rescans
  <2>2. LastStatus' = 404
    BY <1>1, <2>1 DEF AnswerInv, LastStatus
  <2> QED
    BY <2>2 DEF ClearInv
<1>7. CASE NextItem \/ Return
  <2>1. todo = <<>> /\ UNCHANGED wire
    BY <1>7 DEF NextItem, Return
  <2>2. wire # <<>> => LastStatus \in Success \cup {404}
    BY <1>1, <2>1 DEF ClearInv
  <2>3. LastStatus' = LastStatus
    BY <2>1 DEF LastStatus
  <2> QED
    BY <2>1, <2>2, <2>3 DEF ClearInv
<1> QED
    BY <1>2, <1>3, <1>4, <1>5, <1>6, <1>7 DEF Stepping

LEMMA CauseStep ==
    ASSUME TypeOK, CallInv, Stepping
    PROVE  ExceptionNamesCause'
<1>1. outcome = "pending" /\ AnswerInv /\ ClearInv
    BY DEF Stepping, CallInv
<1>2. CASE outcome' = "pending"
    BY <1>2 DEF ExceptionNamesCause, Ended
<1>3. CASE Fails
  <2>1. PICK exception \in Exceptions :
            /\ Throw(exception)
            /\ \/ /\ Head(todo) \in {"check", "check_all", "store", "encode"}
                  /\ exception \in {"VtError", "json::type_error"}
               \/ Head(todo) \in Decoders /\ exception \in Decoded(Head(todo), reply)
    BY <1>3 DEF Fails
  <2>2. todo # <<>> /\ UNCHANGED wire /\ outcome' = exception
    BY <1>3, <2>1 DEF Fails, Throw
  <2>3. LastStatus' = LastStatus
    BY <2>2 DEF LastStatus
  <2>4. CASE Head(todo) \notin Decoders
    <3>1. exception \in {"VtError", "json::type_error"}
      BY <2>1, <2>4
    <3>2. wire # <<>> => LastStatus \in Success \cup {404}
      BY <1>1, <2>4 DEF ClearInv
    <3>3. wire # <<>> => LastStatus \notin {0, 403, 429}
      BY <3>2 DEF Success
    <3> QED
      BY <2>2, <2>3, <3>1, <3>3 DEF ExceptionNamesCause, Ended
  <2>5. CASE Head(todo) \in Decoders
    <3>1. exception \in Decoded(Head(todo), reply)
      BY <2>1, <2>5, StepKinds
    <3>2. wire # <<>> /\ reply \in Replies /\ LastStatus = reply.status
      BY <1>1, <2>2, <2>5 DEF AnswerInv
    <3>3. exception # "value"
      BY DEF Exceptions
    <3>4. CASE reply.status \in Success
      <4>1. exception \in {"VtError", "json::type_error"}
        BY <2>5, <3>1, <3>2, <3>3, <3>4, DecodedFacts
      <4>2. LastStatus \notin {0, 403, 429}
        BY <3>2, <3>4 DEF Success
      <4> QED
        BY <2>2, <2>3, <4>1, <4>2 DEF ExceptionNamesCause, Ended
    <3>5. CASE reply.status \notin Success
      <4>1. /\ exception = ThrowForStatus(reply.status)
            /\ exception \in {"AuthError", "NotFound", "RateLimit", "ApiError"}
            /\ exception = "NotFound" <=> reply.status = 404
            /\ exception = "AuthError" <=> reply.status = 403
            /\ exception = "RateLimit" <=> reply.status = 429
        BY <2>5, <3>1, <3>2, <3>3, <3>5, DecodedFacts
      <4>2. reply.status # 0
        BY <3>2 DEF Replies
      <4> QED
        BY <2>2, <2>3, <3>2, <4>1, <4>2 DEF ExceptionNamesCause, Ended
    <3> QED
      BY <3>4, <3>5
  <2> QED
    BY <2>4, <2>5
<1>4. CASE Breaks
  <2>1. LastStatus' = 0 /\ wire' # <<>> /\ outcome' = "NetworkError"
    BY <1>4, WireFacts DEF Breaks
  <2> QED
    BY <2>1 DEF ExceptionNamesCause, Ended
<1>5. CASE Return
  <2>1. todo = <<>> /\ UNCHANGED wire /\ outcome' = "returned"
    BY <1>5 DEF Return
  <2>2. wire # <<>> => LastStatus \in Success \cup {404}
    BY <1>1, <2>1 DEF ClearInv
  <2>3. wire # <<>> => LastStatus \notin {0, 403, 429}
    BY <2>2 DEF Success
  <2>4. LastStatus' = LastStatus
    BY <2>1 DEF LastStatus
  <2> QED
    BY <2>1, <2>3, <2>4 DEF ExceptionNamesCause, Ended
<1>6. Advance \/ Goes \/ Rescans \/ NextItem => outcome' = "pending"
    BY <1>1 DEF Advance, Goes, Rescans, NextItem, Continue
<1> QED
    BY <1>2, <1>3, <1>4, <1>5, <1>6 DEF Stepping

LEMMA BatchStep ==
    ASSUME TypeOK, CallInv, Stepping
    PROVE  BatchInv'
<1>1. UNCHANGED call
    BY DEF Stepping, Advance, Fails, Goes, Breaks, Rescans, NextItem, Return, Continue,
           Throw
<1>2. IsBatch' <=> IsBatch
    BY <1>1 DEF IsBatch
<1> DEFINE Heard == {<<"check_all">>, <<>>} \cup {<<d>> : d \in Decoders}
           InOrder == \A k \in DOMAIN wire : wire[k].item = k
           AppliedBefore ==
               \A k \in DOMAIN wire :
                   k < pos /\ wire[k].verb # "GET" => wire[k].applied
           AtItem == \/ todo \in Asking /\ Len(wire) = pos - 1
                     \/ todo \in Heard /\ Len(wire) = pos
           InRange == Len(wire) \in {pos - 1, pos}
<1> SUFFICES ASSUME IsBatch
             PROVE  /\ InOrder' /\ AppliedBefore' /\ InRange'
                    /\ outcome' \in {"pending", "returned"} => AtItem'
    BY <1>2 DEF BatchInv
<1>3. /\ InOrder /\ AppliedBefore /\ AtItem /\ InRange
      /\ outcome = "pending"
    BY DEF Stepping, CallInv, BatchInv
<1>4. /\ \A s \in Asking :
          /\ s # <<>> /\ Head(s) \in Verbs \cup {"check", "wait"}
          /\ Head(s) \in Verbs => Tail(s) \in {<<d>> : d \in Decoders}
          /\ Head(s) \notin Verbs => Tail(s) \in Asking
      /\ \A s \in Heard : s # <<>> =>
          Tail(s) = <<>> /\ Head(s) \in Decoders \cup {"check_all"}
  <2>1. \A d : Tail(<<d>>) = <<>> /\ Head(<<d>>) = d
    OBVIOUS
  <2>2. /\ Tail(<<"check_all">>) = <<>>
        /\ Head(<<"check_all">>) = "check_all"
    OBVIOUS
  <2>3. \A s \in Heard : s # <<>> =>
          Tail(s) = <<>> /\ Head(s) \in Decoders \cup {"check_all"}
    BY <2>1, <2>2
  <2> QED
    BY <2>3, AskingFacts
<1> HIDE DEF Heard
<1>5. Len(wire) \in Nat /\ pos \in Nat /\ DOMAIN wire = 1..Len(wire)
    BY CallFacts DEF TypeOK
<1>6. <<>> \in Heard /\ \A d \in Decoders : <<d>> \in Heard
    BY DEF Heard
<1>7. CASE Advance
  <2>1. /\ todo # <<>> /\ todo' = Tail(todo) /\ Head(todo) \notin Verbs
        /\ UNCHANGED <<wire, pos>>
    BY <1>7, StepKinds DEF Advance, Continue
  <2>2. AtItem'
    <3>1. CASE todo \in Asking /\ Len(wire) = pos - 1
      BY <1>4, <2>1, <3>1
    <3>2. CASE todo \in Heard /\ Len(wire) = pos
      BY <1>4, <1>6, <2>1, <3>2
    <3> QED
      BY <1>3, <3>1, <3>2
  <2>3. InOrder' /\ AppliedBefore' /\ InRange'
    BY <1>3, <2>1
  <2> QED
    BY <2>2, <2>3
<1>8. CASE Fails \/ Return
  <2>1. UNCHANGED <<todo, wire, pos>>
    BY <1>8 DEF Fails, Throw, Return
  <2> QED
    BY <1>3, <2>1
<1>9. ASSUME NEW status \in Nat, Sent(status), UNCHANGED pos
      PROVE  /\ InOrder' /\ AppliedBefore' /\ Len(wire') = pos'
             /\ Tail(todo) \in Heard
  <2>1. todo # <<>> /\ Head(todo) \in Verbs
    BY <1>9 DEF Sent
  <2>2. todo \notin Heard
    BY <1>4, <2>1, StepKinds
  <2>3. todo \in Asking /\ Len(wire) = pos - 1
    BY <1>3, <2>2
  <2>4. /\ DOMAIN wire' = 1..(Len(wire) + 1) /\ Len(wire') = Len(wire) + 1
        /\ \A k \in 1..Len(wire) : wire'[k] = wire[k]
        /\ wire'[Len(wire) + 1].item = pos
    BY <1>9, WireFacts
  <2>5. \A k \in DOMAIN wire' : k \in DOMAIN wire \/ k = Len(wire) + 1
    BY <1>5, <2>4
  <2>6. InOrder'
    BY <1>3, <1>5, <2>3, <2>4, <2>5
  <2>7. AppliedBefore'
    BY <1>3, <1>5, <1>9, <2>3, <2>4, <2>5
  <2>8. Tail(todo) \in Heard
    BY <1>4, <1>6, <2>1, <2>3
  <2> QED
    BY <1>5, <1>9, <2>3, <2>4, <2>6, <2>7, <2>8
<1>10. CASE Goes
  <2>1. PICK r \in Replies : Sent(r.status) /\ Continue
    BY <1>10 DEF Goes
  <2>2. r.status \in Nat
    BY DEF Replies
  <2>3. todo' = Tail(todo) /\ UNCHANGED pos
    BY <2>1 DEF Continue
  <2> QED
    BY <1>9, <2>1, <2>2, <2>3
<1>11. CASE Breaks
  <2>1. /\ Sent(0) /\ UNCHANGED pos /\ outcome' \notin {"pending", "returned"}
    BY <1>11 DEF Breaks
  <2> QED
    BY <1>9, <2>1
<1>12. CASE Rescans
    BY <1>3, <1>12, RescanFacts
<1>13. CASE NextItem
  <2>1. /\ Len(wire) = pos /\ pos' = pos + 1 /\ UNCHANGED wire
        /\ todo' \in Asking /\ todo = <<>>
    BY <1>3, <1>13, NextItemFacts DEF NextItem
  <2>2. \A k \in DOMAIN wire : wire[k].verb # "GET" => wire[k].applied
    BY <1>3, <2>1 DEF CallInv, DoneInv
  <2> QED
    BY <1>3, <1>5, <2>1, <2>2
<1> QED
    BY <1>7, <1>8, <1>10, <1>11, <1>12, <1>13 DEF Stepping

LEMMA ReportStep ==
    ASSUME TypeOK, CallInv, Stepping
    PROVE  ReportInv'
<1>1. UNCHANGED call
    BY DEF Stepping, Advance, Fails, Goes, Breaks, Rescans, NextItem, Return, Continue,
           Throw
<1> DEFINE InTurn == \A k \in DOMAIN wire :
                        wire[k].verb = IF k = 2 THEN "POST" ELSE "GET"
           Missing == Len(wire) > 1 \/ caught => call.scan /\ wire[1].status = 404
           Short == Len(wire) <= 3
<1> SUFFICES ASSUME call.method = "get_url_report"
             PROVE  /\ outcome' \in {"pending", "returned"} =>
                           Reporting' \/ Scanning'
                    /\ Short' /\ InTurn' /\ Missing'
    BY <1>1 DEF ReportInv
<1>2. /\ InTurn /\ Missing /\ (Reporting \/ Scanning) /\ Short
      /\ outcome = "pending" /\ ~IsBatch
    BY ItemFacts DEF Stepping, CallInv, ReportInv, TypeOK
<1> DEFINE Decode == <<"strict">>
           Send == <<"GET", "strict">>
           Look == <<"wait", "GET", "strict">>
           Found == <<"lenient", "wait", "GET", "strict">>
           SendScan == <<"POST", "lenient", "wait", "GET", "strict">>
           WaitToScan == <<"wait", "POST", "lenient", "wait", "GET", "strict">>
<1>3. /\ Decode # <<>> /\ Head(Decode) = "strict" /\ Tail(Decode) = <<>>
      /\ Send # <<>> /\ Head(Send) = "GET" /\ Tail(Send) = Decode
      /\ Look # <<>> /\ Head(Look) = "wait" /\ Tail(Look) = Send
      /\ Found # <<>> /\ Head(Found) = "lenient" /\ Tail(Found) = Look
      /\ SendScan # <<>> /\ Head(SendScan) = "POST" /\ Tail(SendScan) = Found
      /\ WaitToScan # <<>> /\ Head(WaitToScan) = "wait" /\ Tail(WaitToScan) = SendScan
      /\ ScanAndReport # <<>> /\ Head(ScanAndReport) = "check"
      /\ Tail(ScanAndReport) = WaitToScan
    BY DEF ScanAndReport
<1> DEFINE ReportingAt(t, c, n) ==
               /\ ~c
               /\ \/ t \in {Look, Send} /\ n = 0
                  \/ t \in {Decode, <<>>} /\ n = 1
           ScanningAt(t, c, n) ==
               /\ c
               /\ \/ t \in {ScanAndReport, WaitToScan, SendScan} /\ n = 1
                  \/ t \in {Found, Look, Send} /\ n = 2
                  \/ t \in {Decode, <<>>} /\ n = 3
<1>12. /\ Reporting <=> ReportingAt(todo, caught, Len(wire))
       /\ Scanning <=> ScanningAt(todo, caught, Len(wire))
       /\ Reporting' <=> ReportingAt(todo', caught', Len(wire'))
       /\ Scanning' <=> ScanningAt(todo', caught', Len(wire'))
    BY DEF Reporting, Scanning
<1> HIDE DEF Decode, Send, Look, Found, SendScan, WaitToScan
<1>4. Len(wire) \in Nat /\ DOMAIN wire = 1..Len(wire)
    BY DEF TypeOK
<1>5. CASE Advance
  <2>1. /\ todo # <<>> /\ todo' = Tail(todo) /\ Head(todo) \notin Verbs
        /\ UNCHANGED <<wire, caught>>
    BY <1>5, StepKinds DEF Advance, Continue
  <2>2. ASSUME Reporting
        PROVE  Reporting'
    <3>1. \/ todo = Look /\ Len(wire) = 0
          \/ todo = Decode /\ Len(wire) = 1
      BY <1>3, <1>12, <2>1, <2>2, StepKinds
    <3>2. /\ ~caught' /\ Len(wire') = Len(wire)
          /\ \/ todo' = Send /\ Len(wire) = 0
             \/ todo' = <<>> /\ Len(wire) = 1
      BY <1>3, <1>12, <2>1, <2>2, <3>1
    <3>3. ReportingAt(todo', caught', Len(wire'))
      BY <3>2
    <3> QED
      BY <1>12, <3>3
  <2>3. ASSUME Scanning
        PROVE  Scanning'
    <3>1. \/ todo \in {ScanAndReport, WaitToScan} /\ Len(wire) = 1
          \/ todo \in {Found, Look} /\ Len(wire) = 2
          \/ todo = Decode /\ Len(wire) = 3
      BY <1>3, <1>12, <2>1, <2>3, StepKinds
    <3>2. /\ caught' /\ Len(wire') = Len(wire)
          /\ \/ todo' \in {WaitToScan, SendScan} /\ Len(wire) = 1
             \/ todo' \in {Look, Send} /\ Len(wire) = 2
             \/ todo' = <<>> /\ Len(wire) = 3
      BY <1>3, <1>12, <2>1, <2>3, <3>1
    <3>3. ScanningAt(todo', caught', Len(wire'))
      BY <3>2
    <3> QED
      BY <1>12, <3>3
  <2>4. Short' /\ InTurn' /\ Missing'
    BY <1>1, <1>2, <2>1
  <2> QED
    BY <1>2, <2>2, <2>3, <2>4
<1>6. CASE Fails \/ Return
  <2>1. UNCHANGED <<todo, wire, caught>>
    BY <1>6 DEF Fails, Throw, Return
  <2>2. (Reporting' <=> Reporting) /\ (Scanning' <=> Scanning)
    BY <2>1 DEF Reporting, Scanning
  <2> QED
    BY <1>1, <1>2, <2>1, <2>2
<1>7. ASSUME NEW status \in Nat, Sent(status), UNCHANGED caught
      PROVE  /\ Short' /\ InTurn' /\ Missing'
             /\ todo' = Tail(todo) => Reporting' \/ Scanning'
  <2>1. todo # <<>> /\ Head(todo) \in Verbs
    BY <1>7 DEF Sent
  <2>2. \/ ~caught /\ todo = Send /\ Len(wire) = 0
        \/ caught /\ todo = SendScan /\ Len(wire) = 1
        \/ caught /\ todo = Send /\ Len(wire) = 2
    BY <1>2, <1>3, <1>12, <2>1, StepKinds
  <2>3. /\ DOMAIN wire' = 1..(Len(wire) + 1) /\ Len(wire') = Len(wire) + 1
        /\ \A k \in 1..Len(wire) : wire'[k] = wire[k]
        /\ wire'[Len(wire) + 1].verb = Head(todo)
    BY <1>7, WireFacts
  <2>4. \A k \in DOMAIN wire' : k \in DOMAIN wire \/ k = Len(wire) + 1
    BY <1>4, <2>3
  <2>5. wire'[Len(wire) + 1].verb = IF Len(wire) + 1 = 2 THEN "POST" ELSE "GET"
    <3>1. CASE todo = Send /\ Len(wire) \in {0, 2}
      BY <1>3, <1>4, <2>2, <2>3, <3>1
    <3>2. CASE todo = SendScan /\ Len(wire) = 1
      BY <1>3, <1>4, <2>2, <2>3, <3>2
    <3> QED
      BY <2>2, <3>1, <3>2
  <2>6. InTurn'
    BY <1>2, <1>4, <2>3, <2>4, <2>5
  <2>7. Short'
    BY <2>2, <2>3
  <2>8. Missing'
    BY <1>1, <1>2, <1>4, <1>7, <2>2, <2>3
  <2>9. ASSUME todo' = Tail(todo)
        PROVE  Reporting' \/ Scanning'
    <3>1. CASE ~caught /\ todo = Send /\ Len(wire) = 0
      <4>1. todo' = Decode /\ ~caught' /\ Len(wire') = 1
        BY <1>3, <1>7, <2>3, <2>9, <3>1
      <4>2. ReportingAt(todo', caught', Len(wire'))
        BY <4>1
      <4> QED
        BY <1>12, <4>2
    <3>2. CASE caught /\ todo = SendScan /\ Len(wire) = 1
      <4>1. todo' = Found /\ caught' /\ Len(wire') = 2
        BY <1>3, <1>7, <2>3, <2>9, <3>2
      <4>2. ScanningAt(todo', caught', Len(wire'))
        BY <4>1
      <4> QED
        BY <1>12, <4>2
    <3>3. CASE caught /\ todo = Send /\ Len(wire) = 2
      <4>1. todo' = Decode /\ caught' /\ Len(wire') = 3
        BY <1>3, <1>7, <2>3, <2>9, <3>3
      <4>2. ScanningAt(todo', caught', Len(wire'))
        BY <4>1
      <4> QED
        BY <1>12, <4>2
    <3> QED
      BY <2>2, <3>1, <3>2, <3>3
  <2> QED
    BY <2>6, <2>7, <2>8, <2>9
<1>8. CASE Goes
  <2>1. PICK r \in Replies : Sent(r.status) /\ Continue
    BY <1>8 DEF Goes
  <2>2. r.status \in Nat
    BY DEF Replies
  <2>3. todo' = Tail(todo) /\ UNCHANGED caught
    BY <2>1 DEF Continue
  <2> QED
    BY <1>7, <2>1, <2>2, <2>3
<1>9. CASE Breaks
  <2>1. /\ Sent(0) /\ UNCHANGED caught /\ outcome' \notin {"pending", "returned"}
    BY <1>9 DEF Breaks
  <2> QED
    BY <1>7, <2>1
<1>10. CASE Rescans
  <2>1. /\ Len(wire) = 1 /\ wire[1].status = 404 /\ call.scan
        /\ todo' = ScanAndReport /\ caught' /\ UNCHANGED wire
    BY <1>2, <1>10, RescanFacts
  <2> QED
    BY <1>1, <1>2, <1>12, <2>1
<1>11. CASE NextItem
    BY <1>2, <1>11, NextItemFacts
<1> QED
    BY <1>5, <1>6, <1>8, <1>9, <1>10, <1>11 DEF Stepping

\* A step that changes nothing keeps everything.
LEMMA CallStutter ==
    ASSUME TypeOK, CallInv, UNCHANGED vars
    PROVE  TypeOK' /\ CallInv'
<1>1. /\ UNCHANGED <<call, pos, todo, caught, reply, tickets, wire, outcome>>
      /\ (IsBatch' <=> IsBatch) /\ ItemSteps' = ItemSteps
      /\ LastStatus' = LastStatus
    BY DEF vars, IsBatch, ItemSteps, LastStatus
<1>2. TypeOK' /\ PosInv' /\ TicketInv'
    BY <1>1 DEF TypeOK, CallInv, PosInv, TicketInv, Paced, Ended
<1>3. AnswerInv' /\ ClearInv' /\ DoneInv' /\ SavedInv'
    BY <1>1 DEF CallInv, AnswerInv, ClearInv, DoneInv, SavedInv
<1>4. SingleInv' /\ ReportInv' /\ BatchInv'
    BY <1>1 DEF CallInv, SingleInv, ReportInv, Reporting, Scanning, BatchInv
<1>5. InvalidInv' /\ ExceptionNamesCause'
    BY <1>1 DEF CallInv, InvalidInv, ExceptionNamesCause, Ended
<1> QED
    BY <1>2, <1>3, <1>4, <1>5 DEF CallInv

(* The parts of the invariant hold together in every reachable state.       *)
LEMMA CallSafe == Spec => [](TypeOK /\ CallInv)
<1>1. Init => TypeOK /\ CallInv
    BY CallStart
<1>2. TypeOK /\ CallInv /\ [Next]_vars => (TypeOK /\ CallInv)'
  <2> SUFFICES ASSUME TypeOK, CallInv, [Next]_vars
               PROVE  (TypeOK /\ CallInv)'
    OBVIOUS
  <2>1. CASE Next
    <3>1. Stepping
      BY <2>1, StepCases DEF Stepping
    <3>2. TypeOK' /\ PosInv' /\ TicketInv' /\ AnswerInv' /\ DoneInv'
      BY <3>1, TypeStep, PosStep, TicketStep, AnswerStep, DoneStep
    <3>3. SavedInv' /\ SingleInv' /\ ReportInv' /\ BatchInv' /\ InvalidInv'
      BY <3>1, SavedStep, SingleStep, ReportStep, BatchStep, InvalidStep
    <3>4. ExceptionNamesCause' /\ ClearInv'
      BY <3>1, CauseStep, ClearStep
    <3> QED
      BY <3>2, <3>3, <3>4 DEF CallInv
  <2>2. CASE UNCHANGED vars
    BY <2>2, CallStutter
  <2> QED
    BY <2>1, <2>2
<1> QED
    BY <1>1, <1>2, PTL DEF Spec

-----------------------------------------------------------------------------

(* The variables keep their types, whatever the server answers.             *)
THEOREM TypeCorrect == Spec => []TypeOK
    BY CallSafe, PTL

(* Every method, with every argument, waits for the limiter once for each   *)
(* request, and a wait that no request follows is that of a body that could *)
(* not be encoded.                                                          *)
THEOREM RequestsArePaced == Spec => []Paced
<1>1. CallInv => Paced
    BY DEF CallInv, TicketInv
<1> QED
    BY <1>1, CallSafe, PTL

(* A call whose arguments its method refuses sends nothing; a batch of any  *)
(* length with a bad item in any place is such a call.                      *)
THEOREM InvalidIsRefused == Spec => []InvalidSendsNothing
<1>1. CallInv => InvalidSendsNothing
    BY DEF CallInv, InvalidInv, InvalidSendsNothing
<1> QED
    BY <1>1, CallSafe, PTL

(* README.md:256-258 and 260: a call that ends with a 403, a 429 or no      *)
(* answer says so, and none says it of another exchange.  ClearInv is why   *)
(* no refusal is forgotten: what follows it is its decoder, or the end.     *)
THEOREM ExceptionsAreTrue == Spec => []ExceptionNamesCause
<1>1. CallInv => ExceptionNamesCause
    BY DEF CallInv
<1> QED
    BY <1>1, CallSafe, PTL

(* A call that returns has done all that it was asked to do: the parts      *)
(* DoneInv (what is over was a success) and AnswerInv carry this through    *)
(* every decoder.                                                           *)
THEOREM ReturnsAreTrue == Spec => []ReturnMeansDone
<1>1. CallInv => ReturnMeansDone
  <2> SUFFICES ASSUME CallInv, outcome = "returned", wire # <<>>
               PROVE  /\ \/ LastStatus \in Success
                         \/ LastStatus = 404 /\ call.method \in SavedSearches
                      /\ \A i \in DOMAIN call.items : Applied(i) = Changes(i)
    BY DEF ReturnMeansDone, SavedSearches
  <2>1. /\ todo = <<>>
        /\ LastStatus \in Success \/ (LastStatus = 404 /\ call.method \in SavedSearches)
        /\ \A k \in DOMAIN wire : wire[k].verb # "GET" => wire[k].applied
    BY DEF CallInv, DoneInv, Over
  <2>2. \A i \in DOMAIN call.items : Applied(i) = Changes(i)
    BY <2>1 DEF Applied, Changes, Requests
  <2> QED
    BY <2>1, <2>2
<1> QED
    BY <1>1, CallSafe, PTL

(* get_url_report asks for a scan once at most, only with the flag and      *)
(* after a 404, and returns what it looked up last.                         *)
THEOREM ScansAreWanted == Spec => []ScanOnlyWhenMissing
<1>1. TypeOK /\ CallInv => ScanOnlyWhenMissing
  <2> SUFFICES ASSUME TypeOK, CallInv, call.method = "get_url_report"
               PROVE  /\ Len(wire) <= 3
                      /\ \A k \in DOMAIN wire :
                          wire[k].verb = "POST" =>
                              k = 2 /\ call.scan /\ wire[1].status = 404
                      /\ outcome = "returned" => wire[Len(wire)].verb = "GET"
    BY DEF ScanOnlyWhenMissing
  <2>1. /\ outcome \in {"pending", "returned"} => Reporting \/ Scanning
        /\ Len(wire) <= 3
        /\ \A k \in DOMAIN wire : wire[k].verb = IF k = 2 THEN "POST" ELSE "GET"
        /\ Len(wire) > 1 \/ caught => call.scan /\ wire[1].status = 404
    BY DEF CallInv, ReportInv
  <2>2. Len(wire) \in Nat /\ DOMAIN wire = 1..Len(wire)
    BY DEF TypeOK
  <2>3. ASSUME NEW k \in DOMAIN wire, wire[k].verb = "POST"
        PROVE  k = 2 /\ call.scan /\ wire[1].status = 404
    <3>1. k = 2
      BY <2>1, <2>3
    <3>2. Len(wire) > 1
      BY <2>2, <3>1
    <3> QED
      BY <2>1, <3>1, <3>2
  <2>4. ASSUME outcome = "returned"
        PROVE  wire[Len(wire)].verb = "GET"
    <3>1. todo = <<>>
      BY <2>4 DEF CallInv, DoneInv
    <3>2. /\ <<"wait", "GET", "strict">> # <<>> /\ <<"GET", "strict">> # <<>>
          /\ ScanAndReport # <<>>
          /\ <<"wait", "POST", "lenient", "wait", "GET", "strict">> # <<>>
          /\ <<"POST", "lenient", "wait", "GET", "strict">> # <<>>
          /\ <<"lenient", "wait", "GET", "strict">> # <<>>
      BY DEF ScanAndReport
    <3>3. Len(wire) \in {1, 3}
      BY <2>1, <2>4, <3>1, <3>2 DEF Reporting, Scanning
    <3> QED
      BY <2>1, <2>2, <3>3
  <2> QED
    BY <2>1, <2>3, <2>4
<1> QED
    BY <1>1, CallSafe, PTL

-----------------------------------------------------------------------------

\* A set whose elements are all the same has one at most.
LEMMA OneAtMost ==
    ASSUME NEW S, \A x, y \in S : x = y
    PROVE  Cardinality(S) \in {0, 1}
<1>1. CASE S = {}
    BY <1>1, FS_EmptySet
<1>2. CASE S # {}
  <2>1. PICK x \in S : TRUE
    BY <1>2
  <2>2. S = {x}
    BY <2>1
  <2> QED
    BY <2>2, FS_Singleton
<1> QED
    BY <1>1, <1>2

(* Whatever is lost or refused, nothing that changes the server is sent     *)
(* twice for one item: SingleInv says so of a single call, BatchInv of a    *)
(* batch.                                                                   *)
THEOREM NothingIsSentTwice == Spec => []AtMostOnce
<1>1. CallInv => AtMostOnce
  <2> SUFFICES ASSUME CallInv, NEW i \in DOMAIN call.items
               PROVE  Cardinality(Changes(i)) <= 1
    BY DEF AtMostOnce
  <2>1. \A k, l \in Changes(i) : k = l
    <3>1. CASE IsBatch
      BY <3>1 DEF CallInv, BatchInv, Changes, Requests
    <3>2. CASE ~IsBatch
      BY <3>2 DEF CallInv, SingleInv, Changes, Requests
    <3> QED
      BY <3>1, <3>2
  <2>2. Cardinality(Changes(i)) \in {0, 1}
    BY <2>1, OneAtMost
  <2> QED
    BY <2>2
<1> QED
    BY <1>1, CallSafe, PTL

(* A batch of any length is done item by item: its k-th exchange is for its *)
(* k-th item, so what is done is always its first items, once each.         *)
THEOREM BatchesInOrder == Spec => []BatchIsPrefix
<1>1. TypeOK /\ CallInv => BatchIsPrefix
  <2> SUFFICES ASSUME TypeOK, CallInv, IsBatch, NEW i \in 1..Len(call.items)
               PROVE  /\ i < pos => Cardinality(Requests(i)) = 1
                      /\ i = pos => Cardinality(Requests(i)) <= 1
                      /\ i > pos => Requests(i) = {}
                      /\ (i < pos \/ outcome = "returned") =>
                             Applied(i) = Changes(i)
    BY DEF BatchIsPrefix
  <2>1. /\ Len(wire) \in Nat /\ DOMAIN wire = 1..Len(wire)
        /\ Len(call.items) \in Nat /\ pos \in 0..Len(call.items)
    BY CallFacts DEF TypeOK
  <2>2. /\ \A k \in DOMAIN wire : wire[k].item = k
        /\ \A k \in DOMAIN wire :
            k < pos /\ wire[k].verb # "GET" => wire[k].applied
        /\ Len(wire) \in {pos - 1, pos}
    BY DEF CallInv, BatchInv
  <2>3. Requests(i) = {k \in DOMAIN wire : k = i}
    BY <2>2 DEF Requests
  <2>4. i < pos => Cardinality(Requests(i)) = 1
    <3>1. i < pos => i \in DOMAIN wire
      <4>1. i \in Nat /\ i >= 1 /\ pos \in Int
        BY <2>1
      <4>2. Len(wire) \in Nat /\ (Len(wire) = pos - 1 \/ Len(wire) = pos)
        BY <2>1, <2>2
      <4> DEFINE n == Len(wire)
      <4> HIDE DEF n
      <4>3. n \in Nat /\ (n = pos - 1 \/ n = pos)
        BY <4>2 DEF n
      <4>4. i < pos => i \in 1..n
        BY <4>1, <4>3
      <4> QED
        BY <2>1, <4>4 DEF n
    <3>2. i < pos => Requests(i) = {i}
      BY <2>3, <3>1
    <3> QED
      BY <3>2, FS_Singleton
  <2>5. Cardinality(Requests(i)) <= 1
    <3>1. Cardinality(Requests(i)) \in {0, 1}
      BY <2>3, OneAtMost
    <3> QED
      BY <3>1
  <2>6. i > pos => Requests(i) = {}
    <3> DEFINE n == Len(wire)
    <3>1. n \in Nat /\ (n = pos - 1 \/ n = pos) /\ DOMAIN wire = 1..n
      BY <2>1, <2>2
    <3> HIDE DEF n
    <3>2. i \in Nat /\ pos \in Int
      BY <2>1
    <3>3. i > pos => i \notin 1..n
      BY <3>1, <3>2
    <3> QED
      BY <2>3, <3>1, <3>3
  <2>7. i < pos => Applied(i) = Changes(i)
    BY <2>2, <2>3 DEF Applied, Changes
  <2>8. outcome = "returned" => Applied(i) = Changes(i)
    <3>1. outcome = "returned" =>
              \A k \in DOMAIN wire : wire[k].verb # "GET" => wire[k].applied
      BY DEF CallInv, DoneInv
    <3> QED
      BY <2>3, <3>1 DEF Applied, Changes
  <2> QED
    BY <2>4, <2>5, <2>6, <2>7, <2>8
<1> QED
    BY <1>1, CallSafe, PTL

=============================================================================
