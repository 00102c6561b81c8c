--------------------------------- MODULE Hosts ---------------------------------
(***************************************************************************)
(* is_valid_ip and is_valid_domain of src/client.cpp, the checks of the    *)
(* methods on addresses and domains: scanners that keep a few counters and *)
(* stop at the first character that cannot be.  A character is a string    *)
(* of length one, a text a sequence of them.  The limits are constants, so *)
(* that short texts reach them.                                            *)
(***************************************************************************)
EXTENDS Integers, SequencesExt

CONSTANTS
    GroupLimit,    \* 8, groups of an IPv6 address
    OctetLimit,    \* 255
    LabelLimit,    \* 63, characters of a label
    DomainLimit    \* 253, characters of a domain

ASSUME LimitAssumption ==
    {GroupLimit, OctetLimit, LabelLimit, DomainLimit} \subseteq Nat \ {0}

Digits == {"0", "1", "2", "3", "4", "5", "6", "7", "8", "9"}

Numeral ==
    [d \in Digits |->
        CASE d = "0" -> 0 [] d = "1" -> 1 [] d = "2" -> 2 [] d = "3" -> 3
          [] d = "4" -> 4 [] d = "5" -> 5 [] d = "6" -> 6 [] d = "7" -> 7
          [] d = "8" -> 8 [] d = "9" -> 9]

\* A few letters stand for all: hexadecimal ones, and others.
HexDigits == Digits \cup {"a", "f", "A", "F"}
Letters == {"a", "f", "A", "F", "g", "z", "G", "Z"}

-----------------------------------------------------------------------------

\* IPv6: hexadecimal groups are counted at their ends.
V6Start == [groups |-> 0, in_group |-> FALSE, ok |-> TRUE]

V6Step(s, c) ==
    CASE c \in HexDigits -> [s EXCEPT !.in_group = TRUE]
      [] c = ":" -> [s EXCEPT !.groups = IF s.in_group THEN @ + 1 ELSE @,
                              !.in_group = FALSE]
      [] c \notin HexDigits \cup {":"} -> [s EXCEPT !.ok = FALSE]

\* The state of the scan after each character.
V6Scan(ip) ==
    LET After[i \in 0..Len(ip)] ==
            IF i = 0 THEN V6Start ELSE V6Step(After[i - 1], ip[i])
    IN  After

\* Mutant of V6End: the group that the text ends with is not counted.
V6EndOpen(s) == s.ok /\ s.groups \in 1..GroupLimit

V6End(s) ==
    LET groups == IF s.in_group THEN s.groups + 1 ELSE s.groups
    IN  s.ok /\ groups \in 1..GroupLimit

\* IPv4: octets are counted at their dots.
V4Start == [octets |-> 0, value |-> 0, digits |-> 0, ok |-> TRUE]

V4Digit(s, c) ==
    LET value == 10 * s.value + Numeral[c]
    IN  [s EXCEPT !.value = value, !.digits = @ + 1,
                  !.ok = s.digits < 3 /\ value <= OctetLimit]

V4Dot(s) ==
    IF s.digits = 0 THEN [s EXCEPT !.ok = FALSE]
    ELSE [s EXCEPT !.octets = @ + 1, !.value = 0, !.digits = 0]

V4Step(s, c) ==
    CASE ~s.ok      -> s
      [] s.ok /\ c \in Digits -> V4Digit(s, c)
      [] s.ok /\ c = "."      -> V4Dot(s)
      [] s.ok /\ c \notin Digits \cup {"."} -> [s EXCEPT !.ok = FALSE]

V4Scan(ip) ==
    LET After[i \in 0..Len(ip)] ==
            IF i = 0 THEN V4Start ELSE V4Step(After[i - 1], ip[i])
    IN  After

V4End(s) == s.ok /\ s.octets = 3 /\ s.digits > 0

is_valid_ip(ip) ==
    IF Contains(ip, ":") THEN V6End(V6Scan(ip)[Len(ip)])
    ELSE V4End(V4Scan(ip)[Len(ip)])

-----------------------------------------------------------------------------

\* Domains: labels are counted at their dots; last is the character before.
DomainStart ==
    [labels |-> 0, len |-> 0, alpha |-> FALSE, last |-> "none", ok |-> TRUE]

\* Mutant of DomainDot: what a label ends with is not looked at.
DomainDotAny(s) ==
    IF s.len = 0 THEN [s EXCEPT !.ok = FALSE]
    ELSE [s EXCEPT !.labels = @ + 1, !.len = 0, !.alpha = FALSE, !.last = "."]

DomainDot(s) ==
    IF s.len = 0 \/ s.last = "-" THEN [s EXCEPT !.ok = FALSE]
    ELSE [s EXCEPT !.labels = @ + 1, !.len = 0, !.alpha = FALSE, !.last = "."]

DomainCharacter(s, c) ==
    IF /\ c \in Letters \cup Digits \cup {"-"}
       /\ c = "-" => s.len > 0
       /\ s.len < LabelLimit
    THEN [s EXCEPT !.len = @ + 1, !.last = c, !.alpha = @ \/ c \in Letters]
    ELSE [s EXCEPT !.ok = FALSE]

DomainStep(s, c) ==
    CASE ~s.ok            -> s
      [] s.ok /\ c = "."  -> DomainDot(s)
      [] s.ok /\ c # "."  -> DomainCharacter(s, c)

DomainScan(domain) ==
    LET After[i \in 0..Len(domain)] ==
            IF i = 0 THEN DomainStart ELSE DomainStep(After[i - 1], domain[i])
    IN  After

DomainEnd(s) ==
    s.ok /\ s.len > 0 /\ s.last # "-" /\ s.alpha /\ s.labels + 1 >= 2

is_valid_domain(domain) ==
    /\ domain # <<>> /\ Len(domain) <= DomainLimit
    /\ ~is_valid_ip(domain)
    /\ DomainEnd(DomainScan(domain)[Len(domain)])

-----------------------------------------------------------------------------

\* The same said of the parts between the separators.

Dots(text) == {i \in DOMAIN text : text[i] = "."}

Part(text, first, last) == [i \in 1..(last - first + 1) |-> text[first + i - 1]]

\* The stretches between one dot, or an end, and the next.
Bounds(text) ==
    LET cuts == {0, Len(text) + 1} \cup Dots(text)
    IN  {b \in cuts \X cuts :
            b[1] < b[2] /\ ~\E c \in cuts : b[1] < c /\ c < b[2]}

Parts(text) == {Part(text, b[1] + 1, b[2] - 1) : b \in Bounds(text)}

LastPart(text) ==
    LET last == CHOOSE b \in Bounds(text) : b[2] = Len(text) + 1
    IN  Part(text, last[1] + 1, Len(text))

\* The number that one to three digits stand for.
Decimal(p) ==
    CASE Len(p) = 1 -> Numeral[p[1]]
      [] Len(p) = 2 -> 10 * Numeral[p[1]] + Numeral[p[2]]
      [] Len(p) = 3 -> 100 * Numeral[p[1]] + 10 * Numeral[p[2]] + Numeral[p[3]]

IsOctet(p) ==
    Len(p) \in 1..3 /\ ToSet(p) \subseteq Digits /\ Decimal(p) <= OctetLimit

IsQuad(text) ==
    Cardinality(Dots(text)) = 3 /\ \A p \in Parts(text) : IsOctet(p)

\* Where a group starts.
GroupStarts(text) ==
    {i \in DOMAIN text : text[i] # ":" /\ (i > 1 => text[i - 1] = ":")}

\* An IPv6 literal (RFC 4291, 2.2): groups of one to four hexadecimal digits,
\* GroupLimit of them or, with one gap "::" in place of zeros, fewer.  The form
\* that ends in a dotted quad is left out.
IsIPv6(text) ==
    LET gaps == {i \in 1..(Len(text) - 1) : text[i] = ":" /\ text[i + 1] = ":"}
        groups == Cardinality(GroupStarts(text))
    IN  /\ ":" \in ToSet(text) /\ ToSet(text) \subseteq HexDigits \cup {":"}
        /\ \A i \in 5..Len(text) : \E k \in (i - 4)..i : text[k] = ":"
        /\ Cardinality(gaps) <= 1
        /\ text[1] = ":" => 1 \in gaps
        /\ text[Len(text)] = ":" => Len(text) - 1 \in gaps
        /\ IF gaps = {} THEN groups = GroupLimit ELSE groups < GroupLimit

\* Any hexadecimal digits and colons, in one to GroupLimit groups.
IsColonHex(text) ==
    /\ ":" \in ToSet(text) /\ ToSet(text) \subseteq HexDigits \cup {":"}
    /\ Cardinality(GroupStarts(text)) \in 1..GroupLimit

IsLabel(p) ==
    /\ Len(p) \in 1..LabelLimit
    /\ ToSet(p) \subseteq Letters \cup Digits \cup {"-"}
    /\ p[1] # "-" /\ p[Len(p)] # "-"

IsHostName(text) ==
    /\ Len(text) <= DomainLimit
    /\ Dots(text) # {}
    /\ \A p \in Parts(text) : IsLabel(p)
    /\ ToSet(LastPart(text)) \cap Letters # {}

=============================================================================
