-------------------------------- MODULE MCInputs --------------------------------
(***************************************************************************)
(* The pure functions of the library on all small inputs.  Texts of every  *)
(* kind grow one character at a time up to the length that their kind      *)
(* needs: two groups of base64, a whole quad with an octet on either side  *)
(* of 255, more groups, and longer labels and domains, than the limits     *)
(* allow, which are scaled down.  Documents for every parser get one odd   *)
(* place after the other, up to two, so that one may hide the other.       *)
(***************************************************************************)
EXTENDS Codec, Hosts, Parsers, Responses

CONSTANTS
    MaxBytes,     \* bound: bytes that are encoded
    MaxDigits,    \* bound: characters of an encoded text
    MaxQuad,      \* bound: characters of an address with dots,
    MaxColon,     \* bound: of one with colons,
    MaxDomain,    \* bound: and of a domain
    MaxOdd        \* bound: odd places of a document

Alphabet == [
    byte   |-> 0..255,
    bytes  |-> {0, 1, 65, 128, 251, 255},
    base64 |-> {65, 66, 81, 122, 57, Plus, Slash, Minus, Equals, 10},
    quad   |-> {"2", "5", "6", "."},
    colon  |-> {"1", "f", "g", ".", ":"},
    domain |-> {"a", "1", "-", ".", "_"} ]

Longest ==
    [byte |-> 1, bytes |-> MaxBytes, base64 |-> MaxDigits,
     quad |-> MaxQuad, colon |-> MaxColon, domain |-> MaxDomain]

VARIABLES
    kind,        \* the kind of the text, or "document"
    text,
    parser,      \* the name of the parser of the document, or "none"
    document

vars == <<kind, text, parser, document>>

Init ==
    /\ text = <<>> /\ document = <<>>
    /\ \/ kind \in DOMAIN Alphabet /\ parser = "none"
       \/ kind = "document" /\ parser \in DOMAIN ParserOf

Grow ==
    /\ kind \in DOMAIN Alphabet
    /\ Len(text) < Longest[kind]
    /\ \E c \in Alphabet[kind] : text' = Append(text, c)
    /\ UNCHANGED <<kind, parser, document>>

Spoil ==
    /\ kind = "document"
    /\ Cardinality(DOMAIN document) < MaxOdd
    /\ \E place \in Places(ParserOf[parser]) \ DOMAIN document :
        \E oddity \in Oddities(ParserOf[parser], place) :
            document' = document ++ Each(oddity, {place})
    /\ UNCHANGED <<kind, text, parser>>

Next == Grow \/ Spoil

Spec == Init /\ [][Next]_vars

-----------------------------------------------------------------------------

(* base64.hpp:9-11, url.hpp:8-11 and 29-34: what is encoded can be read     *)
(* back.  An encoded text has just the bits of the value, in either         *)
(* alphabet and whatever the length of the tail, padded to whole groups or  *)
(* not at all; base64_decode undoes base64_encode; and a path segment means *)
(* the id it was made of, with unreserved characters and escapes only.      *)
EncodingsRestore ==
    kind \in {"byte", "bytes"} =>
        /\ Represents(Unpadded(base64_encode(text)), Standard, text)
        /\ Len(base64_encode(text)) % 4 = 0
        /\ Represents(base64url_encode(text), UrlSafe, text)
        /\ ~Contains(base64url_encode(text), Equals)
        /\ base64_decode(base64_encode(text)) = [ok |-> TRUE, out |-> text]
        /\ PercentDecoded(percent_encode(text)) = text
        /\ ToSet(percent_encode(text)) \subseteq Unreserved \cup {Percent}

(* base64.hpp:64-67 and 92-93: a text is accepted just if it is, up to      *)
(* padding and white space, the encoding of what it decodes to, so that no  *)
(* two texts stand for the same bytes and none is cut off in mid-byte.      *)
DecodeIsExact ==
    kind = "base64" =>
        LET d == base64_decode(text)
            digits == Payload(text)
            known == ToSet(digits) \subseteq ToSet(Standard)
        IN  /\ d.ok => known /\ Represents(digits, Standard, d.out)
            /\ ~d.ok => d.out = <<>>
            /\ ~d.ok /\ known =>
                \/ Len(digits) % 4 = 1
                \/ LET bits == BitsOf(SextetsOf(digits, Standard), 6)
                   IN  \E i \in (8 * (Len(bits) \div 8) + 1)..Len(bits) :
                          bits[i] = 1

(* client.cpp:339-344: the scanner of addresses, with its counters and its  *)
(* early returns, accepts a dotted quad of octets just if it is one.  It    *)
(* refuses no IPv6 literal of digits and colons, whichever groups are left  *)
(* out, but for "::" alone, and accepts no text with a colon that has a     *)
(* character of another kind, such as a zone id, or too many groups.  (What *)
(* else it accepts is the matter of LiteralsOnly.)                          *)
AddressesAccepted ==
    /\ kind = "quad" => (is_valid_ip(text) <=> IsQuad(text))
    /\ kind = "colon" /\ IsIPv6(text) /\ GroupStarts(text) # {}
        => is_valid_ip(text)
    /\ kind = "colon" /\ Contains(text, ":") /\ is_valid_ip(text) =>
        /\ ToSet(text) \subseteq HexDigits \cup {":"}
        /\ Cardinality(GroupStarts(text)) <= GroupLimit

(* client.cpp:339-341: an IPv4 or IPv6 literal is accepted; "Anything else  *)
(* (a hostname, an empty string) cannot address an IP object id, so reject  *)
(* it before the HTTP round-trip".  (Texts with a dot and a colon, where an *)
(* IPv6 literal may end in a dotted quad, are left out.)                    *)
LiteralsOnly ==
    kind = "colon" /\ ~Contains(text, ".") =>
        (is_valid_ip(text) <=> IsIPv6(text))

(* client.cpp:390-393: the scanner of domains accepts names of at least two *)
(* labels within the limits, none with a hyphen at an edge, whose last one  *)
(* has a letter; no address is a domain.                                    *)
DomainsAccepted ==
    kind \in {"domain", "quad"} =>
        /\ is_valid_domain(text) <=> IsHostName(text)
        /\ ~(is_valid_domain(text) /\ is_valid_ip(text))

-----------------------------------------------------------------------------

Oddness == {document[place] : place \in DOMAIN document}

\* The shape of the document in the terms of Responses.
Body ==
    IF Oddness \cap {"null", "other"} # {} THEN "mistyped"
    ELSE IF "absent" \in Oddness THEN "bare"
    ELSE "complete"

Outcome == IF Throws(parser, document) THEN "json::type_error" ELSE "value"

Manner == IF parser \in DOMAIN Strict THEN "strict" ELSE "lenient"

(* json.hpp:12-14: what is missing, wherever it is missing and in whatever  *)
(* combination, never keeps a model from being made; what is mistyped does  *)
(* so in the parsers that Responses takes for strict and in no other.       *)
KindsAgree == kind = "document" => Outcome \in Parsed(Manner, Body)

(* file_report.hpp, yara_rule.hpp and their kin: a 64 bit date, size or     *)
(* count arrives whole from the lenient parsers, whatever else is odd in    *)
(* the document, but in the five fields that are an int.  (The strict       *)
(* parsers narrow each of them to 32 bits, also into a field of 64.)        *)
IntegersKept ==
    parser \in DOMAIN Tolerant =>
        \A place \in DOMAIN document :
            /\ document[place] = "wide"
            /\ place[1] \in Entered(parser, document)
            /\ place[2] \notin {"times_submitted", "reputation", "progress",
                                "files_ok", "files_error"}
            => Field(parser, document, place) = "value"

=============================================================================
