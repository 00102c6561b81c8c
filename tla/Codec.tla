--------------------------------- MODULE Codec ---------------------------------
(***************************************************************************)
(* The encodings of detail/base64.hpp and detail/url.hpp.  A text is a     *)
(* sequence of bytes, written as numbers from 0 to 255.                    *)
(***************************************************************************)
EXTENDS Integers, SequencesExt

Upper == 65..90
Lower == 97..122
Figures == 48..57
Plus == 43
Slash == 47
Minus == 45
Underscore == 95
Equals == 61
Percent == 37

\* kAlphabet of base64_encode and of base64url_encode: A to Z, a to z, 0 to 9
\* and two more.
Digits64(next, last) ==
    [k \in 1..64 |->
        CASE k \in 1..26  -> 64 + k
          [] k \in 27..52 -> 70 + k
          [] k \in 53..62 -> k - 5
          [] k = 63 -> next
          [] k = 64 -> last]

Standard == Digits64(Plus, Slash)
UrlSafe == Digits64(Minus, Underscore)

\* The first count of the four sextets of 24 bits.
Sextets(alphabet, n, count) ==
    [i \in 1..count |-> alphabet[1 + ((n \div 2^(24 - 6 * i)) % 64)]]

\* Three bytes from the i-th on; those past the end are zero.
Word(value, i) ==
    LET Byte(j) == IF j <= Len(value) THEN value[j] ELSE 0
    IN  65536 * Byte(i) + 256 * Byte(i + 1) + Byte(i + 2)

\* The whole groups of three bytes, and where they end.
Groups(alphabet, value) ==
    [k \in 1..(4 * (Len(value) \div 3)) |->
        LET n == Word(value, 3 * ((k - 1) \div 4) + 1)
        IN  Sextets(alphabet, n, 4)[1 + ((k - 1) % 4)]]

TailStart(value) == 3 * (Len(value) \div 3) + 1

base64_encode(value) ==
    LET n == Word(value, TailStart(value))
        rest == Len(value) % 3
    IN  Groups(Standard, value)
        \o CASE rest = 0 -> <<>>
             [] rest = 1 -> Sextets(Standard, n, 2) \o <<Equals, Equals>>
             [] rest = 2 -> Sextets(Standard, n, 3) \o <<Equals>>

\* Mutant of base64url_encode: the last byte is shifted like the others.
base64url_encode_shifted(value) ==
    LET last == value[Len(value)]
        rest == Len(value) % 3
    IN  Groups(UrlSafe, value)
        \o CASE rest = 0 -> <<>>
             [] rest = 1 -> <<UrlSafe[1 + (last \div 4)],
                              UrlSafe[1 + (last % 4)]>>
             [] rest = 2 -> Sextets(UrlSafe, Word(value, TailStart(value)), 3)

\* A last single byte is not moved into a word of 24 bits.
base64url_encode(value) ==
    LET last == value[Len(value)]
        rest == Len(value) % 3
    IN  Groups(UrlSafe, value)
        \o CASE rest = 0 -> <<>>
             [] rest = 1 -> <<UrlSafe[1 + ((last \div 4) % 64)],
                              UrlSafe[1 + ((last * 16) % 64)]>>
             [] rest = 2 -> Sextets(UrlSafe, Word(value, TailStart(value)), 3)

base64_value(c) ==
    CASE c \in Upper  -> c - 65
      [] c \in Lower  -> c - 97 + 26
      [] c \in Figures -> c - 48 + 52
      [] c = Plus     -> 62
      [] c = Slash    -> 63
      [] c \notin Upper \cup Lower \cup Figures \cup {Plus, Slash} -> -1

Whitespace == {32, 9, 13, 10}

\* The loop's variables; going is "on", "padding" after a break, or "bad".
\* Of buffer only the last 12 bits are ever looked at, and no more are kept.
DecodeStart == [buffer |-> 0, bits |-> 0, out |-> <<>>, going |-> "on"]

\* One sextet moves in and, when there are eight bits, a byte out.
Shift(d, v) ==
    LET buffer == (d.buffer * 64 + v) % 2^12
        bits == d.bits + 6
    IN  IF bits >= 8
        THEN [d EXCEPT !.buffer = buffer, !.bits = bits - 8,
                       !.out = Append(@, (buffer \div 2^(bits - 8)) % 256)]
        ELSE [d EXCEPT !.buffer = buffer, !.bits = bits]

DecodeStep(d, c) ==
    CASE d.going # "on" \/ c \in Whitespace -> d
      [] d.going = "on" /\ c = Equals -> [d EXCEPT !.going = "padding"]
      [] d.going = "on" /\ c \notin Whitespace \cup {Equals} ->
            IF base64_value(c) < 0 THEN [d EXCEPT !.going = "bad"]
            ELSE Shift(d, base64_value(c))

\* The loop's variables after each character.
DecodeScan(value) ==
    LET After[i \in 0..Len(value)] ==
            IF i = 0 THEN DecodeStart ELSE DecodeStep(After[i - 1], value[i])
    IN  After

\* Mutant of Decodable: the unused bits may be anything.
DecodableLoose(d) == d.going # "bad" /\ d.bits < 6

\* No impossible number of bits, and the unused ones are zero.
Decodable(d) ==
    /\ d.going # "bad"
    /\ d.bits < 6
    /\ d.buffer % 2^d.bits = 0

Refused == [ok |-> FALSE, out |-> <<>>]

base64_decode(value) ==
    LET d == DecodeScan(value)[Len(value)]
    IN  IF Decodable(d) THEN [ok |-> TRUE, out |-> d.out] ELSE Refused

Unreserved == Upper \cup Lower \cup Figures \cup {Minus, 46, Underscore, 126}

HexDigit == [k \in 1..16 |-> IF k <= 10 THEN 47 + k ELSE 54 + k]

Escaped(c) ==
    IF c \in Unreserved THEN <<c>>
    ELSE <<Percent, HexDigit[1 + (c \div 16)], HexDigit[1 + (c % 16)]>>

\* What is appended to out, byte by byte, and the path segment it becomes.
EncodeScan(value) ==
    LET Out[i \in 0..Len(value)] ==
            IF i = 0 THEN <<>> ELSE Out[i - 1] \o Escaped(value[i])
    IN  Out

percent_encode(value) == EncodeScan(value)[Len(value)]

-----------------------------------------------------------------------------

\* What RFC 4648 and RFC 3986 make of an encoded text, stated on its bits.

Bit(n, i) == (n \div 2^i) % 2

\* The bits of a sequence of numbers of the same width, the highest first.
BitsOf(numbers, width) ==
    [k \in 1..(width * Len(numbers)) |->
        Bit(numbers[1 + ((k - 1) \div width)], width - 1 - ((k - 1) % width))]

\* An encoded text without its padding, which is all that follows its digits.
Unpadded(text) ==
    LET n == CHOOSE n \in 0..Len(text) :
                \A i \in DOMAIN text : text[i] = Equals <=> i > n
    IN  [i \in 1..n |-> text[i]]

\* What base64_decode looks at: up to the first "=", without white space.
PayloadScan(text) ==
    LET Kept[i \in 0..Len(text)] ==
            IF i = 0 THEN <<>>
            ELSE IF \/ text[i] \in Whitespace
                    \/ \E j \in 1..i : text[j] = Equals
                 THEN Kept[i - 1]
                 ELSE Append(Kept[i - 1], text[i])
    IN  Kept

Payload(text) == PayloadScan(text)[Len(text)]

SextetsOf(digits, alphabet) ==
    [i \in DOMAIN digits |->
        (CHOOSE k \in 1..64 : alphabet[k] = digits[i]) - 1]

\* The digits have the bits of value, then zeros up to a whole sextet.
Represents(digits, alphabet, value) ==
    LET have == BitsOf(SextetsOf(digits, alphabet), 6)
        want == BitsOf(value, 8)
    IN  /\ Len(have) \in Len(want)..(Len(want) + 5)
        /\ \A i \in 1..Len(have) :
            have[i] = IF i <= Len(want) THEN want[i] ELSE 0

\* A percent-encoded text means value: read from the left, an octet is one
\* unreserved character or a triplet.
Hex(c) == (CHOOSE k \in 1..16 : HexDigit[k] = c) - 1

ReadStep(s, text, i) ==
    IF s.skip > 0 THEN [s EXCEPT !.skip = @ - 1]
    ELSE IF text[i] # Percent THEN [s EXCEPT !.out = Append(@, text[i])]
    ELSE [skip |-> 2,
          out |-> Append(s.out, 16 * Hex(text[i + 1]) + Hex(text[i + 2]))]

ReadScan(text) ==
    LET Read[i \in 0..Len(text)] ==
            IF i = 0 THEN [skip |-> 0, out |-> <<>>]
            ELSE ReadStep(Read[i - 1], text, i)
    IN  Read

PercentDecoded(text) == ReadScan(text)[Len(text)].out

=============================================================================
