------------------------------ MODULE JsonText ------------------------------
(***************************************************************************)
(* The JSON that OllamaNode writes and reads by hand.  A text is a sequence *)
(* of code points, and a std::string its bytes in UTF-8.  A JSON string is  *)
(* a sequence of units: a byte as it is, a backslash and a character, four  *)
(* hexadecimal digits after \u, or digits that are not hexadecimal.         *)
(***************************************************************************)
EXTENDS Integers, SequencesExt

CONSTANTS
    Chars,        \* code points
    MaxChars      \* bound: characters of a text

Quote == 34
Backslash == 92

\* Any character of Unicode: surrogates are none.
ASSUME TextAssumption ==
    /\ \A c \in Chars : c \in Nat /\ c < 1114112 /\ (c < 55296 \/ 57344 <= c)
    /\ MaxChars \in Nat

Texts == UNION {[1..n -> Chars] : n \in 0..MaxChars}
Byte(b) == <<"byte", b>>
Esc(b) == <<"escape", b>>
Hex(n) == <<"hex", n>>
BadHex == <<"bad", 0>>

-----------------------------------------------------------------------------
(* What the server writes and understands, after RFC 3629 and RFC 8259.     *)

Utf8(c) ==
    LET limit == <<128, 2048, 65536, 1114112>>
        lead == <<0, 192, 224, 240>>
        unit == <<1, 64, 4096, 262144>>
        n == CHOOSE k \in 1..4 : c < limit[k] /\ \A j \in 1..(k - 1) : c >= limit[j]
    IN  [i \in 1..n |-> IF i = 1 THEN lead[n] + (c \div unit[n])
                        ELSE 128 + ((c \div unit[n - i + 1]) % 64)]

Bytes(text) == FlattenSeq([i \in DOMAIN text |-> Utf8(text[i])])

\* The characters that may be written with a backslash and a letter.
ServerLetter == [c \in {Quote, Backslash, 47, 8, 9, 10, 12, 13} |->
                   CASE c = 8 -> 98 [] c = 9 -> 116 [] c = 10 -> 110 [] c = 12 -> 102
                     [] c = 13 -> 114 [] OTHER -> c]

\* A character as it is, escaped, or as one or two \u.
Spellings(c) ==
    (IF c < 32 \/ c \in {Quote, Backslash} THEN {}
     ELSE {[i \in DOMAIN Utf8(c) |-> Byte(Utf8(c)[i])]})
    \cup {<<Esc(ServerLetter[k])>> : k \in {c} \cap DOMAIN ServerLetter}
    \cup {IF c < 65536 THEN <<Hex(c)>>
          ELSE <<Hex(55296 + ((c - 65536) \div 1024)), Hex(56320 + ((c - 65536) % 1024))>>}

\* One spelling of each character.
Spelt(text) ==
    {u \in [DOMAIN text -> UNION {Spellings(text[i]) : i \in DOMAIN text}] :
        \A i \in DOMAIN text : u[i] \in Spellings(text[i])}
Encodings(text) == {FlattenSeq(u) : u \in Spelt(text)}

-----------------------------------------------------------------------------
(* What the node does                                                       *)

Letter == [c \in {Quote, Backslash, 10, 13, 9} |->
             CASE c = 10 -> 110 [] c = 13 -> 114 [] c = 9 -> 116 [] OTHER -> c]

\* A control character that the node writes as it is; and a letter, of \b and of
\* \f, that it reads as the letter.
Bare(c) == c < 32 /\ c \notin DOMAIN Letter
Unread == {Esc(ServerLetter[8]), Esc(ServerLetter[12])}

json_escape(s) ==
    [i \in DOMAIN s |-> IF s[i] \in DOMAIN Letter THEN Esc(Letter[s[i]]) ELSE Byte(s[i])]

\* \n, \r and \t; any other character stands for itself.
Unescape(b) ==
    IF b \in {110, 114, 116} THEN CHOOSE c \in DOMAIN Letter : Letter[c] = b ELSE b

\* Mutant of IsPair: every \u stands alone.
IsPairNot(j, i) == FALSE

\* At i there is a high surrogate, with a low one behind it.
IsPair(j, i) ==
    /\ j[i][1] = "hex" /\ j[i][2] \in 55296..56319
    /\ i < Len(j)
    /\ j[i + 1][1] = "hex" /\ j[i + 1][2] \in 56320..57343

\* json_decode_uXXXX(): the code point, and its UTF-8.
CodePoint(j, i) ==
    IF IsPair(j, i) THEN 65536 + (j[i][2] - 55296) * 1024 + (j[i + 1][2] - 56320) ELSE j[i][2]
Decoded(c) ==
    LET rest(k) == 128 + ((c \div k) % 64)
    IN  IF c < 128 THEN <<c>>
        ELSE IF c < 2048 THEN <<192 + (c \div 64), rest(1)>>
        ELSE IF c < 65536 THEN <<224 + (c \div 4096), rest(64), rest(1)>>
        ELSE <<240 + (c \div 262144), rest(4096), rest(64), rest(1)>>

\* What the node reads at i, and how many units that takes.
Piece(j, i) ==
    CASE j[i][1] = "byte" -> <<j[i][2]>>
      [] j[i][1] = "escape" -> <<Unescape(j[i][2])>>
      [] OTHER -> Decoded(CodePoint(j, i))
Taken(j, i) == IF IsPair(j, i) THEN 2 ELSE 1

\* json_get_string() of the value that begins j: up to the closing quote.
json_get_string(j) ==
    LET from[i \in 1..(Len(j) + 2)] ==
          IF i > Len(j) \/ j[i] = Byte(Quote) THEN <<>>
          ELSE Piece(j, i) \o from[i + Taken(j, i)]
    IN  from[1]

\* Digits that are no digits: std::stoul() throws.
Throws(j) == BadHex \in {j[i] : i \in DOMAIN j}
=============================================================================
