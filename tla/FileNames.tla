------------------------------- MODULE FileNames -------------------------------
(***************************************************************************)
(* What src/src/http_handler.cpp and src/src/file_manager.cpp do to file   *)
(* names. A name is a sequence of bytes. In a request it is UTF-8, on the  *)
(* disk it is in the code page of the system, in a URL it is escaped; the  *)
(* loops that escape and unescape it are steps of module HttpHandler, what *)
(* one round of them does is defined here.                                 *)
(***************************************************************************)
EXTENDS Integers, Sequences

CONSTANTS NameLimit,  \* bytes a name may have (255)
          NonAscii,   \* characters beyond ASCII: what they are in UTF-8 and in the code page
          Alike,      \* for names with capitals, the name Windows takes them for
          Devices     \* names that are devices to Windows, without capitals

Byte == 0..255

ASSUME NameAssumption == /\ NameLimit \in Nat \ {0}
                         /\ NonAscii \subseteq [utf8 : Seq(128..255) \ {<<>>}, acp : Seq(1..255)]
                         /\ \A n \in DOMAIN Alike : {n, Alike[n]} \subseteq Seq(Byte) \ {<<>>}
                         /\ <<>> \notin Devices

Nul == 0
Blank == 32
Quote == 34
Percent == 37
Plus == 43
Dot == 46
Question == 63
Underscore == 95

Digits == 48..57
Upper == 65..90
Lower == 97..122

\* "<>:\"/\\|?*"
Dangerous == {60, 62, 58, Quote, 47, 92, 124, Question, 42}

------------------------------------------------------------------------------
\* The rules for names.

is_valid_filename(n) ==
  /\ Len(n) \in 1..NameLimit
  /\ \A i \in 1..Len(n) : n[i] \notin Dangerous
  /\ n[1] # Dot /\ n[Len(n)] # Dot
  /\ \A i \in 1..(Len(n) - 1) : ~(n[i] = Dot /\ n[i + 1] = Dot)

\* Dangerous characters become underscores, dots go from both ends; what is left of
\* nothing is called "unnamed_file".
sanitize_filename(n) ==
  LET clean == [i \in 1..Len(n) |-> IF n[i] \in Dangerous THEN Underscore ELSE n[i]]
      solid == {i \in 1..Len(n) : clean[i] # Dot}
  IN IF solid = {} THEN <<117, 110, 110, 97, 109, 101, 100, 95, 102, 105, 108, 101>>
     ELSE SubSeq(clean, CHOOSE i \in solid : \A j \in solid : i <= j,
                        CHOOSE i \in solid : \A j \in solid : j <= i)

\* Mutation: only separators are refused.
name_accepted_short(n) ==
  /\ n # <<>>
  /\ \A i \in 1..(Len(n) - 1) : ~(n[i] = Dot /\ n[i + 1] = Dot)
  /\ \A i \in 1..Len(n) : n[i] \notin {92, 47}
  /\ n[1] # Dot /\ n[Len(n)] # Dot
  /\ Len(n) <= NameLimit

\* The checks of handle_download and of handle_delete_file after decoding, written
\* there a second time and a third time.
name_accepted(n) ==
  /\ n # <<>>
  /\ \A i \in 1..(Len(n) - 1) : ~(n[i] = Dot /\ n[i + 1] = Dot)
  /\ \A i \in 1..Len(n) : n[i] \notin {92, 47}
  /\ \A i \in 1..Len(n) : n[i] \notin {60, 62, 58, Quote, 124, Question, 42}
  /\ n[1] # Dot /\ n[Len(n)] # Dot
  /\ Len(n) <= NameLimit

------------------------------------------------------------------------------
\* Escaping in URLs.

HexDigit(v) == IF v < 10 THEN 48 + v ELSE 55 + v

HexDigits == Digits \cup 65..70 \cup 97..102

HexValue(h) == CASE h \in Digits -> h - 48
                 [] h \in 65..70 -> h - 55
                 [] OTHER -> h - 87

Unreserved == Digits \cup Upper \cup Lower \cup {45, Underscore, Dot, 126}

\* Mutation: a percent sign is taken for harmless.
CodeKeepsPercent(b) == IF b \in Unreserved \cup {Percent} THEN <<b>>
                       ELSE <<Percent, HexDigit(b \div 16), HexDigit(b % 16)>>

\* url_encode of one byte.
Code(b) == IF b \in Unreserved THEN <<b>>
           ELSE <<Percent, HexDigit(b \div 16), HexDigit(b % 16)>>

\* url_decode: byte i of s begins an escape.
Escape(s, i) == /\ s[i] = Percent
                /\ i + 2 <= Len(s)
                /\ {s[i + 1], s[i + 2]} \subseteq HexDigits

UrlByte(s, i) == IF Escape(s, i) THEN 16 * HexValue(s[i + 1]) + HexValue(s[i + 2])
                 ELSE IF s[i] = Plus THEN Blank ELSE s[i]

\* Mutation: every percent sign begins an escape.
UrlNextUnchecked(s, i) == IF s[i] = Percent THEN i + 3 ELSE i + 1

UrlNext(s, i) == IF Escape(s, i) THEN i + 3 ELSE i + 1

\* What sscanf("%x") makes of two characters, as a char; nothing when it fails.
Scan(a, b) ==
  CASE {a, b} \subseteq HexDigits -> {16 * HexValue(a) + HexValue(b)}
    [] a \in HexDigits /\ b \notin HexDigits -> {HexValue(a)}
    [] a \in {Blank, Plus} /\ b \in HexDigits -> {HexValue(b)}
    [] a = 45 /\ b \in HexDigits -> {(256 - HexValue(b)) % 256}
    [] OTHER -> {}

\* file_name_url_decode: any percent sign with two characters behind it is an escape.
NameEscape(s, i) == s[i] = Percent /\ i + 2 <= Len(s)

\* The values `ii` may have after round i; a scan that fails leaves it as it was, at
\* first uninitialised.
Scanned(s, i, ii) == IF NameEscape(s, i) /\ Scan(s[i + 1], s[i + 2]) # {}
                     THEN Scan(s[i + 1], s[i + 2]) ELSE ii

NameBytes(s, i, ii) == IF NameEscape(s, i) THEN Scanned(s, i, ii) ELSE {s[i]}

NameNext(s, i) == IF NameEscape(s, i) THEN i + 3 ELSE i + 1

------------------------------------------------------------------------------
\* The code page, and names as the file system reads them.

\* utf8_to_acp: it reads to the first NUL and appends one. What has no place in the
\* code page, or is no UTF-8, becomes a question mark; so does here a unit of module
\* Multipart, which holds a quote, a star or a line end: no file can have either name.
utf8_to_acp(s) ==
  LET At(i) == {c \in NonAscii : /\ i + Len(c.utf8) <= Len(s) + 1
                                 /\ SubSeq(s, i, i + Len(c.utf8) - 1) = c.utf8}
      rest[i \in 1..(Len(s) + 1)] ==
        IF i > Len(s) \/ s[i] = Nul THEN <<Nul>>
        ELSE IF s[i] < 128 THEN <<s[i]>> \o rest[i + 1]
        ELSE IF At(i) = {} THEN <<Question>> \o rest[i + 1]
        ELSE LET c == CHOOSE c \in At(i) : TRUE IN c.acp \o rest[i + Len(c.utf8)]
  IN rest[1]

\* A path ends at its first NUL, and Windows drops the dots and blanks at its end; a
\* path with nothing left is the directory itself.
DiskName(n) ==
  LET ends == {i \in 0..Len(n) : \A j \in 1..i : n[j] # Nul}
      cut == CHOOSE i \in ends : \A j \in ends : j <= i
      solid == {0} \cup {i \in 1..cut : n[i] \notin {Dot, Blank}}
  IN SubSeq(n, 1, CHOOSE i \in solid : \A j \in solid : j <= i)

\* Of such names: Windows reads them without regard to case,
Fold(n) == IF n \in DOMAIN Alike THEN Alike[n] ELSE n

\* takes some for the console, a port or a file that is always empty,
IsDevice(n) == Fold(n) \in Devices

\* and opens no file for the directory itself or for one with control characters.
NoFile(n) == n = <<>> \/ \E i \in DOMAIN n : n[i] < Blank
==============================================================================
