------------------------------- MODULE Multipart -------------------------------
(***************************************************************************)
(* The body of an upload (multipart/form-data), as a client writes it and  *)
(* as handle_upload and parse_filename of src/src/http_handler.cpp search  *)
(* it. The body is a sequence of bytes, in which the strings that are      *)
(* searched for are one unit each.                                         *)
(***************************************************************************)
EXTENDS FileNames

Delim == 256      \* "--" and the boundary
Crlf == 257
NameEq == 258     \* filename="
NameStar == 259   \* filename*=
Charset == 260    \* the first '' behind filename*=; any other is two bytes

Units == Byte \cup {Delim, Crlf, NameEq, NameStar, Charset}

Least(S) == IF S = {} THEN 0 ELSE CHOOSE i \in S : \A j \in S : i <= j

\* std::string::find of one unit, from a position on; 0 for npos.
Find(s, u, from) == Least({i \in from..Len(s) : s[i] = u})

\* The first empty line.
FindBlankLine(s) == Least({i \in 1..(Len(s) - 1) : s[i] = Crlf /\ s[i + 1] = Crlf})

\* substr from a position up to another one, to the end if that is npos.
Between(s, from, end) == SubSeq(s, from, IF end = 0 THEN Len(s) ELSE end - 1)

------------------------------------------------------------------------------
\* The client.

\* style: how the part names its file ("field": it is a form field and has none; "both":
\* with a plain name for old servers and an extended one).
PartType == [style : {"plain", "extended", "both", "field"}, name : Seq(Byte), data : Seq(Units)]

\* An extended name has every byte escaped that is not unreserved.
Escaped(n) == LET esc[i \in 0..Len(n)] == IF i = 0 THEN <<>> ELSE esc[i - 1] \o Code(n[i])
              IN esc[Len(n)]

Disposition(p) == CASE p.style = "plain" -> <<NameEq>> \o p.name \o <<Quote>>
                    [] p.style = "extended" -> <<NameStar, Charset>> \o Escaped(p.name)
                    [] p.style = "both" -> <<NameEq, Underscore, Quote, NameStar, Charset>> \o Escaped(p.name)
                    [] OTHER -> <<Underscore>>

Heading(p) == <<Delim, Crlf>> \o Disposition(p) \o <<Crlf, Crlf>>

PartText(p) == Heading(p) \o p.data \o <<Crlf>>

\* The end of a form.
Closing == <<Delim, 45, 45, Crlf>>

\* What the client promises: its boundary occurs in no part, its names have no quote and
\* no NUL. Of its data it promises nothing else.
WellFormed(p) == /\ \A i \in DOMAIN p.data : p.data[i] # Delim
                 /\ \A i \in DOMAIN p.name : p.name[i] \notin {Quote, Nul}

\* The name a part gives its file.
GivenName(p) == IF p.style = "field" THEN <<>> ELSE p.name

------------------------------------------------------------------------------
\* parse_filename. It searches the whole part, its data too.

\* filename*=, and behind it the end of a character set's name and the end of the line.
StarAt(part) == Find(part, NameStar, 1)
CharsetAt(part) == Find(part, Charset, StarAt(part))
LineEnd(part) == Find(part, Crlf, StarAt(part))

HasExtendedName(part) == /\ StarAt(part) # 0
                         /\ CharsetAt(part) # 0
                         /\ LineEnd(part) = 0 \/ CharsetAt(part) < LineEnd(part)

ExtendedName(part) == Between(part, CharsetAt(part) + 1, LineEnd(part))

\* Between filename=" and the next quote, or the end; empty when there is none.
PlainName(part) == LET start == Find(part, NameEq, 1) + 1
                   IN IF start = 1 THEN <<>> ELSE Between(part, start, Find(part, Quote, start))

\* The data of a part that has no such name before them are searched as well, and are taken
\* for a name: of a plain part behind filename*=, of a field behind filename=" too.
Misleads(p) == \/ p.style \in {"plain", "field"} /\ HasExtendedName(Append(p.data, Crlf))
               \/ p.style = "field" /\ Find(p.data, NameEq, 1) # 0

------------------------------------------------------------------------------
\* One round of the loop of handle_upload.

\* Mutation: the last part needs no delimiter behind it.
NextDelimOrEnd(body, pos) == LET next == Find(body, Delim, pos + 1)
                             IN IF next # 0 THEN next ELSE IF pos < Len(body) THEN Len(body) ELSE 0

\* Mutation: the search begins at pos itself.
NextDelimSame(body, pos) == IF pos = 0 THEN 0 ELSE Find(body, Delim, pos)

\* The delimiter after the one at pos.
NextDelim(body, pos) == Find(body, Delim, pos + 1)

PartAt(body, pos) == Between(body, pos, NextDelim(body, pos))

\* Behind the first empty line, with the line end before the next delimiter.
DataOf(part) == Between(part, FindBlankLine(part) + 2, 0)
==============================================================================
