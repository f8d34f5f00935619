-------------------------------- MODULE MCHttp --------------------------------
(* HttpHandler for TLC: names with every special byte, parts of every style,  *)
(* data that look like a name.                                                *)
EXTENDS HttpHandler

\* Characters beyond ASCII: an ordinary one, one whose second byte in the code page is a
\* vertical bar, and one that the code page lacks.
SomeNonAscii == {[utf8 |-> <<228, 184, 173>>, acp |-> <<214, 208>>],
                 [utf8 |-> <<228, 186, 133>>, acp |-> <<129, 124>>],
                 [utf8 |-> <<195, 182>>, acp |-> <<Question>>]}

\* +%  %41  "A "  a.  .a  a tab  nul  a name at the limit (with its NUL) and one beyond it
AsciiNames == {<<43, 37>>, <<37, 52, 49>>, <<65, 32>>, <<97, 46>>, <<46, 97>>, <<9>>,
               <<110, 117, 108>>, <<97, 97, 97, 97>>, <<97, 97, 97, 97, 97>>}

SomeAlike == [n \in {<<65>>} |-> <<97>>]

SomeDevices == {<<110, 117, 108>>}

Part(style, name, data) == [style |-> style, name |-> name, data |-> data]

\* Every name in both spellings, data that look like the end of a header or like a name, fields.
SomeParts == {Part("plain", n, <<98>>) : n \in AsciiNames \cup {<<228, 184, 173>>, <<228, 186, 133>>}}
             \cup {Part("extended", n, <<99>>) : n \in {<<97, 37>>, <<195, 182>>}}
             \cup {Part("both", <<97>>, <<NameStar, Charset, 99>>)}
             \cup {Part("plain", <<98>>, d) : d \in {<<NameStar, Charset, 97>>,
                                                    <<NameStar, Crlf, Crlf, Charset>>}}
             \cup {Part("field", <<>>, d) : d \in {<<Crlf, Crlf>>, <<NameEq, 97, Quote>>}}

OneOfEach == [k \in Kinds |-> 1]

\* An empty file whose name is a capital, and one whose name is not valid.
SomeFound == [n \in {<<65>>, <<46, 100>>} |-> IF n = <<65>> THEN <<>> ELSE <<Underscore>>]

NoneOrAll == {{}, {"denied", "full"}}

\* nothing  %2E%2e  %4  %41  %g1  +  a%00  a%2F  a%3A  nul
SomePaths == {<<>>, <<37, 50, 69, 37, 50, 101>>, <<37, 52>>, <<37, 52, 49>>, <<37, 103, 49>>, <<43>>,
              <<97, 37, 48, 48>>, <<97, 37, 50, 70>>, <<97, 37, 51, 65>>, <<110, 117, 108>>}
===============================================================================
