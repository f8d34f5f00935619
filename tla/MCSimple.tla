------------------------------- MODULE MCSimple -------------------------------
(* SimpleServer for TLC: requests that meet on a file, and some that do not.  *)
EXTENDS SimpleServer, TLC

CONSTANTS a, b

File(n, s) == [name |-> n, size |-> s]

CONSTANTS r1, r2, r3

OneFile == [kind |-> "upload", parts |-> <<File(a, 1)>>]
TwoFiles == [kind |-> "upload", parts |-> <<File(b, 1), File(a, 1)>>]
Removal == [kind |-> "delete", name |-> a]

\* Which client sends what does not matter, so not every one need send everything.
SomeAsks == (r1 :> {OneFile}) @@ (r2 :> {TwoFiles, Removal})
            @@ (r3 :> {[kind |-> "download", name |-> a], Removal, [kind |-> "list"]})

\* What may be read: the whole, the first file of two, or too little of the name or
\* of the request line.
SomeOps == UNION {SomeAsks[r] : r \in Reqs} \cup {[kind |-> "upload", parts |-> <<File(b, 1)>>],
                                                     [kind |-> "download", name |-> b],
                                                     [kind |-> "other", status |-> 405]}

\* Longer than the uploads, so that truncation shows.
LongOld == {<<"old", "old", "old">>}

Shorter == (a :> {b}) @@ (b :> {})
===============================================================================
