------------------------------- MODULE MCFiles -------------------------------
(* FileStore for TLC: what requests ask for, over two names and a bad one.   *)
EXTENDS FileStore

CONSTANTS a, b, bad

File(n, s) == [name |-> n, size |-> s]

\* Uploads: one file, two files, a file twice, a file among parts that are no file, none.
SomeUploads == [kind : {"upload"},
                parts : {<<>>, <<File(a, 1)>>, <<File(a, 2)>>, <<File(a, 1), File(b, 1)>>,
                         <<File(NoName, 1), File(b, 1)>>, <<File(bad, 1)>>}]

\* All requests.
AllOps == SomeUploads \cup [kind : {"download", "delete"}, name : {a, b, bad}]
          \cup [kind : {"list"}] \cup [kind : {"other"}, status : {404}]

\* One upload of two files.
TwoFiles == [kind : {"upload"}, parts : {<<File(a, 1), File(b, 1)>>}]

\* Longer than the shortest upload, so that truncation shows; and an empty file.
SomeOld == {<<>>, <<"old", "old", "old">>}
LongOld == {<<"old", "old", "old">>}
==============================================================================
