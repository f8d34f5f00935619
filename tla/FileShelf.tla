------------------------------ MODULE FileShelf ------------------------------
(***************************************************************************)
(* What FileManager promises the clients of a server that handles one      *)
(* request at a time: every save, read, removal and listing of the upload  *)
(* directory happens at once and as a whole. An upload of several files is *)
(* several saves.                                                          *)
(***************************************************************************)
EXTENDS FileRequests

VARIABLES op,       \* what each request asks for
          present,  \* names of the files there are
          content,  \* their contents; empty when there is no file
          part,     \* next part of an upload to save
          saved,    \* parts of an upload that were saved
          answer,   \* status of the response, 0 before
          body,     \* the file a response carries
          listed    \* the names a response lists

shelf == <<op, present, content, part, saved, answer, body, listed>>

Init == /\ op \in [Reqs -> Ops]
        /\ present \in SUBSET Names
        /\ content \in [Names -> OldFiles \cup {<<>>}]
        /\ \A n \in Names : IF n \in present THEN content[n] \in OldFiles ELSE content[n] = <<>>
        /\ part = [r \in Reqs |-> 1]
        /\ saved = [r \in Reqs |-> {}]
        /\ answer = [r \in Reqs |-> 0]
        /\ body = [r \in Reqs |-> <<>>]
        /\ listed = [r \in Reqs |-> {}]

Reply(r, status) == /\ answer[r] = 0
                    /\ answer' = [answer EXCEPT ![r] = status]
                    /\ UNCHANGED <<op, part, saved>>

Refuse(r) == /\ BadRequest(op[r])
             /\ Reply(r, Refusal(op[r]))
             /\ UNCHANGED <<present, content, body, listed>>

\* One file of an upload is stored whole, whatever was there.
Save(r) == /\ op[r].kind = "upload"
           /\ answer[r] = 0
           /\ part[r] \in PartsOf(op[r])
           /\ LET n == op[r].parts[part[r]].name IN
                /\ n \in Names
                /\ present' = present \cup {n}
                /\ content' = [content EXCEPT ![n] = Data(op[r], r, part[r])]
           /\ part' = [part EXCEPT ![r] = @ + 1]
           /\ saved' = [saved EXCEPT ![r] = @ \cup {part[r]}]
           /\ UNCHANGED <<op, answer, body, listed>>

\* A part that has no file name, a bad one, or one that cannot be opened, is passed over.
Skip(r) == /\ op[r].kind = "upload"
           /\ answer[r] = 0
           /\ part[r] \in PartsOf(op[r])
           /\ op[r].parts[part[r]].name \in Names => "open" \in Faults
           /\ part' = [part EXCEPT ![r] = @ + 1]
           /\ UNCHANGED <<op, present, content, saved, answer, body, listed>>

Stored(r) == /\ op[r].kind = "upload"
             /\ op[r].parts # <<>>
             /\ part[r] > Len(op[r].parts)
             /\ Reply(r, UploadStatus(op[r], saved[r]))
             /\ UNCHANGED <<present, content, body, listed>>

\* A file is delivered as it is now; an empty one counts as unreadable.
Download(r) ==
  /\ op[r].kind = "download"
  /\ LET n == op[r].name IN
       /\ n \in Names
       /\ \/ /\ n \in present /\ content[n] # <<>>
             /\ body' = [body EXCEPT ![r] = content[n]]
             /\ Reply(r, 200)
          \/ n \notin present /\ Reply(r, 404) /\ UNCHANGED body
          \/ n \in present /\ (content[n] = <<>> \/ "open" \in Faults)
               /\ Reply(r, 500) /\ UNCHANGED body
  /\ UNCHANGED <<present, content, listed>>

Delete(r) ==
  /\ op[r].kind = "delete"
  /\ LET n == op[r].name IN
       /\ n \in Names
       /\ present' = present \ {n}
       /\ content' = [content EXCEPT ![n] = <<>>]
       /\ Reply(r, IF n \in present THEN 200 ELSE 500)
  /\ UNCHANGED <<body, listed>>

List(r) == /\ op[r].kind = "list"
           /\ listed' = [listed EXCEPT ![r] = present]
           /\ Reply(r, 200)
           /\ UNCHANGED <<present, content, body>>

Next == \E r \in Reqs : Refuse(r) \/ Save(r) \/ Skip(r) \/ Stored(r)
                        \/ Download(r) \/ Delete(r) \/ List(r)

Spec == Init /\ [][Next]_shelf
==============================================================================
