----------------------------- MODULE FileRequests -----------------------------
(***************************************************************************)
(* The requests on the upload directory as HttpHandler (src/src/           *)
(* http_handler.cpp) has parsed them, and what an upload stores.           *)
(* A file is a sequence of units; a unit names the request that sent it.   *)
(***************************************************************************)
EXTENDS Naturals, Sequences, FiniteSets

CONSTANTS Reqs,      \* requests, each from a client of its own
          Names,     \* file names that pass is_valid_filename
          BadNames,  \* file names that do not
          NoName,    \* the name given to a part that has none: one NUL character
          Ops,       \* what a request may ask for
          OldFiles,  \* contents a file may have when the server starts
          Faults     \* what may go wrong: "open", "mkdir", "full"

Unit == Reqs \cup {"old", "crlf", "zero"}

\* One part of a multipart body that has a blank line; size: units of its data.
PartType == [name : Names \cup BadNames \cup {NoName}, size : Nat]

OpType == [kind : {"upload"}, parts : Seq(PartType)]
          \cup [kind : {"download", "delete"}, name : Names \cup BadNames]
          \cup [kind : {"list"}]
          \cup [kind : {"other"}, status : {200, 404, 405}]

ASSUME FileAssumption == /\ IsFiniteSet(Reqs)
                         /\ Names \cap (BadNames \cup {NoName}) = {}
                         /\ Ops \subseteq OpType
                         /\ OldFiles \subseteq Seq({"old"})

\* The parts of an upload that handle_upload tries to save: all of them, because
\* utf8_to_acp returns the terminating NUL and no name is ever empty.
PartsOf(o) == 1..Len(o.parts)

\* A part runs to the next boundary, so its data keeps the line end before it.
Data(o, r, i) == Append([k \in 1..o.parts[i].size |-> r], "crlf")

\* What is answered without a look at the directory: an upload without parts (which
\* stands for every body that cannot be split), a name that is not valid, and what the
\* router itself answers: the statistics, unknown paths and methods.
BadRequest(o) == \/ o.kind = "other"
                 \/ o.kind = "upload" /\ o.parts = <<>>
                 \/ o.kind \in {"download", "delete"} /\ o.name \in BadNames

Refusal(o) == IF o.kind = "other" THEN o.status ELSE 400

\* The status of an upload of which the parts in `done` were saved.
UploadStatus(o, done) == CASE done = PartsOf(o) -> 200
                           [] done # PartsOf(o) /\ done = {} -> 500
                           [] OTHER -> 207

\* Files an operation may change.
Changes(o) == CASE o.kind = "upload" -> {o.parts[i].name : i \in PartsOf(o)} \cap Names
                [] o.kind = "delete" -> {o.name} \cap Names
                [] OTHER -> {}
==============================================================================
