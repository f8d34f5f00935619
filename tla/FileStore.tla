------------------------------ MODULE FileStore ------------------------------
(***************************************************************************)
(* The four request handlers of src/src/http_handler.cpp over FileManager  *)
(* of src/src/file_manager.cpp, cut at every call into the file system.    *)
(*                                                                         *)
(* MaxThreads is the number of requests handled at the same time: 1 in     *)
(* Server, whose accept thread handles them (SerialService of module       *)
(* Server), any number in src/src/server_simple.cpp, which starts a thread *)
(* for every client and runs the same handlers in it.                      *)
(*                                                                         *)
(* The C library opens files shared for reading and writing, not for       *)
(* removal: a file that somebody has open cannot be removed.               *)
(***************************************************************************)
EXTENDS FileRequests

CONSTANT MaxThreads   \* requests handled at the same time

ASSUME ThreadAssumption == MaxThreads \in Nat \ {0}

VARIABLES
  \* the disk
  dir,       \* the upload directory exists
  present,   \* names of the files in it
  content,   \* their contents; empty when there is no file
  \* the handling of each request
  op,        \* what it asks for
  pc,        \* the next file system call of the thread that handles it
  part,      \* part of the upload being saved
  saved,     \* saved_files, as a set of parts (failed_files are the others)
  pos,       \* units written of the current part
  size,      \* file_size, as told when the file was opened for reading
  body,      \* content read so far
  todo,      \* names the directory iterator still has to visit
  listed,    \* files listed so far
  answer,    \* status of the response, 0 before
  \* the process, and history
  process,   \* "up" or "terminated"
  met        \* requests whose handling overlapped with that of each request

disk == <<dir, present, content>>
upload == <<part, saved, pos>>
read == <<size, body>>
listing == <<todo, listed>>
vars == <<disk, op, pc, upload, read, listing, answer, process, met>>

PCs == {"new", "ctor", "mkdir", "part", "write", "exists", "open", "read",
        "find", "remove", "list", "entry", "done"}

Active == {r \in Reqs : pc[r] \notin {"new", "done"}}

\* The file a request works on.
FileOf(r) == IF op[r].kind = "upload" THEN op[r].parts[part[r]].name ELSE op[r].name

\* Requests that have file n open.
Holders(n) == {r \in Reqs : pc[r] \in {"write", "read"} /\ FileOf(r) = n}

Init == /\ dir \in BOOLEAN
        /\ op \in [Reqs -> Ops]
        /\ present \in SUBSET (IF dir THEN Names ELSE {})
        /\ content \in [Names -> OldFiles \cup {<<>>}]
        /\ \A n \in Names : IF n \in present THEN content[n] \in OldFiles ELSE content[n] = <<>>
        /\ pc = [r \in Reqs |-> "new"]
        /\ part = [r \in Reqs |-> 1]
        /\ saved = [r \in Reqs |-> {}]
        /\ pos = [r \in Reqs |-> 0]
        /\ size = [r \in Reqs |-> 0]
        /\ body = [r \in Reqs |-> <<>>]
        /\ todo = [r \in Reqs |-> {}]
        /\ listed = [r \in Reqs |-> {}]
        /\ answer = [r \in Reqs |-> 0]
        /\ process = "up"
        /\ met = [r \in Reqs |-> {}]

\* The thread of r makes the call `from` stands for, and then stands before `to`.
Step(r, from, to) == /\ process = "up"
                     /\ pc[r] = from
                     /\ pc' = [pc EXCEPT ![r] = to]
                     /\ UNCHANGED <<op, process>>

Goes(r, from, to) == Step(r, from, to) /\ UNCHANGED <<answer, met>>

\* The handler returns.
Reply(r, from, status) == /\ Step(r, from, "done")
                          /\ answer' = [answer EXCEPT ![r] = status]
                          /\ UNCHANGED met

------------------------------------------------------------------------------
\* All handlers: the checks of the request, then the constructor of FileManager.

Begin(r) == /\ Cardinality(Active) < MaxThreads
            /\ \/ /\ BadRequest(op[r])
                  /\ Step(r, "new", "done")
                  /\ answer' = [answer EXCEPT ![r] = Refusal(op[r])]
               \/ /\ ~BadRequest(op[r])
                  /\ Step(r, "new", "ctor")
                  /\ UNCHANGED answer
            /\ met' = [q \in Reqs |-> IF q = r THEN Active
                                      ELSE IF q \in Active THEN met[q] \cup {r} ELSE met[q]]
            /\ UNCHANGED <<disk, upload, read, listing>>

\* Where the handler goes once it has its FileManager.
Work == [upload |-> "part", download |-> "exists", delete |-> "find", list |-> "list"]

\* ensure_upload_directory: exists, and create_directories if not.
Ensure(r) == /\ Goes(r, "ctor", IF dir THEN Work[op[r].kind] ELSE "mkdir")
             /\ UNCHANGED <<disk, upload, read, listing>>

\* It returns false when another thread was faster; the message is all there is to it.
MakeDir(r) == /\ Goes(r, "mkdir", Work[op[r].kind])
              /\ dir' = TRUE
              /\ UNCHANGED <<present, content, upload, read, listing>>

\* It throws when the directory cannot be created, and no handler catches that.
MakeDirThrows(r) == /\ "mkdir" \in Faults
                    /\ ~dir
                    /\ process = "up"
                    /\ pc[r] = "mkdir"
                    /\ process' = "terminated"
                    /\ UNCHANGED <<disk, op, pc, upload, read, listing, answer, met>>

------------------------------------------------------------------------------
\* handle_upload and save_file.

\* save_file returns false: the name is not valid, there is none (the path is then the
\* directory itself), or the file cannot be opened.
PartFails(r) == /\ Goes(r, "part", "part")
                /\ part[r] \in PartsOf(op[r])
                /\ FileOf(r) \in Names => "open" \in Faults
                /\ part' = [part EXCEPT ![r] = @ + 1]
                /\ UNCHANGED <<disk, saved, pos, read, listing>>

\* Mutation: the file is opened without being truncated.
OpenKeepsContent(r) == /\ Goes(r, "part", "write")
                       /\ part[r] \in PartsOf(op[r])
                       /\ FileOf(r) \in Names
                       /\ present' = present \cup {FileOf(r)}
                       /\ pos' = [pos EXCEPT ![r] = 0]
                       /\ UNCHANGED <<dir, content, part, saved, read, listing>>

\* Mutation: the position of the previous part is kept.
OpenKeepsPosition(r) == /\ Goes(r, "part", "write")
                        /\ part[r] \in PartsOf(op[r])
                        /\ FileOf(r) \in Names
                        /\ present' = present \cup {FileOf(r)}
                        /\ content' = [content EXCEPT ![FileOf(r)] = <<>>]
                        /\ UNCHANGED <<dir, part, saved, pos, read, listing>>

\* std::ofstream creates the file or empties it.
OpenForWrite(r) == /\ Goes(r, "part", "write")
                   /\ part[r] \in PartsOf(op[r])
                   /\ FileOf(r) \in Names
                   /\ present' = present \cup {FileOf(r)}
                   /\ content' = [content EXCEPT ![FileOf(r)] = <<>>]
                   /\ pos' = [pos EXCEPT ![r] = 0]
                   /\ UNCHANGED <<dir, part, saved, read, listing>>

\* File f after units from..to of d were written at their place; what is skipped is zero.
Written(f, d, from, to) ==
  [k \in 1..(IF to > Len(f) THEN to ELSE Len(f)) |->
     IF k \in from..to THEN d[k] ELSE IF k <= Len(f) THEN f[k] ELSE "zero"]

\* file.write: the data reaches the file in pieces of any size.
WriteSome(r) ==
  /\ Goes(r, "write", "write")
  /\ LET d == Data(op[r], r, part[r])
     IN \E to \in (pos[r] + 1)..Len(d) :
          /\ content' = [content EXCEPT ![FileOf(r)] = Written(@, d, pos[r] + 1, to)]
          /\ pos' = [pos EXCEPT ![r] = to]
  /\ UNCHANGED <<dir, present, part, saved, read, listing>>

\* file.close. The file counts as saved even if the disk was full: nobody asks the stream.
CloseSaved(r) == /\ Goes(r, "write", "part")
                 /\ pos[r] = Len(Data(op[r], r, part[r])) \/ "full" \in Faults
                 /\ saved' = [saved EXCEPT ![r] = @ \cup {part[r]}]
                 /\ part' = [part EXCEPT ![r] = @ + 1]
                 /\ UNCHANGED <<disk, pos, read, listing>>

\* The response says what was saved and what was not.
ReplyUpload(r) == /\ Reply(r, "part", UploadStatus(op[r], saved[r]))
                  /\ part[r] > Len(op[r].parts)
                  /\ UNCHANGED <<disk, upload, read, listing>>

Upload(r) == \/ PartFails(r) \/ OpenForWrite(r) \/ WriteSome(r) \/ CloseSaved(r)
             \/ ReplyUpload(r)

------------------------------------------------------------------------------
\* handle_download, file_exists and read_file.

CheckExists(r) == /\ \/ Goes(r, "exists", "open") /\ FileOf(r) \in present
                     \/ Reply(r, "exists", 404) /\ FileOf(r) \notin present
                  /\ UNCHANGED <<disk, upload, read, listing>>

\* read_file looks for the file once more, opens it at its end and takes the position
\* as its size.
OpenForRead(r) == /\ Goes(r, "open", "read")
                  /\ FileOf(r) \in present
                  /\ size' = [size EXCEPT ![r] = Len(content[FileOf(r)])]
                  /\ UNCHANGED <<disk, upload, body, listing>>

\* The file has gone, or cannot be opened: no content, whatever the reason.
OpenFails(r) == /\ Reply(r, "open", 500)
                /\ FileOf(r) \notin present \/ "open" \in Faults
                /\ UNCHANGED <<disk, upload, read, listing>>

\* Mutation: the file is read to its end, whatever size it had.
ReadToEnd(r) == /\ Goes(r, "read", "read")
                /\ Len(body[r]) < Len(content[FileOf(r)])
                /\ body' = [body EXCEPT ![r] = @ \o SubSeq(content[FileOf(r)], Len(body[r]) + 1,
                                                         Len(content[FileOf(r)]))]
                /\ UNCHANGED <<disk, upload, size, listing>>

\* file.read takes the units in pieces of any size.
ReadSome(r) ==
  /\ Goes(r, "read", "read")
  /\ LET f == content[FileOf(r)]
         done == Len(body[r])
     IN \E to \in (done + 1)..size[r] :
          /\ to <= Len(f)
          /\ body' = [body EXCEPT ![r] = @ \o SubSeq(f, done + 1, to)]
  /\ UNCHANGED <<disk, upload, size, listing>>

\* All of it was read, and an empty file is reported as unreadable; or the end of the file
\* came early, and what was read is thrown away.
ReadEnds(r) ==
  /\ Reply(r, "read", IF Len(body[r]) = size[r] /\ size[r] # 0 THEN 200 ELSE 500)
  /\ Len(body[r]) = size[r] \/ Len(content[FileOf(r)]) <= Len(body[r])
  /\ body' = IF Len(body[r]) = size[r] THEN body ELSE [body EXCEPT ![r] = <<>>]
  /\ UNCHANGED <<disk, upload, size, listing>>

Download(r) == CheckExists(r) \/ OpenForRead(r) \/ OpenFails(r)
               \/ ReadSome(r) \/ ReadEnds(r)

------------------------------------------------------------------------------
\* handle_delete_file and delete_file.

Find(r) == /\ \/ Goes(r, "find", "remove") /\ FileOf(r) \in present
              \/ Reply(r, "find", 500) /\ FileOf(r) \notin present
           /\ UNCHANGED <<disk, upload, read, listing>>

\* Mutation: what remove returns is not looked at.
RemoveUnchecked(r) == /\ Reply(r, "remove", 200)
                      /\ present' = present \ {FileOf(r)}
                      /\ content' = [content EXCEPT ![FileOf(r)] = <<>>]
                      /\ UNCHANGED <<dir, upload, read, listing>>

Remove(r) == /\ \/ /\ Reply(r, "remove", 200)
                   /\ FileOf(r) \in present
                   /\ Holders(FileOf(r)) = {}
                   /\ present' = present \ {FileOf(r)}
                   /\ content' = [content EXCEPT ![FileOf(r)] = <<>>]
                \/ /\ Reply(r, "remove", 500)
                   /\ FileOf(r) \notin present \/ Holders(FileOf(r)) # {}
                   /\ UNCHANGED <<present, content>>
             /\ UNCHANGED <<dir, upload, read, listing>>

------------------------------------------------------------------------------
\* handle_list_files and list_files.

\* The names come from the system in one piece.
ListOpen(r) == /\ Goes(r, "list", "entry")
               /\ todo' = [todo EXCEPT ![r] = present]
               /\ UNCHANGED <<disk, upload, read, listed>>

ListEntry(r) == /\ Goes(r, "entry", "entry")
                /\ \E n \in todo[r] \cap present :
                     /\ todo' = [todo EXCEPT ![r] = @ \ {n}]
                     /\ listed' = [listed EXCEPT ![r] = @ \cup {n}]
                /\ UNCHANGED <<disk, upload, read>>

\* The end, or a file that has gone since: its size cannot be had, the exception ends
\* the loop, and the list so far is the answer, a success like any other.
ListEnds(r) == /\ todo[r] = {} \/ todo[r] \ present # {}
               /\ Reply(r, "entry", 200)
               /\ UNCHANGED <<disk, upload, read, listing>>

------------------------------------------------------------------------------
Handle(r) == \/ Ensure(r) \/ MakeDir(r) \/ MakeDirThrows(r)
             \/ Upload(r)
             \/ Download(r)
             \/ Find(r) \/ Remove(r)
             \/ ListOpen(r) \/ ListEntry(r) \/ ListEnds(r)

\* Something else ends the process: main returns, another thread throws, or it is killed.
ProcessEnds == /\ process = "up"
               /\ process' = "terminated"
               /\ UNCHANGED <<disk, op, pc, upload, read, listing, answer, met>>

Next == (\E r \in Reqs : Begin(r) \/ Handle(r)) \/ ProcessEnds

SafeSpec == Init /\ [][Next]_vars

------------------------------------------------------------------------------
Uploads(n) == {r \in Reqs : op[r].kind = "upload" /\ n \in Changes(op[r])}
Deletes(n) == {r \in Reqs : op[r].kind = "delete" /\ n \in Changes(op[r])}

\* Everything some upload stores under name n, and what was there before.
Versions(n) == OldFiles \cup UNION {{Data(op[r], r, i) :
                 i \in {j \in PartsOf(op[r]) : op[r].parts[j].name = n}} : r \in Uploads(n)}

\* Type invariant; nobody reads more than the size it was told, a request is answered
\* once and last, and what is not on the disk has no content.
FileTypeOK ==
  /\ dir \in BOOLEAN
  /\ present \subseteq Names
  /\ content \in [Names -> Seq(Unit)]
  /\ op \in [Reqs -> Ops]
  /\ pc \in [Reqs -> PCs]
  /\ part \in [Reqs -> Nat] /\ pos \in [Reqs -> Nat] /\ size \in [Reqs -> Nat]
  /\ saved \in [Reqs -> SUBSET Nat]
  /\ body \in [Reqs -> Seq(Unit)]
  /\ todo \in [Reqs -> SUBSET Names] /\ listed \in [Reqs -> SUBSET Names]
  /\ answer \in [Reqs -> {0, 200, 207, 400, 404, 405, 500}]
  /\ process \in {"up", "terminated"}
  /\ met \in [Reqs -> SUBSET Reqs]
  /\ \A n \in Names \ present : content[n] = <<>>
  /\ \A r \in Reqs : Len(body[r]) <= size[r] /\ (answer[r] # 0 <=> pc[r] = "done")

\* A download delivers one stored version of its file, whole, unless an upload of the
\* same file overlapped with it or two uploads of the file overlapped: requests for
\* different files, and removals, never mix contents.
WholeUnlessShared == \A r \in Reqs : (op[r].kind = "download" /\ answer[r] = 200) =>
  LET n == op[r].name IN
    \/ body[r] \in Versions(n)
    \/ Uploads(n) \cap met[r] # {}
    \/ \E u \in Uploads(n) : met[u] \cap Uploads(n) # {}

\* What an upload has stored stays, whole, as long as no other request that changes
\* this file has begun.
SavedStays == \A r \in Reqs : op[r].kind = "upload" =>
  \A i \in saved[r] :
    LET n == op[r].parts[i].name IN
      (/\ \A j \in PartsOf(op[r]) : op[r].parts[j].name = n => j = i
       /\ \A q \in Reqs \ {r} : n \in Changes(op[q]) => pc[q] = "new")
      => n \in present /\ content[n] = Data(op[r], r, i)

\* Whenever the process ends, what it leaves under a name is a whole version or the beginning
\* of what one upload was just writing, unless two uploads of the file had overlapped. (There
\* is no recovery: the next start takes each file as it is.)
LeftByTheEnd == \A n \in present :
  \/ content[n] \in Versions(n)
  \/ \E u \in Uploads(n) : /\ pc[u] = "write" /\ FileOf(u) = n
                           /\ LET d == Data(op[u], u, part[u])
                              IN \E k \in 0..Len(d) : content[n] = SubSeq(d, 1, k)
  \/ \E u \in Uploads(n) : met[u] \cap Uploads(n) # {}

\* A file is removed once: without an upload of it, of all requests to delete it at
\* most one is told that it did, however their checks and removals interleave.
RemovedOnce == \A n \in Names : (\A u \in Uploads(n) : pc[u] = "new")
                 => Cardinality({r \in Deletes(n) : answer[r] = 200}) <= 1

\* One request at a time, the handlers implement the shelf: a file is stored at the
\* moment its upload opens it, since nobody looks before it is complete; what a response
\* carries shows when it is sent.
Writing(r) == pc[r] = "write"
ShelfContent == [n \in Names |-> IF \E r \in Holders(n) : Writing(r)
                                 THEN LET r == CHOOSE q \in Holders(n) : Writing(q)
                                      IN Data(op[r], r, part[r])
                                 ELSE content[n]]
ShelfPart == [r \in Reqs |-> IF Writing(r) THEN part[r] + 1 ELSE part[r]]
ShelfSaved == [r \in Reqs |-> IF Writing(r) THEN saved[r] \cup {part[r]} ELSE saved[r]]
ShelfBody == [r \in Reqs |-> IF answer[r] # 0 THEN body[r] ELSE <<>>]
ShelfListed == [r \in Reqs |-> IF answer[r] # 0 THEN listed[r] ELSE {}]

Shelf == INSTANCE FileShelf WITH content <- ShelfContent, part <- ShelfPart, saved <- ShelfSaved,
                                 body <- ShelfBody, listed <- ShelfListed
ShelfSpec == Shelf!Spec

------------------------------------------------------------------------------
\* An upload answered 200 says that all its files were saved successfully: at that
\* moment every one of them is on the disk with all its data.
SavedMeansStored == [][\A r \in Reqs :
  (op[r].kind = "upload" /\ answer[r] = 0 /\ answer'[r] = 200) =>
    \A i \in PartsOf(op[r]) :
      (\A j \in PartsOf(op[r]) : j > i => op[r].parts[j].name # op[r].parts[i].name)
        => content'[op[r].parts[i].name] = Data(op[r], r, i)]_vars
==============================================================================
