------------------------------ MODULE HttpHandler ------------------------------
(***************************************************************************)
(* Class HttpHandler of src/src/http_handler.cpp at work for one client:   *)
(* the loops that split an upload and that escape and unescape names, one  *)
(* round a step. Requests come one after the other, as in the server       *)
(* (SerialService of module Server), and each save, read, removal and      *)
(* listing is one step on the disk (ShelfSpec of module FileStore).        *)
(*                                                                         *)
(* Of an upload any beginning may arrive: async_read waits only for as     *)
(* much as Content-Length announces, src/src/server_simple.cpp for nothing.*)
(***************************************************************************)
EXTENDS Multipart, FiniteSets

CONSTANTS Parts,        \* parts a client may put into a form
          MaxParts,     \* bound: parts of a form
          Found,        \* files that others have put into the directory: names to contents
          Paths,        \* escaped names a client may make up
          MaxRequests,  \* bound: requests of each kind the client makes
          Troubles      \* what may go wrong on the disk, in one run of the program or another

Kinds == {"upload", "list", "download", "delete"}

ASSUME HttpAssumption == /\ \A p \in Parts : p \in PartType /\ WellFormed(p)
                         /\ MaxParts \in Nat
                         /\ MaxRequests \in [Kinds -> Nat]
                         /\ \A n \in DOMAIN Found \cup Paths : n \in Seq(Byte)
                         /\ \A n \in DOMAIN Found : /\ Found[n] \in Seq(Units)
                                                   /\ DiskName(n) = n /\ ~NoFile(n) /\ ~IsDevice(n)
                         /\ \A m, n \in DOMAIN Found : Fold(m) = Fold(n) => m = n
                         /\ Troubles \subseteq SUBSET {"denied", "full"}

VARIABLES
  \* the client
  form,     \* parts of the upload it sends
  starts,   \* where they start in the body
  links,    \* what listings have told it: names and their escaped form in the URLs
  wanted,   \* the name behind the link it follows; <<>> for a path of its own making
  left,     \* requests of each kind it will still make
  \* the request
  kind,     \* what it asks for
  media,    \* its Content-Type
  body,     \* as much of its body as arrives
  \* handle_upload
  pos,      \* the delimiter the loop stands at
  part,     \* the part in hand
  files,    \* files_to_save
  saved,    \* files dealt with so far
  failed,   \* failed_files, as a set of indices
  \* the loop that escapes or unescapes a name
  src, at, out,  \* its input, position and result
  ii,       \* values the uninitialised int may have
  \* handle_list_files
  todo,     \* names still to list
  \* all handlers
  pc,       \* the loop or the call the thread stands before
  disk,     \* the files: a function from their names to their contents
  status,   \* of the last response
  process,  \* "up" or "terminated"
  trouble   \* "denied": a file may not be opened or removed, being in use or protected;
            \* "full": the disk may take no more

client == <<form, starts, links, wanted, left>>
request == <<kind, media, body>>
upload == <<pos, part, files, saved, failed>>
codec == <<src, at, out, ii>>
vars == <<client, request, upload, codec, todo, pc, disk, status, process, trouble>>

\* Forms of Content-Type: not multipart/form-data, multipart without, with and with an empty
\* boundary, and with a parameter behind the boundary.
MediaTypes == {"other", "noboundary", "boundary", "empty", "parameter"}

PCs == {"idle", "compose", "type", "part", "parse", "name", "take", "save",
        "list", "encode", "path", "decode", "disk"}

Init == /\ form = <<>> /\ starts = <<>> /\ links = {} /\ wanted = <<>> /\ left = MaxRequests
        /\ kind = "list" /\ media = "other" /\ body = <<>>
        /\ pos = 0 /\ part = <<>> /\ files = <<>> /\ saved = 0 /\ failed = {}
        /\ src = <<>> /\ at = 1 /\ out = <<>> /\ ii = Byte
        /\ todo = {}
        /\ pc = "idle"
        /\ disk = Found
        /\ status = 0
        /\ process = "up"
        /\ trouble \in Troubles

\* The thread goes on from one place to the next.
Goes(from, to) == /\ process = "up"
                  /\ pc = from
                  /\ pc' = to
                  /\ UNCHANGED <<process, trouble>>

\* The handler returns its response.
Answer(from, code) == Goes(from, "idle") /\ status' = code

\* A loop over the bytes of s begins.
Load(s) == src' = s /\ at' = 1 /\ out' = <<>> /\ ii' = Byte

------------------------------------------------------------------------------
\* The client: it makes a request, the handler starts with fresh variables.

Request(what, to) == /\ left[what] > 0
                     /\ left' = [left EXCEPT ![what] = @ - 1]
                     /\ Goes("idle", to)
                     /\ kind' = what
                     /\ form' = <<>> /\ starts' = <<>> /\ body' = <<>>
                     /\ pos' = 0 /\ part' = <<>> /\ files' = <<>> /\ saved' = 0 /\ failed' = {}
                     /\ UNCHANGED <<links, disk, status>>

\* Bound: it makes its uploads before its other requests.
AskUpload == /\ \A k \in Kinds \ {"upload"} : left[k] = MaxRequests[k]
             /\ Request("upload", "compose")
             /\ media' \in MediaTypes
             /\ Load(<<>>)
             /\ wanted' = <<>> /\ todo' = {}

AskList == /\ Request("list", "list")
           /\ media' = "other"
           /\ Load(<<>>)
           /\ wanted' = <<>> /\ todo' = DOMAIN disk

\* It follows a link of a listing.
FollowLink == \E what \in {"download", "delete"}, link \in links :
                /\ Request(what, "path")
                /\ media' = "other"
                /\ Load(link.url)
                /\ wanted' = link.name /\ todo' = {}

\* It asks for a path of its own.
AskPath == \E what \in {"download", "delete"}, path \in Paths :
             /\ Request(what, "path")
             /\ media' = "other"
             /\ Load(path)
             /\ wanted' = <<>> /\ todo' = {}

\* It writes one more part into the body; what the body is matters for this type only.
WritePart == /\ Goes("compose", "compose")
             /\ media = "boundary"
             /\ Len(form) < MaxParts
             /\ \E p \in Parts : /\ form' = Append(form, p)
                                 /\ starts' = Append(starts, Len(body) + 1)
                                 /\ body' = body \o PartText(p)
             /\ UNCHANGED <<links, wanted, left, kind, media, upload, codec, todo, disk, status>>

\* It ends the form and sends it; a beginning of it arrives.
Send == /\ Goes("compose", "type")
        /\ starts' = Append(starts, Len(body) + 1)
        /\ \E n \in 0..(Len(body) + Len(Closing)) : body' = SubSeq(body \o Closing, 1, n)
        /\ UNCHANGED <<form, links, wanted, left, kind, media, upload, codec, todo, disk, status>>

------------------------------------------------------------------------------
\* handle_upload.

\* No multipart/form-data, or no boundary.
RefuseType == /\ media \in {"other", "noboundary"}
              /\ Answer("type", 400)
              /\ UNCHANGED <<client, request, upload, codec, todo, disk>>

\* front and back of an empty string: undefined. The boundary is found to be empty, or
\* the process ends.
EmptyBoundary == /\ media = "empty"
                 /\ \/ Answer("type", 400)
                    \/ /\ process = "up" /\ pc = "type"
                       /\ process' = "terminated"
                       /\ UNCHANGED <<pc, status, trouble>>
                 /\ UNCHANGED <<client, request, upload, codec, todo, disk>>

\* A boundary followed by another parameter is taken with it, and is then found nowhere.
FirstDelim == /\ media \in {"boundary", "parameter"}
              /\ Goes("type", "part")
              /\ pos' = IF media = "parameter" THEN 0 ELSE Find(body, Delim, 1)
              /\ UNCHANGED <<client, request, part, files, saved, failed, codec, todo, disk, status>>

\* There is a part between this delimiter and the next.
CutPart == /\ pos # 0
           /\ NextDelim(body, pos) # 0
           /\ Goes("part", "parse")
           /\ part' = PartAt(body, pos)
           /\ UNCHANGED <<client, request, pos, files, saved, failed, codec, todo, disk, status>>

\* parse_filename: an extended name goes before a plain one, and is decoded.
ParseFilename == /\ \/ /\ HasExtendedName(part)
                       /\ Goes("parse", "name")
                       /\ Load(ExtendedName(part))
                    \/ /\ ~HasExtendedName(part)
                       /\ Goes("parse", "take")
                       /\ src' = <<>> /\ at' = 1 /\ out' = PlainName(part) /\ ii' = Byte
                 /\ UNCHANGED <<client, request, upload, todo, disk, status>>

\* One round of file_name_url_decode.
DecodeName == /\ Goes("name", "name")
              /\ at <= Len(src)
              /\ ii' = Scanned(src, at, ii)
              /\ \E b \in NameBytes(src, at, ii) : out' = Append(out, b)
              /\ at' = NameNext(src, at)
              /\ UNCHANGED <<client, request, upload, src, todo, disk, status>>

NameDecoded == /\ Goes("name", "take")
               /\ at > Len(src)
               /\ UNCHANGED <<client, request, upload, codec, todo, disk, status>>

\* The part becomes a file to save, and the loop goes on at the next delimiter. The test
\* for an empty name is there, but no name is empty after utf8_to_acp.
TakePart == /\ Goes("take", "part")
            /\ files' = IF FindBlankLine(part) # 0 /\ utf8_to_acp(out) # <<>>
                        THEN Append(files, [name |-> utf8_to_acp(out), data |-> DataOf(part)])
                        ELSE files
            /\ pos' = NextDelim(body, pos)
            /\ UNCHANGED <<client, request, part, saved, failed, codec, todo, disk, status>>

\* No delimiter, or none behind it.
PartsEnd == /\ pos = 0 \/ NextDelim(body, pos) = 0
            /\ \/ files = <<>> /\ Answer("part", 400)
               \/ files # <<>> /\ Goes("part", "save") /\ UNCHANGED status
            /\ UNCHANGED <<client, request, upload, codec, todo, disk>>

\* The file that a path ending in name n leads to: the one that is there, whatever its case,
\* or a new one.
Entry(n) == LET there == {k \in DOMAIN disk : Fold(k) = Fold(n)}
            IN IF there = {} THEN n ELSE CHOOSE k \in there : TRUE

\* Mutation: a name that is not valid is cleaned and used.
SavableCleaned(filename, name) == ~NoFile(name)

\* save_file can open a file for this name, when its path ends in `name`.
Savable(filename, name) == is_valid_filename(filename) /\ ~NoFile(name)

\* What write may leave of these data in the file; nothing looks at its result.
Written(data) == {data} \cup {SubSeq(data, 1, n) : n \in IF "full" \in trouble THEN 0..Len(data) ELSE {}}

\* save_file does not open the file. A device may open or not.
SaveFails(filename, name) ==
  /\ ~Savable(filename, name) \/ IsDevice(name) \/ "denied" \in trouble
  /\ failed' = failed \cup {saved + 1}
  /\ UNCHANGED disk

\* It opens it, and all it is to write is taken for written.
SaveDone(filename, name) ==
  /\ Savable(filename, name)
  /\ \/ IsDevice(name) /\ UNCHANGED disk
     \/ /\ ~IsDevice(name)
        /\ \E entry \in {Entry(name)}, data \in Written(files[saved + 1].data) :
             disk' = [n \in DOMAIN disk \cup {entry} |-> IF n = entry THEN data ELSE disk[n]]
  /\ UNCHANGED failed

\* save_file for the next file.
SaveFile == /\ Goes("save", "save")
            /\ saved < Len(files)
            /\ saved' = saved + 1
            /\ \E filename \in {files[saved + 1].name} : \E clean \in {sanitize_filename(filename)} :
                 \E name \in {DiskName(clean)} : SaveFails(filename, name) \/ SaveDone(filename, name)
            /\ UNCHANGED <<client, request, pos, part, files, codec, todo, status>>

AnswerUpload == /\ saved = Len(files)
                /\ Answer("save", IF failed = {} THEN 200
                                  ELSE IF Cardinality(failed) = Len(files) THEN 500 ELSE 207)
                /\ UNCHANGED <<client, request, upload, codec, todo, disk>>

HandleUpload == \/ RefuseType \/ EmptyBoundary \/ FirstDelim
                \/ CutPart \/ ParseFilename \/ DecodeName \/ NameDecoded \/ TakePart \/ PartsEnd
                \/ SaveFile \/ AnswerUpload

------------------------------------------------------------------------------
\* handle_list_files.

\* The next file, in the order of the directory.
ListFile == /\ todo # {}
            /\ Goes("list", "encode")
            /\ LET n == CHOOSE n \in todo : TRUE IN todo' = todo \ {n} /\ Load(n)
            /\ UNCHANGED <<client, request, upload, disk, status>>

\* One round of url_encode.
EncodeByte == /\ Goes("encode", "encode")
              /\ at <= Len(src)
              /\ out' = out \o Code(src[at])
              /\ at' = at + 1
              /\ UNCHANGED <<client, request, upload, src, ii, todo, disk, status>>

\* download_url and delete_url of the file.
ListLink == /\ Goes("encode", "list")
            /\ at > Len(src)
            /\ links' = links \cup {[name |-> src, url |-> out]}
            /\ UNCHANGED <<form, starts, wanted, left, request, upload, codec, todo, disk, status>>

AnswerList == /\ todo = {}
              /\ Answer("list", 200)
              /\ UNCHANGED <<client, request, upload, codec, todo, disk>>

HandleListFiles == ListFile \/ EncodeByte \/ ListLink \/ AnswerList

------------------------------------------------------------------------------
\* handle_download and handle_delete_file.

\* Nothing behind "/download/" or "/delete/".
NoName == /\ src = <<>>
          /\ Answer("path", 400)
          /\ UNCHANGED <<client, request, upload, codec, todo, disk>>

StartDecode == /\ src # <<>>
               /\ Goes("path", "decode")
               /\ UNCHANGED <<client, request, upload, codec, todo, disk, status>>

\* One round of url_decode.
DecodeByte == /\ Goes("decode", "decode")
              /\ at <= Len(src)
              /\ out' = Append(out, UrlByte(src, at))
              /\ at' = UrlNext(src, at)
              /\ UNCHANGED <<client, request, upload, src, ii, todo, disk, status>>

CheckName == /\ at > Len(src)
             /\ \/ ~name_accepted(out) /\ Answer("decode", 400)
                \/ name_accepted(out) /\ Goes("decode", "disk") /\ UNCHANGED status
             /\ UNCHANGED <<client, request, upload, codec, todo, disk>>

\* There is something at a path ending in name n: a file, or the directory itself.
Exists(n) == n = <<>> \/ Entry(n) \in DOMAIN disk

\* What can be read there.
Content(n) == IF Entry(n) \in DOMAIN disk THEN disk[Entry(n)] ELSE <<>>

\* file_exists asks for the name as it is, and may find a device; read_file takes the cleaned
\* name. The directory, a device and an empty file cannot be read.
Download == /\ kind = "download"
            /\ \E clean \in {sanitize_filename(out)} : \E asked \in {DiskName(out)}, name \in {DiskName(clean)} :
                 \/ ~(is_valid_filename(out) /\ Exists(asked)) /\ Answer("disk", 404)
                 \/ /\ is_valid_filename(out) /\ (Exists(asked) \/ IsDevice(asked))
                    /\ Content(name) = <<>> \/ "denied" \in trouble
                    /\ Answer("disk", 500)
                 \/ /\ is_valid_filename(out) /\ Exists(asked) /\ Content(name) # <<>>
                    /\ Answer("disk", 200)
            /\ UNCHANGED <<client, request, upload, codec, todo, disk>>

\* The directory is removed when it is empty, and made again for the next request.
Removable(filename, name) == /\ is_valid_filename(filename)
                             /\ Exists(name)
                             /\ name = <<>> => DOMAIN disk = {}

Delete == /\ kind = "delete"
          /\ \E clean \in {sanitize_filename(out)} : \E name \in {DiskName(clean)} :
               \/ /\ ~Removable(out, name) \/ "denied" \in trouble
                  /\ Answer("disk", 500) /\ UNCHANGED disk
               \/ /\ Removable(out, name) /\ Answer("disk", 200)
                  /\ disk' = [n \in DOMAIN disk \ {Entry(name)} |-> disk[n]]
          /\ UNCHANGED <<client, request, upload, codec, todo>>

HandlePath == NoName \/ StartDecode \/ DecodeByte \/ CheckName \/ Download \/ Delete

------------------------------------------------------------------------------
Handler == HandleUpload \/ HandleListFiles \/ HandlePath

Client == AskUpload \/ AskList \/ FollowLink \/ AskPath \/ WritePart \/ Send

Next == Client \/ Handler

SafeSpec == Init /\ [][Next]_vars

\* The thread that handles the request is scheduled.
Spec == SafeSpec /\ WF_vars(Handler)
------------------------------------------------------------------------------
\* Type invariant; the loops stay inside their inputs, and the directory holds only what
\* Windows lets it: no name twice, no name that it drops a part of, no device.
HttpTypeOK ==
  /\ form \in Seq(Parts) /\ starts \in Seq(Nat) /\ left \in [Kinds -> Nat]
  /\ links \subseteq [name : Seq(Byte), url : Seq(Byte)]
  /\ wanted \in Seq(Byte)
  /\ kind \in Kinds
  /\ media \in MediaTypes
  /\ body \in Seq(Units)
  /\ pos \in 0..Len(body) /\ part \in Seq(Units)
  /\ files \in Seq([name : Seq(Byte), data : Seq(Units)])
  /\ saved \in 0..Len(files) /\ failed \subseteq 1..saved
  /\ src \in Seq(Units) /\ at \in 1..(Len(src) + 1) /\ out \in Seq(Units)
  /\ ii \in SUBSET Byte
  /\ todo \subseteq DOMAIN disk
  /\ pc \in PCs
  /\ \A n \in DOMAIN disk : /\ n \in Seq(Byte) /\ disk[n] \in Seq(Units)
                            /\ DiskName(n) = n /\ ~NoFile(n) /\ ~IsDevice(n)
  /\ \A m, n \in DOMAIN disk : Fold(m) = Fold(n) => m = n
  /\ status \in {0, 200, 207, 400, 404, 500}
  /\ process \in {"up", "terminated"}
  /\ trouble \in Troubles

\* The delimiter that ends part i has arrived.
Complete(i) == starts[i + 1] <= Len(body)

\* Wherever the body was cut, the files to save are exactly the parts whose ending
\* delimiter has arrived, in their order, each with all its data: no part of a file is ever
\* taken for a file. Each has the name its part gives, unless its data are taken for a name,
\* and behind its data the line end before the delimiter, which is not the client's.
WholePartsOnly ==
  /\ \A i \in 1..Len(files) :
       /\ i <= Len(form) /\ Complete(i)
       /\ files[i].data = Append(form[i].data, Crlf)
       /\ ~Misleads(form[i]) => files[i].name = utf8_to_acp(GivenName(form[i]))
  /\ pc = "save" => \A i \in 1..Len(form) : Complete(i) => i <= Len(files)

\* What handle_download checks and what it reads are the same file: file_exists takes the
\* name as it is, read_file the cleaned one, and cleaning a name that got so far changes nothing.
CheckedNameIsReadName == pc = "disk" => sanitize_filename(out) = out

\* The name for part i, the one it has on the disk, and whether no file can have it.
NameFor(i) == IF Misleads(form[i]) THEN files[i].name ELSE utf8_to_acp(GivenName(form[i]))
StoredName(i) == DiskName(NameFor(i))
Refused(i) == ~is_valid_filename(NameFor(i)) \/ NoFile(StoredName(i))

\* The data of part j, or as much of them as a full disk takes, lie under the name for part i.
Lies(i, j) == /\ Fold(StoredName(j)) = Fold(StoredName(i))
              /\ \E n \in DOMAIN disk : /\ Fold(n) = Fold(StoredName(i))
                                        /\ disk[n] \in Written(Append(form[j].data, Crlf))

\* The answer to an upload tells what has become of it, wherever its body was cut: 400, no
\* part came whole; 200, all that did are counted as saved; 500, none; 207, some. A part that
\* no file can be made of is never counted as saved, any other always, if the disk lets it be
\* opened; and what is counted lies on the disk, whole unless that is full, or a later part of
\* the upload with its name does, or it has gone to a device.
UploadTold ==
  (kind = "upload" /\ pc # "idle" /\ pc' = "idle") =>
    LET whole == {i \in 1..Len(form) : Complete(i)}
    IN /\ \A i \in whole :
            /\ Refused(i) => i \in failed
            /\ i \in failed => Refused(i) \/ IsDevice(StoredName(i)) \/ "denied" \in trouble
            /\ i \notin failed => \/ IsDevice(StoredName(i))
                                 \/ \E j \in (i..Len(form)) \ failed : Complete(j) /\ Lies(i, j)
       /\ status' = IF whole = {} THEN 400 ELSE IF failed = {} THEN 200
                    ELSE IF failed = whole THEN 500 ELSE 207

StatusTellsUpload == [][UploadTold]_vars

\* Every request is answered: no loop of the handlers runs for ever, whatever arrives.
EveryRequestEnds == pc \notin {"idle", "compose"} ~> (pc = "idle" \/ process # "up")

\* A link of a listing leads to its file as long as that is there: it is never refused or
\* not found and never leads to another one, whatever bytes the name has. Only a file that is
\* empty, or that the disk denies, is answered 500. This is so for every file that came by an
\* upload, and for files of others if their names are valid.
LinkFound ==
  (wanted # <<>> /\ wanted \in DOMAIN disk /\ pc # "idle" /\ pc' = "idle"
     /\ (wanted \in DOMAIN Found => is_valid_filename(wanted)))
  => \/ /\ status' = 200
        /\ disk' = IF kind = "delete" THEN [n \in DOMAIN disk \ {wanted} |-> disk[n]] ELSE disk
     \/ /\ status' = 500 /\ UNCHANGED disk
        /\ "denied" \in trouble \/ (kind = "download" /\ disk[wanted] = <<>>)

LinksWork == [][LinkFound]_vars

\* A step changes at most one file: an upload the one that is named for the part in hand,
\* to that part's data, and a removal the one it was asked for.
OnlyNamedFilesChange ==
  [][\A n \in DOMAIN disk \cup DOMAIN disk' :
       \/ n \in DOMAIN disk \cap DOMAIN disk' /\ disk'[n] = disk[n]
       \/ /\ kind = "upload" /\ n \in DOMAIN disk'
          /\ Fold(n) = Fold(StoredName(saved + 1))
          /\ disk'[n] \in Written(Append(form[saved + 1].data, Crlf))
       \/ kind = "delete" /\ n \notin DOMAIN disk' /\ Fold(n) = Fold(DiskName(out))]_vars
==============================================================================
