--------------------------- MODULE HttpHandlerProofs ---------------------------
(***************************************************************************)
(* Proofs about HttpHandler.                                               *)
(***************************************************************************)
EXTENDS HttpHandler, NameProofs

------------------------------------------------------------------------------
\* The type invariant, by groups of variables, with where the handler may be for what.

File == [name : Seq(Byte), data : Seq(Units)]
Link == [name : Seq(Byte), url : Seq(Byte)]

ClientOK == /\ form \in Seq(Parts) /\ starts \in Seq(Nat) /\ links \subseteq Link
            /\ wanted \in Seq(Byte) /\ left \in [Kinds -> Nat]
RequestOK == kind \in Kinds /\ media \in MediaTypes /\ body \in Seq(Units)
UploadOK == /\ pos \in 0..Len(body) /\ part \in Seq(Units) /\ files \in Seq(File)
            /\ saved \in 0..Len(files) /\ failed \subseteq 1..saved
CodecOK == /\ src \in Seq(Units) /\ at \in 1..(Len(src) + 1) /\ out \in Seq(Units)
           /\ ii \in SUBSET Byte
Entered(n) == n \in Seq(Byte) /\ DiskName(n) = n /\ ~NoFile(n) /\ ~IsDevice(n)
DiskOK == /\ todo \subseteq DOMAIN disk
          /\ \A n \in DOMAIN disk : Entered(n) /\ disk[n] \in Seq(Units)
          /\ \A m, n \in DOMAIN disk : Fold(m) = Fold(n) => m = n
RestOK == /\ pc \in PCs /\ status \in {0, 200, 207, 400, 404, 500} /\ process \in {"up", "terminated"}
          /\ trouble \in Troubles

PlaceInv == /\ pc \in {"encode", "path", "decode", "disk"} => src \in Seq(Byte) /\ out \in Seq(Byte)
            /\ pc = "disk" => name_accepted(out) /\ kind \in {"download", "delete"}
            /\ pc \in {"path", "decode"} => kind \in {"download", "delete"}
            /\ pc \in {"list", "encode"} => kind = "list"
            /\ pc \in {"compose", "type", "part", "parse", "name", "take", "save"} => kind = "upload"
            /\ pc \in {"compose", "type"} => pos = 0 /\ files = <<>>
            /\ pc \notin {"save", "idle"} => saved = 0 /\ failed = {}
            /\ todo # {} => pc \in {"list", "encode"}

HttpInv == /\ ClientOK /\ RequestOK /\ UploadOK /\ CodecOK /\ DiskOK /\ RestOK
           /\ PlaceInv

LEMMA HttpInvTypes == HttpInv => HttpTypeOK
<1>1. DiskOK => /\ todo \subseteq DOMAIN disk
                /\ \A n \in DOMAIN disk : /\ n \in Seq(Byte) /\ disk[n] \in Seq(Units)
                                          /\ DiskName(n) = n /\ ~NoFile(n) /\ ~IsDevice(n)
                /\ \A m, n \in DOMAIN disk : Fold(m) = Fold(n) => m = n
  BY Zenon DEF DiskOK, Entered
<1> QED
  BY <1>1, Zenon DEF HttpInv, HttpTypeOK, ClientOK, RequestOK, UploadOK, CodecOK, RestOK, File, Link

LEMMA EmptySeqs ==
  ASSUME NEW X
  PROVE  <<>> \in Seq(X) /\ Len(<<>>) = 0
OBVIOUS

LEMMA HttpInit == Init => HttpInv
<1> SUFFICES ASSUME Init PROVE HttpInv
  OBVIOUS
<1> USE HttpAssumption DEF Init
<1>1. ClientOK
  BY EmptySeqs DEF ClientOK
<1>2. RequestOK
  BY EmptySeqs DEF RequestOK, Kinds, MediaTypes
<1>3. UploadOK
  BY EmptySeqs DEF UploadOK
<1>4. CodecOK
  BY EmptySeqs DEF CodecOK
<1>5. DiskOK
  <2>1. disk = Found /\ todo = {}
    OBVIOUS
  <2>2. \A n \in DOMAIN Found : Entered(n) /\ Found[n] \in Seq(Units)
    BY DEF Entered
  <2>3. \A m, n \in DOMAIN Found : Fold(m) = Fold(n) => m = n
    BY Zenon
  <2> QED
    BY <2>1, <2>2, <2>3 DEF DiskOK
<1>6. RestOK
  BY DEF RestOK, PCs
<1>7. PlaceInv
  BY DEF PlaceInv
<1> QED
  BY <1>1, <1>2, <1>3, <1>4, <1>5, <1>6, <1>7 DEF HttpInv

\* A new request starts with everything empty.
LEMMA HttpRequest ==
  ASSUME HttpInv, NEW what \in Kinds, NEW to, Request(what, to), NEW s \in Seq(Byte), Load(s),
         media' \in MediaTypes, wanted' \in Seq(Byte),
         \/ what = "upload" /\ to = "compose" /\ todo' = {}
         \/ what = "list" /\ to = "list" /\ todo' \subseteq DOMAIN disk
         \/ what \in {"download", "delete"} /\ to = "path" /\ todo' = {}
  PROVE  HttpInv'
<1> USE DEF HttpInv, Request, Load, Goes
<1>0. s \in Seq(Units) /\ Len(s) \in Nat
  BY DEF Units
<1>1. ClientOK'
  BY EmptySeqs DEF ClientOK
<1>2. RequestOK'
  BY EmptySeqs DEF RequestOK
<1>3. UploadOK'
  BY EmptySeqs DEF UploadOK
<1>4. CodecOK'
  BY <1>0, EmptySeqs DEF CodecOK
<1>5. DiskOK'
  BY DEF DiskOK
<1>6. RestOK'
  BY DEF RestOK, PCs
<1>7. PlaceInv'
  BY EmptySeqs DEF PlaceInv
<1> QED
  BY <1>1, <1>2, <1>3, <1>4, <1>5, <1>6, <1>7

LEMMA HttpClient == HttpInv /\ Client => HttpInv'
<1> SUFFICES ASSUME HttpInv, Client PROVE HttpInv'
  OBVIOUS
<1> USE EmptySeqs
<1>1. CASE AskUpload
  BY <1>1, HttpRequest DEF AskUpload, Kinds
<1>2. CASE AskList
  BY <1>2, HttpRequest DEF AskList, Kinds, MediaTypes
<1>3. CASE FollowLink
  <2>1. PICK what \in {"download", "delete"}, link \in links :
           /\ Request(what, "path") /\ Load(link.url)
           /\ media' = "other" /\ wanted' = link.name /\ todo' = {}
    BY <1>3 DEF FollowLink
  <2>2. link.url \in Seq(Byte) /\ link.name \in Seq(Byte)
    BY DEF HttpInv, ClientOK, Link
  <2> QED
    BY <2>1, <2>2, HttpRequest DEF Kinds, MediaTypes
<1>4. CASE AskPath
  <2>1. PICK what \in {"download", "delete"}, path \in Paths :
           /\ Request(what, "path") /\ Load(path)
           /\ media' = "other" /\ wanted' = <<>> /\ todo' = {}
    BY <1>4 DEF AskPath
  <2> QED
    BY <2>1, HttpAssumption, HttpRequest DEF Kinds, MediaTypes
<1>5. CASE WritePart
  <2> USE <1>5 DEF WritePart, Goes, HttpInv, upload, codec
  <2>1. PICK p \in Parts : /\ form' = Append(form, p)
                           /\ starts' = Append(starts, Len(body) + 1)
                           /\ body' = body \o PartText(p)
    OBVIOUS
  <2>2. PartText(p) \in Seq(Units)
    BY HttpAssumption, PartTextType
  <2>3. ClientOK'
    BY <2>1 DEF ClientOK, RequestOK
  <2>4. RequestOK'
    BY <2>1, <2>2 DEF RequestOK
  <2>5. UploadOK'
    BY <2>4 DEF UploadOK, PlaceInv, RequestOK
  <2>6. CodecOK' /\ DiskOK' /\ RestOK' /\ PlaceInv'
    BY DEF CodecOK, DiskOK, RestOK, PlaceInv
  <2> QED
    BY <2>3, <2>4, <2>5, <2>6
<1>6. CASE Send
  <2> USE <1>6 DEF Send, Goes, HttpInv, upload, codec
  <2>1. PICK n \in 0..(Len(body) + Len(Closing)) : body' = SubSeq(body \o Closing, 1, n)
    OBVIOUS
  <2>2. Closing \in Seq(Units)
    BY DEF Closing, Units, Byte, Delim, Crlf
  <2>3. RequestOK'
    <3>1. body \o Closing \in Seq(Units) /\ Len(body \o Closing) = Len(body) + Len(Closing)
      BY <2>2 DEF RequestOK
    <3>2. Len(body) \in Nat /\ Len(Closing) \in Nat
      BY <2>2 DEF RequestOK
    <3> QED
      BY <2>1, <3>1, <3>2, SubSeqType DEF RequestOK
  <2>4. ClientOK'
    BY DEF ClientOK, RequestOK
  <2>5. UploadOK'
    BY <2>3 DEF UploadOK, PlaceInv, RequestOK
  <2>6. CodecOK' /\ DiskOK' /\ RestOK' /\ PlaceInv'
    BY DEF CodecOK, DiskOK, RestOK, PlaceInv, PCs
  <2> QED
    BY <2>3, <2>4, <2>5, <2>6
<1> QED
  BY <1>1, <1>2, <1>3, <1>4, <1>5, <1>6 DEF Client

\* What a path leads to: a name of the directory, if it has one that differs in case at most.
LEMMA EntryFacts ==
  ASSUME NEW n
  PROVE  /\ Fold(Entry(n)) = Fold(n)
         /\ \/ Entry(n) \in DOMAIN disk
            \/ Entry(n) = n /\ \A k \in DOMAIN disk : Fold(k) # Fold(n)
<1> DEFINE there == {k \in DOMAIN disk : Fold(k) = Fold(n)}
<1>1. CASE there = {}
  BY <1>1 DEF Entry
<1>2. CASE there # {}
  <2>1. Entry(n) \in there
    BY <1>2 DEF Entry
  <2> QED
    BY <2>1
<1> QED
  BY <1>1, <1>2

LEMMA WrittenType ==
  ASSUME NEW data \in Seq(Units), NEW d \in Written(data)
  PROVE  d \in Seq(Units)
<1>1. CASE d = data
  BY <1>1
<1>2. CASE d # data
  <2>1. PICK k \in 0..Len(data) : d = SubSeq(data, 1, k)
    BY <1>2 DEF Written
  <2>2. k \in Int /\ k <= Len(data)
    BY <2>1, LenProperties
  <2> QED
    BY <2>1, <2>2, SubSeqType
<1> QED
  BY <1>1, <1>2

\* The data d come to lie under the name e.
Puts(e, d) == disk' = [n \in DOMAIN disk \cup {e} |-> IF n = e THEN d ELSE disk[n]]

\* What save_file does: it fails, or writes to a device, or to the file of that name.
LEMMA SaveCases ==
  ASSUME HttpInv, SaveFile, NEW name, name = DiskName(files[saved + 1].name)
  PROVE  /\ saved + 1 \in 1..Len(files) /\ saved' = saved + 1 /\ pc = "save" /\ pc' = "save"
         /\ UNCHANGED <<client, request, pos, part, files, codec, todo, status, process, trouble>>
         /\ files[saved + 1].name \in Seq(Byte) /\ files[saved + 1].data \in Seq(Units)
         /\ \/ /\ ~Savable(files[saved + 1].name, name) \/ IsDevice(name) \/ "denied" \in trouble
               /\ failed' = failed \cup {saved + 1} /\ disk' = disk
            \/ /\ Savable(files[saved + 1].name, name) /\ IsDevice(name)
               /\ failed' = failed /\ disk' = disk
            \/ /\ Savable(files[saved + 1].name, name) /\ Entered(name) /\ failed' = failed
               /\ \E e : /\ Entered(e) /\ Fold(e) = Fold(name) /\ e \in DOMAIN disk \cup {name}
                         /\ \A k \in DOMAIN disk : Fold(k) = Fold(name) => k = e
                         /\ \E d \in Written(files[saved + 1].data) : d \in Seq(Units) /\ Puts(e, d)
<1>1. /\ saved + 1 \in 1..Len(files) /\ saved' = saved + 1 /\ pc = "save" /\ pc' = "save"
      /\ UNCHANGED <<client, request, pos, part, files, codec, todo, status, process, trouble>>
  BY LenProperties DEF SaveFile, Goes, HttpInv, UploadOK
<1> PICK file : file = files[saved + 1]
  OBVIOUS
<1>2. file \in File /\ file.name \in Seq(Byte) /\ file.data \in Seq(Units)
  <2>1. file \in File
    BY <1>1, ElementOfSeq DEF HttpInv, UploadOK
  <2> QED
    BY <2>1 DEF File
<1>3. PICK there : /\ there = DiskName(sanitize_filename(file.name))
                   /\ SaveFails(file.name, there) \/ SaveDone(file.name, there)
  BY Zenon DEF SaveFile
<1>4. is_valid_filename(file.name) => there = name
  BY <1>2, <1>3, ValidStays
<1>5. CASE SaveFails(file.name, there)
  BY <1>1, <1>2, <1>4, <1>5 DEF SaveFails, Savable
<1>6. CASE SaveDone(file.name, there)
  <2>1. Savable(file.name, name) /\ there = name /\ failed' = failed
    BY <1>4, <1>6 DEF SaveDone, Savable
  <2>2. CASE IsDevice(name)
    BY <1>1, <1>2, <1>6, <2>1, <2>2 DEF SaveDone
  <2>3. CASE ~IsDevice(name)
    <3>1. PICK d \in Written(file.data) : Puts(Entry(name), d)
      BY <1>6, <2>1, <2>3 DEF SaveDone, Puts
    <3>2. d \in Seq(Units)
      BY <1>2, WrittenType
    <3>3. Entered(name)
      BY <1>2, <2>1, <2>3, DiskType DEF Entered, Savable
    <3> PICK e : e = Entry(name)
      OBVIOUS
    <3>4. /\ Fold(e) = Fold(name)
          /\ \/ e \in DOMAIN disk
             \/ e = name /\ \A k \in DOMAIN disk : Fold(k) # Fold(name)
      BY EntryFacts
    <3>5. Entered(e) /\ e \in DOMAIN disk \cup {name} /\ \A k \in DOMAIN disk : Fold(k) = Fold(name) => k = e
      BY <3>3, <3>4 DEF HttpInv, DiskOK
    <3> QED
      BY <1>1, <1>2, <2>1, <3>1, <3>2, <3>3, <3>4, <3>5
  <2> QED
    BY <2>2, <2>3
<1> QED
  BY <1>3, <1>5, <1>6

\* What a removal does.
LEMMA DeleteCases ==
  ASSUME HttpInv, Delete
  PROVE  /\ kind = "delete" /\ pc = "disk" /\ pc' = "idle"
         /\ UNCHANGED <<client, request, upload, codec, todo, process, trouble>>
         /\ \/ /\ ~Removable(out, DiskName(out)) \/ "denied" \in trouble
               /\ status' = 500 /\ disk' = disk
            \/ /\ Removable(out, DiskName(out)) /\ status' = 200
               /\ disk' = [n \in DOMAIN disk \ {Entry(DiskName(out))} |-> disk[n]]
<1>1. PICK clean, name : /\ clean = sanitize_filename(out) /\ name = DiskName(clean)
                         /\ \/ /\ ~Removable(out, name) \/ "denied" \in trouble
                               /\ Answer("disk", 500) /\ UNCHANGED disk
                            \/ /\ Removable(out, name) /\ Answer("disk", 200)
                               /\ disk' = [n \in DOMAIN disk \ {Entry(name)} |-> disk[n]]
  BY Zenon DEF Delete
<1>2. kind = "delete" /\ UNCHANGED <<client, request, upload, codec, todo>>
  BY DEF Delete
<1>3. pc = "disk" /\ pc' = "idle" /\ UNCHANGED <<process, trouble>>
  BY <1>1 DEF Answer, Goes
<1>4. clean = out
  BY <1>1, <1>3, AcceptedStays DEF HttpInv, PlaceInv
<1> QED
  BY <1>1, <1>2, <1>3, <1>4 DEF Answer

\* A request that is over: nothing is left to list.
LEMMA HttpIdle ==
  ASSUME HttpInv, PlaceInv, pc' = "idle", todo' = {}
  PROVE  PlaceInv'
BY DEF PlaceInv

LEMMA HttpUpload == HttpInv /\ HandleUpload => HttpInv'
<1> SUFFICES ASSUME HttpInv, HandleUpload PROVE HttpInv'
  OBVIOUS
<1> USE DEF HttpInv, Goes, Answer, client, request, upload, codec
<1>0. pc \in {"type", "part", "parse", "name", "take", "save"} => kind = "upload" /\ todo = {}
  BY DEF PlaceInv
<1>1. CASE RefuseType
  BY <1>1 DEF RefuseType, ClientOK, RequestOK, UploadOK, CodecOK, DiskOK, RestOK, PCs, PlaceInv
<1>2. CASE EmptyBoundary
  <2> USE <1>2 DEF EmptyBoundary
  <2>1. pc' \in {"type", "idle"} /\ pc = "type" /\ RestOK'
    BY DEF RestOK, PCs
  <2>2. PlaceInv'
    BY <2>1 DEF PlaceInv
  <2> QED
    BY <2>1, <2>2 DEF ClientOK, RequestOK, UploadOK, CodecOK, DiskOK
<1>3. CASE FirstDelim
  <2> USE <1>3 DEF FirstDelim
  <2>1. pos' \in 0..Len(body)
    <3>1. body \in Seq(Units) /\ Len(body) \in Nat
      BY DEF RequestOK
    <3>2. Find(body, Delim, 1) \in 0..Len(body)
      BY <3>1, FindResult
    <3> QED
      BY <3>1, <3>2
  <2>2. UploadOK'
    BY <2>1 DEF UploadOK
  <2> QED
    BY <2>2 DEF ClientOK, RequestOK, CodecOK, DiskOK, RestOK, PCs, PlaceInv
<1>4. CASE CutPart
  <2> USE <1>4 DEF CutPart
  <2>1. part' \in Seq(Units)
    BY NextDelimType DEF RequestOK, UploadOK
  <2>2. UploadOK'
    BY <2>1 DEF UploadOK
  <2> QED
    BY <2>2 DEF ClientOK, RequestOK, CodecOK, DiskOK, RestOK, PCs, PlaceInv
<1>5. CASE ParseFilename
  <2> USE <1>5 DEF ParseFilename
  <2>1. CodecOK'
    <3>1. PlainName(part) \in Seq(Units) /\ (HasExtendedName(part) => ExtendedName(part) \in Seq(Units))
      BY ParseType DEF UploadOK
    <3>2. CASE HasExtendedName(part)
      <4>1. Load(ExtendedName(part))
        BY <3>2
      <4>2. ExtendedName(part) \in Seq(Units) /\ Len(ExtendedName(part)) \in Nat
        BY <3>1, <3>2, LenProperties
      <4> QED
        BY <4>1, <4>2, EmptySeqs DEF CodecOK, Load
    <3>3. CASE ~HasExtendedName(part)
      <4>1. src' = <<>> /\ at' = 1 /\ out' = PlainName(part) /\ ii' = Byte
        BY <3>3
      <4> QED
        BY <3>1, <4>1, EmptySeqs DEF CodecOK
    <3> QED
      BY <3>2, <3>3
  <2> QED
    BY <2>1 DEF ClientOK, RequestOK, UploadOK, DiskOK, RestOK, PCs, PlaceInv
<1>6. CASE DecodeName
  <2> USE <1>6 DEF DecodeName
  <2>1. src \in Seq(Units) /\ at \in 1..Len(src)
    BY DEF CodecOK
  <2>2. /\ Scanned(src, at, ii) \in SUBSET Byte /\ NameBytes(src, at, ii) \in SUBSET Units
        /\ NameNext(src, at) \in (at + 1)..(Len(src) + 1)
    BY <2>1, NameStep DEF CodecOK
  <2>3. CodecOK'
    BY <2>1, <2>2 DEF CodecOK
  <2> QED
    BY <2>3 DEF ClientOK, RequestOK, UploadOK, DiskOK, RestOK, PCs, PlaceInv
<1>7. CASE NameDecoded
  BY <1>7 DEF NameDecoded, ClientOK, RequestOK, UploadOK, CodecOK, DiskOK, RestOK, PCs, PlaceInv
<1>8. CASE TakePart
  <2> USE <1>8 DEF TakePart
  <2>1. pos' \in 0..Len(body)
    BY NextDelimType DEF RequestOK, UploadOK
  <2>2. [name |-> utf8_to_acp(out), data |-> DataOf(part)] \in File
    BY AcpType, DataOfType DEF CodecOK, UploadOK, File
  <2>3. files' \in Seq(File)
    BY <2>2 DEF UploadOK
  <2>4. saved = 0 /\ failed = {}
    BY DEF PlaceInv
  <2>5. UploadOK'
    <3>1. Len(files') \in Nat
      BY <2>3
    <3> QED
      BY <2>1, <2>3, <2>4, <3>1 DEF UploadOK
  <2> QED
    BY <2>5 DEF ClientOK, RequestOK, CodecOK, DiskOK, RestOK, PCs, PlaceInv
<1>9. CASE PartsEnd
  <2>1. PlaceInv'
    BY <1>9, <1>0 DEF PartsEnd, PlaceInv
  <2>2. RestOK'
    BY <1>9 DEF PartsEnd, RestOK, PCs
  <2> QED
    BY <1>9, <2>1, <2>2 DEF PartsEnd, ClientOK, RequestOK, UploadOK, CodecOK, DiskOK
<1>10. CASE SaveFile
  <2> PICK name : name = DiskName(files[saved + 1].name)
    OBVIOUS
  <2>1. /\ saved + 1 \in 1..Len(files) /\ saved' = saved + 1 /\ pc = "save" /\ pc' = "save"
        /\ UNCHANGED <<client, request, pos, part, files, codec, todo, status, process, trouble>>
        /\ failed' = failed \/ failed' = failed \cup {saved + 1}
        /\ \/ disk' = disk
           \/ \E e : /\ Entered(e) /\ Fold(e) = Fold(name)
                     /\ \A k \in DOMAIN disk : Fold(k) = Fold(name) => k = e
                     /\ \E d : d \in Seq(Units) /\ Puts(e, d)
    BY <1>10, SaveCases, Zenon
  <2>2. Len(files) \in Nat /\ saved \in Nat
    BY LenProperties DEF UploadOK
  <2>3. DiskOK'
    <3>1. CASE disk' = disk
      BY <2>1, <3>1 DEF DiskOK
    <3>2. ASSUME NEW e, Entered(e), Fold(e) = Fold(name), \A k \in DOMAIN disk : Fold(k) = Fold(name) => k = e,
                 NEW d \in Seq(Units), Puts(e, d)
          PROVE  DiskOK'
      <4>1. DOMAIN disk' = DOMAIN disk \cup {e} /\ \A n \in DOMAIN disk' : disk'[n] = IF n = e THEN d ELSE disk[n]
        BY <3>2 DEF Puts
      <4>2. \A n \in DOMAIN disk' : Entered(n) /\ disk'[n] \in Seq(Units)
        BY <3>2, <4>1 DEF DiskOK
      <4>3. \A m, n \in DOMAIN disk' : Fold(m) = Fold(n) => m = n
        BY <3>2, <4>1 DEF DiskOK
      <4> QED
        BY <2>1, <4>1, <4>2, <4>3 DEF DiskOK
    <3> QED
      BY <2>1, <3>1, <3>2
  <2>4. UploadOK'
    <3>1. UNCHANGED <<pos, part, files, body>> /\ saved' \in 0..Len(files)
      BY <2>1, <2>2
    <3>2. failed \subseteq 1..saved /\ 1..saved \subseteq 1..(saved + 1) /\ saved + 1 \in 1..(saved + 1)
      BY <2>2 DEF UploadOK
    <3>3. failed' \subseteq 1..saved'
      <4> HIDE <1>10 DEF HttpInv
      <4> QED
        BY <2>1, <3>2
    <3> QED
      BY <3>1, <3>3 DEF UploadOK
  <2>5. PlaceInv'
    BY <2>1, <1>0 DEF PlaceInv
  <2> QED
    BY <2>1, <2>3, <2>4, <2>5 DEF ClientOK, RequestOK, CodecOK, RestOK, PCs
<1>11. CASE AnswerUpload
  BY <1>11, <1>0 DEF AnswerUpload, ClientOK, RequestOK, UploadOK, CodecOK, DiskOK, RestOK, PCs, PlaceInv
<1> QED
  BY <1>1, <1>2, <1>3, <1>4, <1>5, <1>6, <1>7, <1>8, <1>9, <1>10, <1>11 DEF HandleUpload

LEMMA HttpList == HttpInv /\ HandleListFiles => HttpInv'
<1> SUFFICES ASSUME HttpInv, HandleListFiles PROVE HttpInv'
  OBVIOUS
<1> USE DEF HttpInv, Goes, Answer, client, request, upload, codec
<1>1. CASE ListFile
  <2> USE <1>1 DEF ListFile
  <2>1. PICK n \in todo : todo' = todo \ {n} /\ Load(n)
    OBVIOUS
  <2>2. n \in Seq(Byte) /\ n \in Seq(Units) /\ Len(n) \in Nat
    <3>1. n \in Seq(Byte)
      BY DEF DiskOK, Entered
    <3> QED
      BY <3>1 DEF Units
  <2>3. CodecOK'
    BY <2>1, <2>2, EmptySeqs DEF Load, CodecOK
  <2>4. DiskOK' /\ PlaceInv'
    BY <2>1, <2>2, EmptySeqs DEF DiskOK, PlaceInv, Load
  <2> QED
    BY <2>3, <2>4 DEF ClientOK, RequestOK, UploadOK, RestOK, PCs
<1>2. CASE EncodeByte
  <2> USE <1>2 DEF EncodeByte
  <2>1. src \in Seq(Byte) /\ out \in Seq(Byte) /\ at \in 1..Len(src) /\ Len(out) \in Nat
    BY LenProperties DEF PlaceInv, CodecOK
  <2>2. Code(src[at]) \in Seq(Byte)
    BY <2>1, CodeShape, ElementOfSeq
  <2>3. out' \in Seq(Byte) /\ at' \in 1..(Len(src) + 1)
    BY <2>1, <2>2, ConcatProperties
  <2>4. out' \in Seq(Units)
    BY <2>3 DEF Units
  <2>5. CodecOK'
    BY <2>3, <2>4 DEF CodecOK
  <2>6. PlaceInv'
    BY <2>1, <2>3 DEF PlaceInv
  <2> QED
    BY <2>5, <2>6 DEF ClientOK, RequestOK, UploadOK, DiskOK, RestOK, PCs
<1>3. CASE ListLink
  <2> USE <1>3 DEF ListLink
  <2>1. [name |-> src, url |-> out] \in Link
    BY DEF PlaceInv, CodecOK, Link
  <2>2. ClientOK'
    BY <2>1 DEF ClientOK
  <2> QED
    BY <2>2 DEF RequestOK, UploadOK, CodecOK, DiskOK, RestOK, PCs, PlaceInv
<1>4. CASE AnswerList
  BY <1>4 DEF AnswerList, ClientOK, RequestOK, UploadOK, CodecOK, DiskOK, RestOK, PCs, PlaceInv
<1> QED
  BY <1>1, <1>2, <1>3, <1>4 DEF HandleListFiles

LEMMA HttpPath == HttpInv /\ HandlePath => HttpInv'
<1> SUFFICES ASSUME HttpInv, HandlePath PROVE HttpInv'
  OBVIOUS
<1> USE DEF HttpInv, Goes, Answer, client, request, upload, codec
<1>0. pc \in {"path", "decode", "disk"} => todo = {}
  BY DEF PlaceInv
<1>1. CASE NoName
  BY <1>1, <1>0 DEF NoName, ClientOK, RequestOK, UploadOK, CodecOK, DiskOK, RestOK, PCs, PlaceInv
<1>2. CASE StartDecode
  BY <1>2, <1>0 DEF StartDecode, ClientOK, RequestOK, UploadOK, CodecOK, DiskOK, RestOK, PCs, PlaceInv
<1>3. CASE DecodeByte
  <2> USE <1>3 DEF DecodeByte
  <2>1. src \in Seq(Byte) /\ out \in Seq(Byte) /\ at \in 1..Len(src)
    BY DEF PlaceInv, CodecOK
  <2>2. UrlByte(src, at) \in Byte /\ UrlNext(src, at) \in (at + 1)..(Len(src) + 1)
    BY <2>1, UrlStep
  <2>3. out' \in Seq(Byte) /\ at' \in 1..(Len(src) + 1)
    BY <2>1, <2>2
  <2>4. out' \in Seq(Units)
    BY <2>3 DEF Units
  <2>5. CodecOK'
    BY <2>3, <2>4 DEF CodecOK
  <2>6. PlaceInv'
    BY <2>1, <2>3 DEF PlaceInv
  <2> QED
    BY <2>5, <2>6 DEF ClientOK, RequestOK, UploadOK, DiskOK, RestOK, PCs
<1>4. CASE CheckName
  <2>1. PlaceInv'
    BY <1>4, <1>0 DEF CheckName, PlaceInv
  <2>2. RestOK'
    BY <1>4 DEF CheckName, RestOK, PCs
  <2> QED
    BY <1>4, <2>1, <2>2 DEF CheckName, ClientOK, RequestOK, UploadOK, CodecOK, DiskOK
<1>5. CASE Download
  <2>1. /\ status' \in {404, 200, 500} /\ pc = "disk" /\ pc' = "idle"
        /\ UNCHANGED <<client, request, upload, codec, todo, disk, process, trouble>>
    BY <1>5 DEF Download
  <2>2. RestOK'
    BY <2>1 DEF RestOK, PCs
  <2>3. PlaceInv'
    BY <1>0, <2>1 DEF PlaceInv
  <2> QED
    BY <2>1, <2>2, <2>3 DEF ClientOK, RequestOK, UploadOK, CodecOK, DiskOK
<1>6. CASE Delete
  <2>1. /\ kind = "delete" /\ pc = "disk" /\ pc' = "idle" /\ status' \in {200, 500}
        /\ UNCHANGED <<client, request, upload, codec, todo, process, trouble>>
        /\ \/ disk' = disk
           \/ \E e : disk' = [n \in DOMAIN disk \ {e} |-> disk[n]]
    BY <1>6, DeleteCases, Zenon
  <2>2. RestOK'
    BY <2>1 DEF RestOK, PCs
  <2>3. PlaceInv'
    BY <1>0, <2>1 DEF PlaceInv
  <2>4. DiskOK'
    <3>1. /\ todo' = {} /\ DOMAIN disk' \subseteq DOMAIN disk
          /\ \A n \in DOMAIN disk' : disk'[n] = disk[n]
      <4>1. CASE disk' = disk
        BY <1>0, <2>1, <4>1
      <4>2. ASSUME NEW e, disk' = [n \in DOMAIN disk \ {e} |-> disk[n]]
            PROVE  DOMAIN disk' \subseteq DOMAIN disk /\ \A n \in DOMAIN disk' : disk'[n] = disk[n]
        BY <4>2
      <4> QED
        BY <1>0, <2>1, <4>1, <4>2
    <3> QED
      BY <3>1 DEF DiskOK
  <2> QED
    BY <2>1, <2>2, <2>3, <2>4 DEF ClientOK, RequestOK, UploadOK, CodecOK
<1> QED
  BY <1>1, <1>2, <1>3, <1>4, <1>5, <1>6 DEF HandlePath

LEMMA HttpStutter == HttpInv /\ UNCHANGED vars => HttpInv'
BY DEF HttpInv, vars, client, request, upload, codec, ClientOK, RequestOK, UploadOK, CodecOK,
       DiskOK, RestOK, PlaceInv

LEMMA HttpInductive == SafeSpec => []HttpInv
<1>1. HttpInv /\ [Next]_vars => HttpInv'
  BY HttpClient, HttpUpload, HttpList, HttpPath, HttpStutter DEF Next, Handler
<1> QED
  BY HttpInit, <1>1, PTL DEF SafeSpec

\* The type invariant: no loop leaves its input, a listing names files that are there.
THEOREM HttpTypeCorrect == SafeSpec => []HttpTypeOK
BY HttpInductive, HttpInvTypes, PTL

\* What handle_download checks and what it reads is the same file, for every path a client
\* may send: a name that passes the checks has nothing that sanitize_filename would change.
THEOREM CheckedIsRead == SafeSpec => []CheckedNameIsReadName
<1>1. HttpInv => CheckedNameIsReadName
  BY AcceptedStays DEF HttpInv, PlaceInv, CheckedNameIsReadName
<1> QED
  BY HttpInductive, <1>1, PTL

------------------------------------------------------------------------------
\* Where the parts f of a form are in its body b: s has their beginnings, and where the
\* last one ends. The boundary is at these places, as far as they have arrived, and at no other.
Shape(f, s, b) ==
  /\ Len(s) > 0 => s[1] = 1
  /\ \A i \in 1..Len(f) : i + 1 <= Len(s) => s[i + 1] = s[i] + Len(PartText(f[i]))
  /\ \A i \in 1..Len(f) : \A j \in 1..Len(PartText(f[i])) :
       s[i] + j - 1 <= Len(b) => b[s[i] + j - 1] = PartText(f[i])[j]
  /\ \A k \in 1..Len(b) : b[k] = Delim => \E i \in 1..Len(s) : s[i] = k
  /\ \A i \in 1..Len(s) : s[i] >= 1 /\ (s[i] <= Len(b) => b[s[i]] = Delim)
  /\ \A i, j \in 1..Len(s) : i < j => s[i] < s[j]

\* The client still writes.
Open(f, s, b) == /\ Len(s) = Len(f)
                 /\ f = <<>> => b = <<>>
                 /\ f # <<>> => Len(b) + 1 = s[Len(f)] + Len(PartText(f[Len(f)]))
                 /\ \A i \in 1..Len(s) : s[i] <= Len(b)

LEMMA PartFacts ==
  ASSUME NEW p \in Parts
  PROVE  /\ PartText(p) \in Seq(Units) /\ Len(PartText(p)) \in Nat \ {0}
         /\ PartText(p)[1] = Delim /\ \A i \in 2..Len(PartText(p)) : PartText(p)[i] # Delim
BY HttpAssumption, PartRead

LEMMA Appended ==
  ASSUME NEW X, NEW s \in Seq(X), NEW x \in X
  PROVE  /\ Append(s, x) \in Seq(X) /\ Len(s) \in Nat /\ Len(Append(s, x)) = Len(s) + 1
         /\ \A i \in 1..Len(s) : Append(s, x)[i] = s[i]
         /\ Append(s, x)[Len(s) + 1] = x
BY LenProperties

LEMMA Joined ==
  ASSUME NEW X, NEW s \in Seq(X), NEW t \in Seq(X)
  PROVE  /\ s \o t \in Seq(X) /\ Len(s) \in Nat /\ Len(t) \in Nat /\ Len(s \o t) = Len(s) + Len(t)
         /\ \A i \in 1..Len(s) : (s \o t)[i] = s[i]
         /\ \A i \in 1..Len(t) : (s \o t)[Len(s) + i] = t[i]
BY LenProperties

\* A unit of a text that starts at a and fits into n units lies within them.
LEMMA InsideText ==
  ASSUME NEW a \in Nat, NEW l \in Nat, NEW n \in Nat, NEW j \in 1..l, a >= 1, a + l <= n + 1
  PROVE  a + j - 1 \in 1..n
OBVIOUS

\* A text that begins with the boundary is added, and cut somewhere.
LEMMA ShapeGrows ==
  ASSUME NEW f \in Seq(Parts), NEW s \in Seq(Nat), NEW b \in Seq(Units),
         Shape(f, s, b), Open(f, s, b),
         NEW x \in Seq(Units), x[1] = Delim, \A i \in 2..Len(x) : x[i] # Delim,
         Len(x) \in Nat \ {0}, NEW c \in 0..(Len(b) + Len(x))
  PROVE  Shape(f, Append(s, Len(b) + 1), SubSeq(b \o x, 1, c))
<1> DEFINE n == Len(b)
           m == Len(f)
           ss == Append(s, n + 1)
           l == Len(x)
           bc == b \o x
           bb == SubSeq(bc, 1, c)
<1>1. /\ l \in Nat \ {0} /\ x[1] = Delim
      /\ \A i \in 2..l : x[i] # Delim
  OBVIOUS
<1>2. n \in Nat /\ m \in Nat /\ Len(s) = m
  BY LenProperties DEF Open
<1>3. /\ Len(ss) = m + 1 /\ (\A i \in 1..m : ss[i] = s[i]) /\ ss[m + 1] = n + 1
  BY <1>2, Appended
<1>4. /\ bc \in Seq(Units) /\ Len(bc) = n + l
      /\ (\A i \in 1..n : bc[i] = b[i]) /\ \A i \in 1..l : bc[n + i] = x[i]
  BY <1>1, Joined
<1>5. c \in Nat /\ c <= Len(bc)
  BY <1>1, <1>2, <1>4
<1> HIDE DEF l
<1> HIDE DEF bc
<1>6. Len(bb) = c /\ \A i \in 1..c : bb[i] = bc[i]
  <2>1. c - 1 + 1 = c /\ c \in Int /\ (c = 0 \/ 1 <= c)
    BY <1>5
  <2>2. Len(bb) = (IF 1 <= c THEN c - 1 + 1 ELSE 0) /\ \A i \in 1..(c - 1 + 1) : bb[i] = bc[1 + i - 1]
    BY <1>4, <1>5, <2>1, SubSeqType
  <2> HIDE DEF bb
  <2>3. \A i \in 1..c : 1 + i - 1 = i
    BY <1>5
  <2> QED
    BY <1>5, <2>1, <2>2, <2>3
<1>7. \A i \in 1..m : f[i] \in Parts /\ Len(PartText(f[i])) \in Nat \ {0} /\ s[i] \in Nat
  BY <1>2, ElementOfSeq, PartFacts
<1> HIDE DEF n, m, ss, bb
<1>8. m > 0 => s[1] = 1
  BY <1>2 DEF Shape
<1>9. \A i \in 1..m : i + 1 <= m => s[i + 1] = s[i] + Len(PartText(f[i]))
  BY <1>2 DEF Shape, m
<1>10. \A i \in 1..m : \A j \in 1..Len(PartText(f[i])) :
         s[i] + j - 1 <= n => b[s[i] + j - 1] = PartText(f[i])[j]
  BY DEF Shape, m, n
<1>11. \A k \in 1..n : b[k] = Delim => \E i \in 1..m : s[i] = k
  BY <1>2 DEF Shape, n
<1>12. \A i \in 1..m : s[i] >= 1 /\ s[i] <= n /\ b[s[i]] = Delim
  BY <1>2 DEF Shape, Open, n
<1>13. \A i, j \in 1..m : i < j => s[i] < s[j]
  BY <1>2 DEF Shape
<1>14. /\ m = 0 => n = 0
       /\ m # 0 => n + 1 = s[m] + Len(PartText(f[m]))
  <2>1. m = 0 => f = <<>>
    BY EmptySeq DEF m
  <2>2. m # 0 => f # <<>>
    BY DEF m
  <2>3. f = <<>> => n = 0
    BY DEF Open, n
  <2> QED
    BY <2>1, <2>2, <2>3 DEF Open, m, n
<1>15. \A i \in 1..(m + 1) : i \in 1..m \/ i = m + 1
  BY <1>2
<1>16. Len(ss) > 0 => ss[1] = 1
  <2>1. CASE m = 0
    BY <1>3, <1>14, <2>1
  <2>2. CASE m # 0
    <3>1. 1 \in 1..m
      BY <1>2, <2>2
    <3> QED
      BY <1>2, <1>3, <1>8, <2>2, <3>1
  <2> QED
    BY <2>1, <2>2
<1>17. \A i \in 1..Len(f) : i + 1 <= Len(ss) => ss[i + 1] = ss[i] + Len(PartText(f[i]))
  <2> SUFFICES ASSUME NEW i \in 1..m
               PROVE  ss[i + 1] = ss[i] + Len(PartText(f[i]))
    BY DEF m
  <2>1. CASE i = m
    BY <1>2, <1>3, <1>14, <2>1
  <2>2. CASE i # m
    <3>1. i + 1 \in 1..m /\ i + 1 <= m
      BY <1>2, <2>2
    <3> QED
      BY <1>3, <1>9, <3>1
  <2> QED
    BY <2>1, <2>2
<1>18. \A i \in 1..Len(f) : \A j \in 1..Len(PartText(f[i])) :
         ss[i] + j - 1 <= Len(bb) => bb[ss[i] + j - 1] = PartText(f[i])[j]
  <2> SUFFICES ASSUME NEW i \in 1..m, NEW j \in 1..Len(PartText(f[i])), ss[i] + j - 1 <= c
               PROVE  bb[ss[i] + j - 1] = PartText(f[i])[j]
    BY <1>6 DEF m
  <2>1. ss[i] = s[i] /\ s[i] \in Nat /\ Len(PartText(f[i])) \in Nat \ {0} /\ s[i] >= 1
    BY <1>3, <1>7, <1>12
  <2>2. s[i] + Len(PartText(f[i])) <= n + 1
    <3>1. CASE i = m
      BY <1>2, <1>14, <3>1
    <3>2. CASE i # m
      <4>1. i + 1 <= m /\ i + 1 \in 1..m
        BY <1>2, <3>2
      <4>2. s[i + 1] = s[i] + Len(PartText(f[i])) /\ s[i + 1] <= n
        BY <1>9, <1>12, <4>1
      <4> QED
        BY <1>2, <4>2, <2>1
    <3> QED
      BY <3>1, <3>2
  <2> DEFINE q == s[i] + j - 1
  <2>3. q \in 1..n /\ q \in 1..c
    <3>1. PICK a \in Nat, t \in Nat : a = s[i] /\ t = Len(PartText(f[i]))
      BY <2>1
    <3>2. a \in Nat /\ t \in Nat /\ a >= 1 /\ a + t <= n + 1 /\ j \in 1..t
      BY <2>1, <2>2, <3>1
    <3>3. n \in Nat /\ c \in Nat /\ j \in Nat
      BY <1>2, <3>2
    <3>4. a + j - 1 \in 1..n
      BY <3>2, <3>3, InsideText
    <3>5. ss[i] + j - 1 = a + j - 1
      BY <2>1, <3>1
    <3>6. a + j - 1 \in 1..c
      BY <3>3, <3>4, <3>5
    <3> QED
      BY <3>1, <3>4, <3>6
  <2>4. b[q] = PartText(f[i])[j]
    BY <1>2, <1>10, <2>3
  <2> HIDE DEF q
  <2>5. bb[q] = b[q]
    BY <1>4, <1>6, <2>3
  <2> QED
    BY <2>1, <2>4, <2>5 DEF q
<1>19. \A k \in 1..Len(bb) : bb[k] = Delim => \E i \in 1..Len(ss) : ss[i] = k
  <2> SUFFICES ASSUME NEW k \in 1..c, bb[k] = Delim
               PROVE  \E i \in 1..(m + 1) : ss[i] = k
    BY <1>3, <1>6
  <2>1. CASE k \in 1..n
    <3>1. b[k] = Delim
      BY <1>4, <1>6, <2>1
    <3>2. PICK i \in 1..m : s[i] = k
      BY <1>11, <2>1, <3>1
    <3> QED
      BY <1>2, <1>3, <3>2
  <2>2. CASE k \notin 1..n
    <3>1. k - n \in 1..l /\ n + (k - n) = k
      BY <1>1, <1>2, <1>4, <1>5, <2>2
    <3>2. x[k - n] = Delim
      BY <1>4, <1>6, <3>1
    <3>3. k - n = 1
      BY <1>1, <3>1, <3>2
    <3>4. k = n + 1 /\ m + 1 \in 1..(m + 1)
      BY <1>2, <3>3
    <3> QED
      BY <1>3, <3>4
  <2> QED
    BY <2>1, <2>2
<1>20. \A i \in 1..Len(ss) : ss[i] >= 1 /\ (ss[i] <= Len(bb) => bb[ss[i]] = Delim)
  <2> SUFFICES ASSUME NEW i \in 1..(m + 1)
               PROVE  ss[i] >= 1 /\ (ss[i] <= c => bb[ss[i]] = Delim)
    BY <1>3, <1>6
  <2>1. CASE i = m + 1
    <3>1. 1 \in 1..l /\ n + 1 >= 1 /\ (n + 1 <= c => n + 1 \in 1..c)
      BY <1>1, <1>2, <1>5
    <3> QED
      BY <1>1, <1>3, <1>4, <1>6, <2>1, <3>1
  <2>2. CASE i \in 1..m
    <3>1. ss[i] = s[i] /\ s[i] \in Nat /\ s[i] >= 1 /\ s[i] <= n /\ b[s[i]] = Delim
      BY <1>3, <1>7, <1>12, <2>2
    <3>2. s[i] \in 1..n /\ (s[i] <= c => s[i] \in 1..c)
      BY <1>2, <1>5, <3>1
    <3> QED
      BY <1>4, <1>6, <3>1, <3>2
  <2> QED
    BY <1>15, <2>1, <2>2
<1>21. \A i, j \in 1..Len(ss) : i < j => ss[i] < ss[j]
  <2> SUFFICES ASSUME NEW i \in 1..(m + 1), NEW j \in 1..(m + 1), i < j
               PROVE  ss[i] < ss[j]
    BY <1>3
  <2>1. i \in 1..m
    BY <1>2
  <2>2. CASE j = m + 1
    BY <1>2, <1>3, <1>7, <1>12, <2>1, <2>2
  <2>3. CASE j \in 1..m
    BY <1>3, <1>13, <2>1, <2>3
  <2> QED
    BY <1>15, <2>2, <2>3
<1>22. Shape(f, ss, bb)
  BY <1>16, <1>17, <1>18, <1>19, <1>20, <1>21 DEF Shape
<1> QED
  BY <1>22 DEF ss, bb, bc, n

\* One more part.
LEMMA ShapeWrite ==
  ASSUME NEW f \in Seq(Parts), NEW s \in Seq(Nat), NEW b \in Seq(Units), NEW p \in Parts,
         Shape(f, s, b), Open(f, s, b)
  PROVE  /\ Shape(Append(f, p), Append(s, Len(b) + 1), b \o PartText(p))
         /\ Open(Append(f, p), Append(s, Len(b) + 1), b \o PartText(p))
<1> DEFINE t == PartText(p)
           n == Len(b)
           m == Len(f)
           ff == Append(f, p)
           ss == Append(s, n + 1)
           bb == b \o t
<1>1. /\ t \in Seq(Units) /\ Len(t) \in Nat \ {0}
      /\ t[1] = Delim /\ \A i \in 2..Len(t) : t[i] # Delim
  BY PartFacts
<1>2. n \in Nat /\ m \in Nat /\ Len(s) = m
  BY LenProperties DEF Open
<1>3. /\ Len(ff) = m + 1 /\ (\A i \in 1..m : ff[i] = f[i]) /\ ff[m + 1] = p
  BY Appended
<1>4. /\ Len(ss) = m + 1 /\ (\A i \in 1..m : ss[i] = s[i]) /\ ss[m + 1] = n + 1
  BY <1>2, Appended
<1>5. /\ bb \in Seq(Units) /\ Len(bb) = n + Len(t)
      /\ \A i \in 1..Len(t) : bb[n + i] = t[i]
  BY <1>1, Joined
<1> HIDE DEF t
<1>6. Shape(f, ss, bb)
  <2>1. n + Len(t) \in 0..(n + Len(t))
    BY <1>1, <1>2
  <2>2. SubSeq(bb, 1, Len(bb)) = bb
    BY <1>5
  <2> QED
    BY <1>1, <1>5, <2>1, <2>2, ShapeGrows
<1> HIDE DEF n, m, ff, ss, bb
<1>7. \A i \in 1..(m + 1) : i \in 1..m \/ i = m + 1
  BY <1>2
<1>8. \A i \in 1..Len(ff) : i + 1 <= Len(ss) => ss[i + 1] = ss[i] + Len(PartText(ff[i]))
  <2> SUFFICES ASSUME NEW i \in 1..Len(ff), i + 1 <= Len(ss)
               PROVE  ss[i + 1] = ss[i] + Len(PartText(ff[i]))
    OBVIOUS
  <2>0. i \in 1..m
    BY <1>2, <1>3, <1>4
  <2> QED
    BY <2>0, <1>3, <1>6 DEF Shape, m
<1>9. \A i \in 1..Len(ff) : \A j \in 1..Len(PartText(ff[i])) :
        ss[i] + j - 1 <= Len(bb) => bb[ss[i] + j - 1] = PartText(ff[i])[j]
  <2> SUFFICES ASSUME NEW i \in 1..(m + 1), NEW j \in 1..Len(PartText(ff[i])), ss[i] + j - 1 <= Len(bb)
               PROVE  bb[ss[i] + j - 1] = PartText(ff[i])[j]
    BY <1>3
  <2>1. CASE i = m + 1
    <3>1. j \in 1..Len(t) /\ ss[i] + j - 1 = n + j
      BY <1>1, <1>2, <1>3, <1>4, <2>1 DEF t
    <3> QED
      BY <1>3, <1>5, <2>1, <3>1 DEF t
  <2>2. CASE i \in 1..m
    <3>1. ff[i] = f[i]
      BY <1>3, <2>2
    <3> QED
      BY <1>6, <2>2, <3>1 DEF Shape, m
  <2> QED
    BY <1>7, <2>1, <2>2
<1>10. Shape(ff, ss, bb)
  BY <1>6, <1>8, <1>9 DEF Shape
<1>11. \A i \in 1..Len(ss) : ss[i] <= Len(bb)
  <2> SUFFICES ASSUME NEW i \in 1..(m + 1)
               PROVE  ss[i] <= Len(bb)
    BY <1>4
  <2>1. CASE i = m + 1
    BY <1>1, <1>2, <1>4, <1>5, <2>1
  <2>2. CASE i \in 1..m
    <3>1. s[i] \in Nat /\ s[i] <= n
      BY <1>2, <2>2, ElementOfSeq DEF Open, n
    <3> QED
      BY <1>1, <1>2, <1>4, <1>5, <2>2, <3>1
  <2> QED
    BY <1>7, <2>1, <2>2
<1>12. Open(ff, ss, bb)
  <2>1. Len(ff) # 0
    BY <1>2, <1>3
  <2>2. Len(bb) + 1 = ss[m + 1] + Len(PartText(ff[m + 1]))
    BY <1>1, <1>2, <1>3, <1>4, <1>5 DEF t
  <2>3. ff # <<>>
    BY <2>1
  <2> QED
    BY <1>3, <1>4, <1>11, <2>2, <2>3 DEF Open
<1> QED
  BY <1>10, <1>12 DEF ff, ss, bb, t, n

\* The end of the form; a beginning of it arrives.
LEMMA ShapeSend ==
  ASSUME NEW f \in Seq(Parts), NEW s \in Seq(Nat), NEW b \in Seq(Units),
         Shape(f, s, b), Open(f, s, b), NEW c \in 0..(Len(b) + Len(Closing))
  PROVE  Shape(f, Append(s, Len(b) + 1), SubSeq(b \o Closing, 1, c))
<1>1. /\ Closing \in Seq(Units) /\ Len(Closing) = 4 /\ Closing[1] = Delim
      /\ \A i \in 2..4 : Closing[i] # Delim
  BY DEF Closing, Units, Byte, Delim, Crlf
<1>2. Len(Closing) \in Nat \ {0} /\ \A i \in 2..Len(Closing) : Closing[i] # Delim
  BY <1>1
<1> QED
  BY <1>1, <1>2, ShapeGrows, Zenon

\* The search for the next boundary goes from one part to the next, as far as they have
\* arrived, and cuts out exactly that part.
LEMMA ShapeNext ==
  ASSUME NEW f \in Seq(Parts), NEW s \in Seq(Nat), NEW b \in Seq(Units),
         Shape(f, s, b), Len(s) = Len(f) + 1, NEW m \in 1..Len(s), s[m] <= Len(b)
  PROVE  /\ NextDelim(b, s[m]) # 0 <=> m <= Len(f) /\ s[m + 1] <= Len(b)
         /\ NextDelim(b, s[m]) # 0 => /\ NextDelim(b, s[m]) = s[m + 1]
                                     /\ PartAt(b, s[m]) = PartText(f[m])
<1> DEFINE n == Len(b)
           k == NextDelim(b, s[m])
<1>1. n \in Nat /\ Len(f) \in Nat /\ s[m] \in Nat \ {0} /\ \A i \in 1..Len(s) : s[i] \in Nat
  BY LenProperties, ElementOfSeq DEF Shape
<1>2. /\ k \in 0..n
      /\ k = 0 => \A i \in (s[m] + 1)..n : b[i] # Delim
      /\ k # 0 => /\ k \in (s[m] + 1)..n /\ b[k] = Delim
                  /\ \A i \in (s[m] + 1)..(k - 1) : b[i] # Delim
  <2> PICK from \in Nat \ {0} : from = s[m] + 1
    BY <1>1
  <2>1. k = Find(b, Delim, from)
    BY DEF NextDelim
  <2> HIDE DEF k, n
  <2> QED
    BY <2>1, FindResult DEF n
<1> HIDE DEF k, n
<1>3. \A j \in 1..n : b[j] = Delim => \E i \in 1..Len(s) : s[i] = j
  BY DEF Shape, n
<1>4. \A i, j \in 1..Len(s) : i < j => s[i] < s[j]
  BY DEF Shape
<1>5. ASSUME k # 0
      PROVE  m <= Len(f) /\ s[m + 1] <= n /\ k = s[m + 1]
  <2>1. k \in 1..n /\ s[m] < k
    BY <1>1, <1>2, <1>5
  <2>2. PICK i \in 1..Len(s) : s[i] = k
    BY <1>2, <1>3, <1>5, <2>1
  <2>3. m < i
    <3>1. ~(i < m) /\ i # m
      BY <1>1, <1>4, <2>1, <2>2
    <3> QED
      BY <3>1
  <2>4. m + 1 \in 1..Len(s) /\ m <= Len(f) /\ (i = m + 1 \/ m + 1 < i)
    BY <1>1, <2>3
  <2>5. PICK q \in 1..Len(s) : q = m + 1
    BY <2>4
  <2>6. m < q /\ (i = q \/ q < i)
    BY <2>4, <2>5
  <2>7. s[m] < s[q] /\ s[q] <= k
    <3>1. s[m] < s[q]
      BY <1>4, <2>6
    <3>2. q < i => s[q] < k
      BY <1>4, <2>2
    <3>3. s[q] \in Nat /\ k \in Nat
      BY <1>1, <2>1
    <3> QED
      BY <2>2, <2>6, <3>1, <3>2, <3>3
  <2>8. s[q] <= n /\ b[s[q]] = Delim
    <3>1. s[q] \in Nat /\ s[q] <= n
      BY <1>1, <2>1, <2>7
    <3> QED
      BY <3>1 DEF Shape, n
  <2>9. ~(s[q] < k)
    <3> SUFFICES ASSUME s[q] < k PROVE FALSE
      OBVIOUS
    <3>1. s[q] \in (s[m] + 1)..(k - 1)
      BY <1>1, <2>1, <2>7
    <3> QED
      BY <1>2, <1>5, <2>8, <3>1
  <2>10. k = s[q]
    BY <1>1, <2>1, <2>7, <2>9
  <2> QED
    BY <2>4, <2>5, <2>8, <2>10
<1>6. ASSUME m <= Len(f), s[m + 1] <= n
      PROVE  k # 0
  <2>1. m + 1 \in 1..Len(s)
    BY <1>1, <1>6
  <2>2. s[m] < s[m + 1]
    BY <1>4, <2>1
  <2>3. s[m + 1] \in (s[m] + 1)..n /\ b[s[m + 1]] = Delim
    BY <1>1, <1>6, <2>1, <2>2 DEF Shape, n
  <2> QED
    BY <1>2, <2>3
<1>7. ASSUME k # 0
      PROVE  PartAt(b, s[m]) = PartText(f[m])
  <2> DEFINE t == PartText(f[m])
  <2>1. m \in 1..Len(f) /\ m + 1 <= Len(s) /\ s[m + 1] <= n /\ k = s[m + 1]
    BY <1>1, <1>5, <1>7
  <2>2. t \in Seq(Units) /\ Len(t) \in Nat \ {0}
    BY <2>1, ElementOfSeq, PartFacts
  <2>3. s[m + 1] = s[m] + Len(t)
    BY <2>1 DEF Shape
  <2>4. \A j \in 1..Len(t) : s[m] + j - 1 <= n => b[s[m] + j - 1] = t[j]
    BY <2>1 DEF Shape, n
  <2> HIDE DEF t
  <2> PICK a \in Nat \ {0} : a = s[m]
    BY <1>1
  <2>5. k = a + Len(t) /\ a + Len(t) <= n
    BY <2>1, <2>3
  <2>6. \A j \in 1..Len(t) : b[a + j - 1] = t[j]
    <3> TAKE j \in 1..Len(t)
    <3>1. a + j - 1 <= n
      BY <1>1, <2>2, <2>5
    <3>2. s[m] + j - 1 = a + j - 1
      OBVIOUS
    <3> QED
      BY <2>4, <3>1, <3>2
  <2>7. a + Len(t) <= Len(b) + 1
    BY <1>1, <2>2, <2>5 DEF n
  <2>8. SubSeq(b, a, a + Len(t) - 1) = t
    <3>1. \A c \in Nat \ {0} : c + Len(t) <= Len(b) + 1 /\ (\A j \in 1..Len(t) : b[c + j - 1] = t[j])
                             => SubSeq(b, c, c + Len(t) - 1) = t
      BY <2>2, CutOut
    <3> QED
      BY <2>6, <2>7, <3>1
  <2>9. PartAt(b, a) = SubSeq(b, a, k - 1)
    BY <1>7 DEF PartAt, Between, k
  <2> QED
    BY <2>5, <2>8, <2>9 DEF t
<1> QED
  BY <1>5, <1>6, <1>7 DEF k, n

LEMMA ShapeFirst ==
  ASSUME NEW f \in Seq(Parts), NEW s \in Seq(Nat), NEW b \in Seq(Units),
         Shape(f, s, b), Len(s) = Len(f) + 1
  PROVE  Find(b, Delim, 1) = IF Len(b) = 0 THEN 0 ELSE s[1]
<1>1. Len(b) \in Nat /\ Len(s) > 0
  BY LenProperties
<1>2. s[1] = 1 /\ (Len(b) # 0 => b[1] = Delim)
  <2>1. s[1] = 1 /\ 1 \in 1..Len(s)
    BY <1>1 DEF Shape
  <2> QED
    BY <1>1, <2>1 DEF Shape
<1>3. CASE Len(b) = 0
  <2>1. Find(b, Delim, 1) \in 0..Len(b)
    BY FindResult
  <2> QED
    BY <1>3, <2>1
<1>4. CASE Len(b) # 0
  <2>1. 1 \in 1..Len(b) /\ \A i \in 1..(1 - 1) : b[i] # Delim
    BY <1>1, <1>4
  <2> QED
    BY <1>2, <1>4, <2>1, FoundAt
<1> QED
  BY <1>3, <1>4

\* Where no further delimiter has arrived, none of a later part has.
LEMMA NoneBehind ==
  ASSUME NEW f \in Seq(Parts), NEW s \in Seq(Nat), NEW b \in Seq(Units),
         Shape(f, s, b), Len(s) = Len(f) + 1, NEW m \in 1..Len(s), s[m] <= Len(b),
         NextDelim(b, s[m]) = 0, NEW i \in 1..Len(f), m <= i
  PROVE  ~(s[i + 1] <= Len(b))
<1>1. Len(f) \in Nat /\ Len(b) \in Nat
  BY LenProperties
<1>2. PICK q \in 1..Len(s), j \in 1..Len(s) : q = m + 1 /\ j = i + 1
  BY <1>1
<1>3. m <= Len(f) /\ (q = j \/ q < j)
  BY <1>1, <1>2
<1>4. s[q] \in Nat /\ s[j] \in Nat
  BY ElementOfSeq
<1>5. q < j => s[q] < s[j]
  BY DEF Shape
<1>6. ~(s[q] <= Len(b))
  BY <1>2, <1>3, ShapeNext
<1> QED
  BY <1>1, <1>2, <1>3, <1>4, <1>5, <1>6

------------------------------------------------------------------------------
\* Upload: where its loops are.

\* o has how far the escaped name goes with each byte of name n.
Offsets(o, n) == /\ o \in [0..Len(n) -> Nat]
                 /\ o[0] = 0 /\ o[Len(n)] = Len(Escaped(n))
                 /\ \A i \in 0..Len(n) : o[i] <= Len(Escaped(n))
                 /\ \A i \in 1..Len(n) : /\ Stands(Code(n[i]), Escaped(n), o[i - 1] + 1)
                                         /\ o[i] = o[i - 1] + Len(Code(n[i]))

LEMMA OffsetsExist ==
  ASSUME NEW n \in Seq(Byte)
  PROVE  \E o : Offsets(o, n)
<1> PICK e : /\ e[0] = <<>> /\ e[Len(n)] = Escaped(n)
             /\ \A i \in 0..Len(n) : e[i] \in Seq(Byte) /\ Len(e[i]) \in Nat
                                     /\ Len(e[i]) <= Len(Escaped(n))
             /\ \A i \in 1..Len(n) : /\ Stands(Code(n[i]), Escaped(n), Len(e[i - 1]) + 1)
                                     /\ Len(e[i]) = Len(e[i - 1]) + Len(Code(n[i]))
  BY EscapedShape
<1> DEFINE o == [i \in 0..Len(n) |-> Len(e[i])]
<1>1. Len(n) \in Nat
  BY LenProperties
<1>2. \A i \in 1..Len(n) : i \in 0..Len(n) /\ i - 1 \in 0..Len(n)
  BY <1>1
<1>3. o \in [0..Len(n) -> Nat] /\ o[0] = 0 /\ o[Len(n)] = Len(Escaped(n))
  BY <1>1
<1>4. \A i \in 0..Len(n) : o[i] = Len(e[i])
  OBVIOUS
<1> HIDE DEF o
<1> QED
  BY <1>2, <1>3, <1>4 DEF Offsets

\* The first k bytes of name n are decoded.
Decoded(n, k) == /\ \E o : Offsets(o, n) /\ at = o[k] + 1
                 /\ out = SubSeq(n, 1, k)

\* What the client has written.
LayoutInv ==
  /\ Shape(form, starts, body)
  /\ pc = "compose" => Open(form, starts, body)
  /\ pc \in {"type", "part", "parse", "name", "take", "save"} => Len(starts) = Len(form) + 1
  /\ form # <<>> => media = "boundary"

\* The loop of handle_upload stands at the first part it has not taken, with that part in hand.
LoopInv ==
  /\ pc = "part" => \/ /\ pos # 0 /\ pos <= Len(body)
                       /\ Len(files) + 1 <= Len(starts) /\ pos = starts[Len(files) + 1]
                    \/ pos = 0 /\ files = <<>> /\ (form = <<>> \/ Len(body) = 0)
  /\ pc \in {"parse", "name", "take"} =>
       /\ Len(files) < Len(form)
       /\ pos = starts[Len(files) + 1] /\ pos # 0
       /\ starts[Len(files) + 2] <= Len(body)
       /\ NextDelim(body, pos) = starts[Len(files) + 2]
       /\ part = PartText(form[Len(files) + 1])
  /\ pc = "name" => LET p == form[Len(files) + 1]
                    IN ~Misleads(p) => /\ p.style \in {"extended", "both"} /\ src = Escaped(p.name)
                                       /\ \E k \in 0..Len(p.name) : Decoded(p.name, k)
  /\ (pc = "take" /\ ~Misleads(form[Len(files) + 1])) => out = GivenName(form[Len(files) + 1])

WholeInv == LayoutInv /\ LoopInv /\ WholePartsOnly

LEMMA WholeInit == Init => WholeInv
<1> SUFFICES ASSUME Init PROVE WholeInv
  OBVIOUS
<1>1. Shape(form, starts, body)
  BY DEF Init, Shape
<1> QED
  BY <1>1 DEF Init, WholeInv, LayoutInv, LoopInv, WholePartsOnly

LEMMA WholeRequest ==
  ASSUME NEW what, NEW to \in {"compose", "list", "path"}, Request(what, to)
  PROVE  WholeInv'
<1> USE DEF Request, Goes
<1>1. Shape(form', starts', body') /\ Open(form', starts', body')
  BY DEF Shape, Open
<1> QED
  BY <1>1 DEF WholeInv, LayoutInv, LoopInv, WholePartsOnly

LEMMA WholeClient == HttpInv /\ WholeInv /\ Client => WholeInv'
<1> SUFFICES ASSUME HttpInv, WholeInv, Client PROVE WholeInv'
  OBVIOUS
<1>1. CASE AskUpload \/ AskList \/ FollowLink \/ AskPath
  BY <1>1, WholeRequest DEF AskUpload, AskList, FollowLink, AskPath
<1>2. form \in Seq(Parts) /\ starts \in Seq(Nat) /\ body \in Seq(Units)
  BY DEF HttpInv, ClientOK, RequestOK
<1>3. CASE WritePart
  <2> USE <1>3 DEF WritePart, Goes
  <2>1. PICK p \in Parts : /\ form' = Append(form, p)
                           /\ starts' = Append(starts, Len(body) + 1)
                           /\ body' = body \o PartText(p)
    OBVIOUS
  <2>2. Shape(form, starts, body) /\ Open(form, starts, body)
    BY DEF WholeInv, LayoutInv
  <2>3. Shape(form', starts', body') /\ Open(form', starts', body')
    BY <1>2, <2>1, <2>2, ShapeWrite
  <2>4. files' = <<>>
    BY DEF upload, HttpInv, PlaceInv
  <2> QED
    BY <2>3, <2>4 DEF WholeInv, LayoutInv, LoopInv, WholePartsOnly
<1>4. CASE Send
  <2> USE <1>4 DEF Send, Goes
  <2>1. PICK c \in 0..(Len(body) + Len(Closing)) : body' = SubSeq(body \o Closing, 1, c)
    OBVIOUS
  <2>2. Shape(form, starts, body) /\ Open(form, starts, body)
    BY DEF WholeInv, LayoutInv
  <2>3. Shape(form', starts', body')
    BY <1>2, <2>1, <2>2, ShapeSend
  <2>4. Len(starts') = Len(form') + 1
    BY <1>2, <2>2 DEF Open
  <2>5. files' = <<>>
    BY DEF upload, HttpInv, PlaceInv
  <2> QED
    BY <2>3, <2>4, <2>5 DEF WholeInv, LayoutInv, LoopInv, WholePartsOnly
<1> QED
  BY <1>1, <1>3, <1>4 DEF Client

\* A step that leaves the form and the files as they are, and goes to none of the loops
\* of handle_upload.
LEMMA WholeElsewhere ==
  ASSUME WholeInv, UNCHANGED <<form, starts, body, media, files>>,
         pc' \notin {"compose", "type", "part", "parse", "name", "take", "save"}
  PROVE  WholeInv'
BY DEF WholeInv, LayoutInv, LoopInv, WholePartsOnly, Complete

LEMMA WholeList == WholeInv /\ HandleListFiles => WholeInv'
<1> SUFFICES ASSUME WholeInv, HandleListFiles PROVE WholeInv'
  OBVIOUS
<1>1. /\ UNCHANGED <<form, starts, body, media, files>>
      /\ pc' \in {"list", "encode", "idle"}
  BY DEF HandleListFiles, ListFile, EncodeByte, ListLink, AnswerList, Goes, Answer, client, request, upload
<1> QED
  BY <1>1, WholeElsewhere

LEMMA WholePath == WholeInv /\ HandlePath => WholeInv'
<1> SUFFICES ASSUME WholeInv, HandlePath PROVE WholeInv'
  OBVIOUS
<1>1. /\ UNCHANGED <<form, starts, body, media, files>>
      /\ pc' \in {"decode", "disk", "idle"}
  BY DEF HandlePath, NoName, StartDecode, DecodeByte, CheckName, Download, Delete, Goes, Answer,
         client, request, upload
<1> QED
  BY <1>1, WholeElsewhere

\* The decoder of names takes an escaped name apart, one byte of the name a round.
LEMMA DecodedStep ==
  ASSUME NEW n \in Seq(Byte), NEW k \in 0..Len(n), Decoded(n, k), src = Escaped(n), at <= Len(src), NEW v
  PROVE  /\ k < Len(n)
         /\ NameBytes(src, at, v) = {n[k + 1]} /\ UrlByte(src, at) = n[k + 1]
         /\ NameNext(src, at) = UrlNext(src, at)
         /\ \E o : Offsets(o, n) /\ NameNext(src, at) = o[k + 1] + 1
         /\ Append(SubSeq(n, 1, k), n[k + 1]) = SubSeq(n, 1, k + 1)
<1>1. PICK o : Offsets(o, n) /\ at = o[k] + 1
  BY DEF Decoded
<1>2. /\ o \in [0..Len(n) -> Nat] /\ o[Len(n)] = Len(src)
      /\ \A i \in 1..Len(n) : /\ Stands(Code(n[i]), src, o[i - 1] + 1)
                              /\ o[i] = o[i - 1] + Len(Code(n[i]))
  BY <1>1 DEF Offsets
<1>3. Len(n) \in Nat /\ src \in Seq(Units) /\ Len(src) \in Nat
  <2>1. src \in Seq(Byte)
    BY EscapedShape
  <2> QED
    BY <2>1, LenProperties DEF Units
<1>4. k < Len(n)
  BY <1>1, <1>2, <1>3
<1>5. k + 1 \in 1..Len(n) /\ k + 1 - 1 = k
  BY <1>3, <1>4
<1>6. Stands(Code(n[k + 1]), src, at) /\ o[k + 1] = o[k] + Len(Code(n[k + 1]))
  BY <1>1, <1>2, <1>5
<1>7. at \in Nat \ {0} /\ n[k + 1] \in Byte /\ o[k] \in Nat
  <2>1. o[k] \in Nat
    BY <1>2
  <2>2. n[k + 1] \in Byte
    BY <1>5, ElementOfSeq
  <2> QED
    BY <1>1, <2>1, <2>2
<1>8. /\ NameBytes(src, at, v) = {n[k + 1]} /\ NameNext(src, at) = at + Len(Code(n[k + 1]))
      /\ UrlByte(src, at) = n[k + 1] /\ UrlNext(src, at) = at + Len(Code(n[k + 1]))
      /\ Len(Code(n[k + 1])) \in {1, 3}
  BY <1>3, <1>6, <1>7, CodeRead
<1>9. NameNext(src, at) = o[k + 1] + 1
  BY <1>1, <1>6, <1>7, <1>8
<1>10. Append(SubSeq(n, 1, k), n[k + 1]) = SubSeq(n, 1, k + 1)
  BY <1>3, <1>4
<1> QED
  BY <1>1, <1>4, <1>8, <1>9, <1>10

LEMMA DecodedAll ==
  ASSUME NEW n \in Seq(Byte), NEW k \in 0..Len(n), Decoded(n, k), src = Escaped(n), at > Len(src)
  PROVE  out = n
<1>1. PICK o : Offsets(o, n) /\ at = o[k] + 1
  BY DEF Decoded
<1>2. Len(n) \in Nat /\ src \in Seq(Byte) /\ Len(src) \in Nat
  BY EscapedShape, LenProperties
<1>3. k = Len(n)
  <2> SUFFICES ASSUME k # Len(n) PROVE FALSE
    OBVIOUS
  <2>1. k + 1 \in 1..Len(n) /\ k + 1 - 1 = k /\ k + 1 \in 0..Len(n)
    BY <1>2
  <2>2. o[k + 1] = o[k] + Len(Code(n[k + 1])) /\ o[k + 1] <= Len(src) /\ o[k] \in Nat
    BY <1>1, <2>1 DEF Offsets
  <2>3. Len(Code(n[k + 1])) \in {1, 3}
    <3>1. n[k + 1] \in Byte
      BY <2>1, ElementOfSeq
    <3> QED
      BY <3>1, CodeShape
  <2>4. o[k] + Len(Code(n[k + 1])) <= Len(src) /\ Len(src) < o[k] + 1
    BY <1>1, <1>2, <2>2
  <2>5. \A x \in Nat, y \in {1, 3}, z \in Nat : ~(x + y <= z /\ z < x + 1)
    OBVIOUS
  <2> QED
    BY <1>2, <2>2, <2>3, <2>4, <2>5
<1>4. SubSeq(n, 1, Len(n)) = n
  BY <1>2
<1> QED
  BY <1>3, <1>4 DEF Decoded

\* The form, and what has become files of it, stay.
LEMMA WholeStays ==
  ASSUME WholeInv, UNCHANGED <<form, starts, body, media, files>>,
         pc \in {"type", "part", "parse", "name", "take"},
         pc' \in {"type", "part", "parse", "name", "take"}, LoopInv'
  PROVE  WholeInv'
BY DEF WholeInv, LayoutInv, WholePartsOnly, Complete

\* So do they while a part is in hand whose data are taken for a name.
LEMMA WholeMisled ==
  ASSUME WholeInv, UNCHANGED <<form, starts, body, media, files, pos, part>>,
         pc \in {"parse", "name", "take"}, pc' \in {"parse", "name", "take"},
         Misleads(form[Len(files) + 1])
  PROVE  WholeInv'
<1>1. LoopInv'
  BY DEF WholeInv, LoopInv
<1> QED
  BY <1>1, WholeStays

\* When the loop ends, every part that has come whole is among the files.
LEMMA NoneLeft ==
  ASSUME HttpInv, WholeInv, PartsEnd
  PROVE  \A i \in 1..Len(form) : Complete(i) => i <= Len(files)
<1> DEFINE m == Len(files) + 1
<1>0. /\ form \in Seq(Parts) /\ starts \in Seq(Nat) /\ body \in Seq(Units) /\ Len(form) \in Nat
      /\ Len(body) \in Nat /\ Len(files) \in Nat /\ Shape(form, starts, body)
      /\ pc = "part" /\ Len(starts) = Len(form) + 1
      /\ pos = 0 \/ NextDelim(body, pos) = 0
  BY LenProperties DEF HttpInv, ClientOK, RequestOK, UploadOK, WholeInv, LayoutInv, PartsEnd, Goes, Answer
<1> TAKE i \in 1..Len(form)
<1> SUFFICES ASSUME Complete(i) PROVE i <= Len(files)
  OBVIOUS
<1>1. i + 1 \in 1..Len(starts) /\ starts[i + 1] <= Len(body)
  BY <1>0 DEF Complete
<1>2. form # <<>> /\ Len(body) # 0
  <2>1. starts[i + 1] >= 1 /\ starts[i + 1] \in Nat
    BY <1>0, <1>1, ElementOfSeq DEF Shape
  <2> QED
    BY <1>0, <1>1, <2>1
<1>3. pos # 0 /\ pos <= Len(body) /\ m <= Len(starts) /\ pos = starts[m]
  BY <1>0, <1>2 DEF WholeInv, LoopInv
<1>4. m \in 1..Len(starts) /\ NextDelim(body, pos) = 0
  BY <1>0, <1>3
<1>5. ~(m <= i)
  BY <1>0, <1>1, <1>3, <1>4, NoneBehind
<1> QED
  BY <1>0, <1>5

LEMMA WholeUpload == HttpInv /\ WholeInv /\ HandleUpload => WholeInv'
<1> SUFFICES ASSUME HttpInv, WholeInv, HandleUpload PROVE WholeInv'
  OBVIOUS
<1> USE DEF Goes, Answer, client, request, upload, codec
<1>0. /\ form \in Seq(Parts) /\ starts \in Seq(Nat) /\ body \in Seq(Units) /\ Len(form) \in Nat
      /\ Len(body) \in Nat /\ files \in Seq(File) /\ Len(files) \in Nat
      /\ Shape(form, starts, body)
      /\ pc \in {"type", "part", "parse", "name", "take", "save"} => Len(starts) = Len(form) + 1
  BY LenProperties DEF HttpInv, ClientOK, RequestOK, UploadOK, WholeInv, LayoutInv
<1> DEFINE m == Len(files) + 1
           p == form[m]
<1>p. ASSUME Len(files) < Len(form)
      PROVE  /\ p \in Parts /\ p \in PartType /\ WellFormed(p) /\ p.name \in Seq(Byte)
             /\ m \in 1..Len(form)
  <2>1. m \in 1..Len(form)
    BY <1>0, <1>p
  <2>2. p \in Parts
    BY <1>0, <2>1, ElementOfSeq
  <2>3. p \in PartType /\ WellFormed(p)
    BY <2>2, HttpAssumption
  <2> HIDE DEF p
  <2> QED
    BY <2>1, <2>2, <2>3 DEF PartType
<1>1. CASE RefuseType \/ EmptyBoundary \/ AnswerUpload
  <2>1. /\ UNCHANGED <<form, starts, body, media, files>>
        /\ pc' = "idle" \/ (pc = "type" /\ pc' = "type")
    BY <1>1 DEF RefuseType, EmptyBoundary, AnswerUpload
  <2>2. CASE pc' = "idle"
    BY <2>1, <2>2, WholeElsewhere
  <2>3. CASE pc = "type" /\ pc' = "type"
    BY <2>1, <2>3, WholeStays DEF LoopInv
  <2> QED
    BY <2>1, <2>2, <2>3
<1>2. CASE FirstDelim
  <2> USE <1>2 DEF FirstDelim
  <2>1. files = <<>> /\ Len(files) = 0
    BY DEF HttpInv, PlaceInv
  <2>2. Find(body, Delim, 1) = IF Len(body) = 0 THEN 0 ELSE starts[1]
    BY <1>0, ShapeFirst
  <2>3. starts[1] = 1 /\ Len(starts) >= 1
    BY <1>0 DEF Shape
  <2>4. form = <<>> \/ media = "boundary"
    BY DEF WholeInv, LayoutInv
  <2>5. LoopInv'
    BY <1>0, <2>1, <2>2, <2>3, <2>4 DEF LoopInv
  <2> QED
    BY <2>5, WholeStays
<1>3. CASE CutPart
  <2> USE <1>3 DEF CutPart
  <2>1. pos # 0 /\ pos <= Len(body) /\ m <= Len(starts) /\ pos = starts[m] /\ m \in 1..Len(starts)
    <3>1. pos # 0 /\ pos <= Len(body) /\ m <= Len(starts) /\ pos = starts[m]
      BY DEF WholeInv, LoopInv
    <3> QED
      BY <1>0, <3>1
  <2>2. /\ m <= Len(form) /\ starts[m + 1] <= Len(body)
        /\ NextDelim(body, pos) = starts[m + 1] /\ PartAt(body, pos) = PartText(form[m])
    BY <1>0, <2>1, ShapeNext
  <2>3. Len(files) < Len(form) /\ m + 1 = Len(files) + 2
    BY <1>0, <2>2
  <2>4. LoopInv'
    BY <2>1, <2>2, <2>3 DEF LoopInv
  <2> QED
    BY <2>4, WholeStays
<1>4. CASE ParseFilename
  <2> USE <1>4 DEF ParseFilename
  <2>m. CASE Misleads(p)
    BY <2>m, WholeMisled
  <2> SUFFICES ASSUME ~Misleads(p) PROVE WholeInv'
    BY <2>m
  <2>1. Len(files) < Len(form) /\ part = PartText(p)
    BY DEF WholeInv, LoopInv
  <2>2. /\ HasExtendedName(part) <=> p.style \in {"extended", "both"}
        /\ HasExtendedName(part) => ExtendedName(part) = Escaped(p.name)
        /\ ~HasExtendedName(part) => PlainName(part) = GivenName(p)
    BY <1>p, <2>1, PartRead
  <2>3. CASE HasExtendedName(part)
    <3>1. pc' = "name" /\ src' = Escaped(p.name) /\ at' = 1 /\ out' = <<>>
      BY <2>2, <2>3 DEF Load
    <3>2. Decoded(p.name, 0)'
      <4>1. PICK o : Offsets(o, p.name)
        BY <1>p, <2>1, OffsetsExist
      <4>2. at' = o[0] + 1
        BY <3>1, <4>1 DEF Offsets
      <4>3. out' = SubSeq(p.name, 1, 0)
        BY <1>p, <2>1, <3>1
      <4>4. form' = form /\ files' = files
        OBVIOUS
      <4> QED
        BY <4>1, <4>2, <4>3, <4>4 DEF Decoded
    <3>3. 0 \in 0..Len(p.name)
      BY <1>p, <2>1, LenProperties
    <3> HIDE DEF p
    <3>4. LoopInv'
      BY <2>2, <2>3, <3>1, <3>2, <3>3 DEF WholeInv, LoopInv, p
    <3> QED
      BY <3>1, <3>4, WholeStays
  <2>4. CASE ~HasExtendedName(part)
    <3>1. pc' = "take" /\ out' = GivenName(p)
      BY <2>2, <2>4
    <3>2. LoopInv'
      BY <3>1 DEF WholeInv, LoopInv
    <3> QED
      BY <3>1, <3>2, WholeStays
  <2> QED
    BY <2>3, <2>4
<1>5. CASE DecodeName
  <2> USE <1>5 DEF DecodeName
  <2>m. CASE Misleads(p)
    BY <2>m, WholeMisled
  <2> SUFFICES ASSUME ~Misleads(p) PROVE WholeInv'
    BY <2>m
  <2>1. /\ Len(files) < Len(form) /\ p.style \in {"extended", "both"} /\ src = Escaped(p.name)
    BY DEF WholeInv, LoopInv
  <2>2. PICK k \in 0..Len(p.name) : Decoded(p.name, k)
    BY DEF WholeInv, LoopInv
  <2>3. /\ k < Len(p.name)
        /\ NameBytes(src, at, ii) = {p.name[k + 1]}
        /\ \E o : Offsets(o, p.name) /\ NameNext(src, at) = o[k + 1] + 1
        /\ Append(SubSeq(p.name, 1, k), p.name[k + 1]) = SubSeq(p.name, 1, k + 1)
    BY <1>p, <2>1, <2>2, DecodedStep
  <2>4. out' = SubSeq(p.name, 1, k + 1)
    <3>1. \E b \in NameBytes(src, at, ii) : out' = Append(out, b)
      OBVIOUS
    <3> QED
      BY <2>2, <2>3, <3>1 DEF Decoded
  <2>5. form' = form /\ files' = files /\ src' = src /\ at' = NameNext(src, at)
    OBVIOUS
  <2>6. Decoded(p.name, k + 1)'
    BY <2>3, <2>4, <2>5 DEF Decoded
  <2>7. k + 1 \in 0..Len(p.name)
    BY <1>p, <2>1, <2>3, LenProperties
  <2>8. LoopInv'
    BY <2>1, <2>5, <2>6, <2>7 DEF WholeInv, LoopInv
  <2> QED
    BY <2>8, WholeStays
<1>6. CASE NameDecoded
  <2> USE <1>6 DEF NameDecoded
  <2>m. CASE Misleads(p)
    BY <2>m, WholeMisled
  <2> SUFFICES ASSUME ~Misleads(p) PROVE WholeInv'
    BY <2>m
  <2>1. /\ Len(files) < Len(form) /\ p.style \in {"extended", "both"} /\ src = Escaped(p.name)
    BY DEF WholeInv, LoopInv
  <2>2. PICK k \in 0..Len(p.name) : Decoded(p.name, k)
    BY DEF WholeInv, LoopInv
  <2>3. out = GivenName(p)
    BY <1>p, <2>1, <2>2, DecodedAll DEF GivenName
  <2>4. LoopInv'
    BY <2>3 DEF WholeInv, LoopInv
  <2> QED
    BY <2>4, WholeStays
<1>7. CASE TakePart
  <2> USE <1>7 DEF TakePart
  <2>1. /\ Len(files) < Len(form) /\ pos = starts[m] /\ starts[m + 1] <= Len(body)
        /\ NextDelim(body, pos) = starts[m + 1] /\ part = PartText(p)
        /\ ~Misleads(p) => out = GivenName(p)
    <3>1. m + 1 = Len(files) + 2
      BY <1>0
    <3> QED
      BY <3>1 DEF WholeInv, LoopInv
  <2>2. FindBlankLine(part) # 0 /\ DataOf(part) = Append(p.data, Crlf)
    BY <1>p, <2>1, PartRead
  <2>3. utf8_to_acp(out) # <<>>
    BY AcpType DEF HttpInv, CodecOK
  <2> DEFINE file == [name |-> utf8_to_acp(out), data |-> Append(p.data, Crlf)]
  <2>4. files' = Append(files, file)
    BY <2>1, <2>2, <2>3
  <2> HIDE DEF file
  <2>5. Len(files') = m /\ (\A i \in 1..Len(files) : files'[i] = files[i]) /\ files'[m] = file
    BY <1>0, <2>4
  <2>6. UNCHANGED <<form, starts, body, media>> /\ pos' = starts[m + 1] /\ pc' = "part"
    BY <2>1
  <2>7. m \in 1..Len(form) /\ m + 1 <= Len(starts) /\ m + 1 \in 1..Len(starts) /\ Complete(m)
    BY <1>0, <1>p, <2>1 DEF Complete
  <2>8. starts[m + 1] # 0
    <3>1. starts[m + 1] >= 1
      BY <2>7 DEF WholeInv, LayoutInv, Shape
    <3> QED
      BY <3>1
  <2>9. LoopInv'
    BY <2>1, <2>5, <2>6, <2>7, <2>8 DEF LoopInv
  <2>10. WholePartsOnly'
    <3>1. \A i \in 1..Len(files) :
             /\ i <= Len(form) /\ Complete(i) /\ files[i].data = Append(form[i].data, Crlf)
             /\ ~Misleads(form[i]) => files[i].name = utf8_to_acp(GivenName(form[i]))
      BY DEF WholeInv, WholePartsOnly
    <3>2. file.data = Append(p.data, Crlf) /\ (~Misleads(p) => file.name = utf8_to_acp(GivenName(p)))
      BY <2>1 DEF file
    <3>3. \A i \in 1..m :
             /\ i <= Len(form) /\ Complete(i) /\ files'[i].data = Append(form[i].data, Crlf)
             /\ ~Misleads(form[i]) => files'[i].name = utf8_to_acp(GivenName(form[i]))
      <4> TAKE i \in 1..m
      <4>1. CASE i = m
        <5>1. m <= Len(form) /\ files'[m] = file /\ form[m] = p
          BY <2>5, <2>7
        <5> HIDE DEF m, p
        <5> QED
          BY <2>7, <3>2, <4>1, <5>1
      <4>2. CASE i # m
        <5>1. i \in 1..Len(files)
          <6> HIDE <1>7
          <6> QED
            BY <1>0, <4>2
        <5> QED
          BY <2>5, <3>1, <5>1
      <4> QED
        BY <4>1, <4>2
    <3> HIDE DEF m
    <3> QED
      BY <2>5, <2>6, <3>3 DEF WholePartsOnly, Complete
  <2>11. LayoutInv'
    BY <1>0, <2>6 DEF WholeInv, LayoutInv
  <2> QED
    BY <2>9, <2>10, <2>11 DEF WholeInv
<1>8. CASE PartsEnd
  <2> USE <1>8 DEF PartsEnd
  <2>1. UNCHANGED <<form, starts, body, media, files>> /\ pc' \in {"idle", "save"} /\ pc = "part"
    OBVIOUS
  <2>2. CASE pc' = "idle"
    BY <2>1, <2>2, WholeElsewhere
  <2>3. CASE pc' = "save"
    <3>0. Len(starts) = Len(form) + 1
      BY <1>0, <2>1
    <3>1. \A i \in 1..Len(form) : Complete(i) => i <= Len(files)
      BY <1>8, NoneLeft
    <3>2. WholePartsOnly'
      BY <2>1, <3>1 DEF WholeInv, WholePartsOnly, Complete
    <3> QED
      BY <1>0, <2>1, <2>3, <3>2 DEF WholeInv, LayoutInv, LoopInv
  <2> QED
    BY <2>1, <2>2, <2>3
<1>9. CASE SaveFile
  <2>1. UNCHANGED <<form, starts, body, media, files>> /\ pc' = "save" /\ pc = "save"
    BY <1>9 DEF SaveFile
  <2> QED
    BY <2>1 DEF WholeInv, LayoutInv, LoopInv, WholePartsOnly, Complete
<1> QED
  BY <1>1, <1>2, <1>3, <1>4, <1>5, <1>6, <1>7, <1>8, <1>9 DEF HandleUpload

LEMMA WholeInductive == SafeSpec => [](HttpInv /\ WholeInv)
<1>1. Init => HttpInv /\ WholeInv
  BY HttpInit, WholeInit
<1>2. HttpInv /\ WholeInv /\ [Next]_vars => WholeInv'
  <2> SUFFICES ASSUME HttpInv, WholeInv, [Next]_vars PROVE WholeInv'
    OBVIOUS
  <2>1. CASE Client
    BY <2>1, WholeClient
  <2>2. CASE HandleUpload
    BY <2>2, WholeUpload
  <2>3. CASE HandleListFiles
    BY <2>3, WholeList
  <2>4. CASE HandlePath
    BY <2>4, WholePath
  <2>5. CASE UNCHANGED vars
    BY <2>5 DEF vars, client, request, upload, codec, WholeInv, LayoutInv, LoopInv, Decoded,
                WholePartsOnly, Complete
  <2> QED
    BY <2>1, <2>2, <2>3, <2>4, <2>5 DEF Next, Handler
<1>3. HttpInv /\ [Next]_vars => HttpInv'
  BY HttpClient, HttpUpload, HttpList, HttpPath, HttpStutter DEF Next, Handler
<1> QED
  BY <1>1, <1>2, <1>3, PTL DEF SafeSpec

\* Wherever the connection ends, the files to save are the parts that have arrived whole,
\* with all their data, for every form a client may write; and with their names, for every
\* part whose data are not taken for one.
THEOREM WholeParts == SafeSpec => []WholePartsOnly
<1>1. WholeInv => WholePartsOnly
  BY DEF WholeInv
<1> QED
  BY WholeInductive, <1>1, PTL

\* The file that a step of an upload or a removal may touch.
OneFile == \A n \in DOMAIN disk \cup DOMAIN disk' :
             \/ n \in DOMAIN disk \cap DOMAIN disk' /\ disk'[n] = disk[n]
             \/ /\ kind = "upload" /\ n \in DOMAIN disk'
                /\ Fold(n) = Fold(StoredName(saved + 1))
                /\ disk'[n] \in Written(Append(form[saved + 1].data, Crlf))
             \/ kind = "delete" /\ n \notin DOMAIN disk' /\ Fold(n) = Fold(DiskName(out))

\* The name of a file to save is the one its part gives or its data do.
LEMMA NameOfFile ==
  ASSUME WholeInv, NEW i \in 1..Len(files)
  PROVE  NameFor(i) = files[i].name /\ files[i].data = Append(form[i].data, Crlf)
BY DEF WholeInv, WholePartsOnly, NameFor

LEMMA OneFileStep == HttpInv /\ WholeInv /\ [Next]_vars => OneFile
<1> SUFFICES ASSUME HttpInv, WholeInv, [Next]_vars PROVE OneFile
  OBVIOUS
<1>1. CASE SaveFile
  <2> PICK name : name = DiskName(files[saved + 1].name)
    OBVIOUS
  <2>1. /\ saved + 1 \in 1..Len(files) /\ pc = "save"
        /\ \/ disk' = disk
           \/ \E e : /\ Fold(e) = Fold(name)
                     /\ \E d \in Written(files[saved + 1].data) : Puts(e, d)
    BY <1>1, SaveCases, Zenon
  <2>2. kind = "upload" /\ name = StoredName(saved + 1) /\ files[saved + 1].data = Append(form[saved + 1].data, Crlf)
    BY <2>1, NameOfFile DEF HttpInv, PlaceInv, StoredName
  <2>3. CASE disk' = disk
    BY <2>3 DEF OneFile
  <2>4. ASSUME NEW e, Fold(e) = Fold(name), NEW d \in Written(files[saved + 1].data), Puts(e, d)
        PROVE  OneFile
    <3> HIDE <1>1
    <3> QED
      BY <2>2, <2>4 DEF OneFile, Puts
  <2> QED
    BY <2>1, <2>3, <2>4
<1>2. CASE Delete
  <2>1. /\ kind = "delete"
        /\ disk' = disk \/ disk' = [n \in DOMAIN disk \ {Entry(DiskName(out))} |-> disk[n]]
    BY <1>2, DeleteCases, Zenon
  <2>2. Fold(Entry(DiskName(out))) = Fold(DiskName(out))
    BY EntryFacts
  <2> QED
    BY <2>1, <2>2 DEF OneFile
<1>3. CASE ~SaveFile /\ ~Delete
  <2>1. disk' = disk
    BY <1>3 DEF Next, Client, Handler, HandleUpload, HandleListFiles, HandlePath, vars,
       AskUpload, AskList, FollowLink, AskPath, Request, WritePart, Send,
       RefuseType, EmptyBoundary, FirstDelim, CutPart, ParseFilename, DecodeName, NameDecoded, TakePart,
       PartsEnd, AnswerUpload, ListFile, EncodeByte, ListLink, AnswerList, NoName, StartDecode, DecodeByte,
       CheckName, Download
  <2> QED
    BY <2>1 DEF OneFile
<1> QED
  BY <1>1, <1>2, <1>3

\* An upload touches no file but the one it has a name for, given by the part or taken from
\* its data, and puts nothing there but what the part holds; a removal touches none but the
\* one asked for: for all names, forms, paths and troubles of the disk.
THEOREM OnlyNamed == SafeSpec => OnlyNamedFilesChange
<1>1. HttpInv /\ WholeInv /\ [Next]_vars => [OneFile]_vars
  BY OneFileStep
<1>2. SafeSpec => [][OneFile]_vars
  BY WholeInductive, <1>1, PTL DEF SafeSpec
<1> QED
  BY <1>2 DEF OnlyNamedFilesChange, OneFile

------------------------------------------------------------------------------
\* What has become of the files dealt with so far.

\* failed has the refused parts, and otherwise only such as the disk did not let be opened;
\* every other part lies on the disk, or a later one with its name does.
SavedInv == pc = "save" =>
  /\ files # <<>>
  /\ \A i \in 1..saved :
       /\ Refused(i) => i \in failed
       /\ i \in failed => Refused(i) \/ IsDevice(StoredName(i)) \/ "denied" \in trouble
       /\ i \notin failed => IsDevice(StoredName(i)) \/ \E j \in (i..saved) \ failed : Lies(i, j)

\* One more file is dealt with.
LEMMA SavedOneMore ==
  ASSUME HttpInv, WholeInv, SavedInv, SaveFile
  PROVE  SavedInv'
<1> PICK name : name = DiskName(files[saved + 1].name)
  OBVIOUS
<1>0. /\ saved + 1 \in 1..Len(files) /\ saved' = saved + 1 /\ pc = "save" /\ pc' = "save"
      /\ UNCHANGED <<form, files, trouble>>
      /\ \/ /\ ~Savable(files[saved + 1].name, name) \/ IsDevice(name) \/ "denied" \in trouble
            /\ failed' = failed \cup {saved + 1} /\ disk' = disk
         \/ /\ Savable(files[saved + 1].name, name) /\ failed' = failed
            /\ \/ IsDevice(name) /\ disk' = disk
               \/ \E e : /\ Fold(e) = Fold(name)
                         /\ \A k \in DOMAIN disk : Fold(k) = Fold(name) => k = e
                         /\ \E d \in Written(files[saved + 1].data) : Puts(e, d)
  <2>1. UNCHANGED client /\ files' = files => UNCHANGED <<form, files>>
    BY DEF client
  <2> QED
    BY <2>1, SaveCases, Zenon
<1> PICK m \in 1..Len(files) : m = saved + 1
  BY <1>0
<1>1. /\ saved' = m /\ failed \subseteq 1..saved /\ saved \in Nat /\ m = saved + 1 /\ pc = "save"
      /\ UNCHANGED <<form, files, trouble>>
  BY <1>0, LenProperties DEF HttpInv, UploadOK
<1>2. /\ StoredName(m) = name /\ (Refused(m) <=> ~Savable(files[m].name, name))
      /\ files[m].data = Append(form[m].data, Crlf)
  BY <1>1, NameOfFile DEF StoredName, Refused, Savable
<1>3. \A i : StoredName(i)' = StoredName(i)
  BY <1>1 DEF StoredName, NameFor
<1>4. \A i : (Refused(i) => Refused(i)') /\ (Refused(i)' => Refused(i))
  BY <1>1, <1>3 DEF Refused, NameFor
<1>5. \A i \in 1..m : i \in 1..saved \/ i = m
  BY <1>1
<1>6. m \notin failed /\ m \in m..m
  BY <1>1
<1>7. \A i \in 1..saved : i # m /\ m \in i..m /\ \A j \in i..saved : j \in i..m /\ j # m
  BY <1>1
<1>8. \A d : (d \in Written(files[m].data) => d \in Written(files[m].data)')
  BY <1>1 DEF Written
<1>9. \A i \in 1..saved :
        /\ Refused(i) => i \in failed
        /\ i \in failed => Refused(i) \/ IsDevice(StoredName(i)) \/ "denied" \in trouble
        /\ i \notin failed => IsDevice(StoredName(i)) \/ \E j \in (i..saved) \ failed : Lies(i, j)
  BY <1>1 DEF SavedInv
<1>10. files' # <<>>
  BY <1>1 DEF SavedInv
<1>11. SUFFICES \A i \in 1..m :
         /\ Refused(i) => i \in failed'
         /\ i \in failed' => Refused(i) \/ IsDevice(StoredName(i)) \/ "denied" \in trouble
         /\ i \notin failed' => IsDevice(StoredName(i)) \/ \E j \in (i..m) \ failed' : Lies(i, j)'
  BY <1>1, <1>3, <1>4, <1>10 DEF SavedInv
\* The disk is as it was.
<1>12. ASSUME disk' = disk, failed' = failed \/ failed' = failed \cup {m}
       PROVE  \A i, j : Lies(i, j) => Lies(i, j)'
  BY <1>1, <1>3, <1>12 DEF Lies, Written
<1>13. CASE /\ Refused(m) \/ IsDevice(name) \/ "denied" \in trouble
            /\ failed' = failed \cup {m} /\ disk' = disk
  BY <1>2, <1>5, <1>7, <1>9, <1>12, <1>13
<1>14. CASE ~Refused(m) /\ failed' = failed /\ IsDevice(name) /\ disk' = disk
  BY <1>2, <1>5, <1>6, <1>7, <1>9, <1>12, <1>14
<1>15. ASSUME ~Refused(m), failed' = failed,
              NEW e, Fold(e) = Fold(name), \A k \in DOMAIN disk : Fold(k) = Fold(name) => k = e,
              NEW d \in Written(files[m].data), Puts(e, d)
       PROVE  \A i \in 1..m :
                /\ Refused(i) => i \in failed'
                /\ i \in failed' => Refused(i) \/ IsDevice(StoredName(i)) \/ "denied" \in trouble
                /\ i \notin failed' => IsDevice(StoredName(i)) \/ \E j \in (i..m) \ failed' : Lies(i, j)'
  <2>1. e \in DOMAIN disk' /\ disk'[e] = d /\ \A n \in DOMAIN disk : n \in DOMAIN disk' /\ (n # e => disk'[n] = disk[n])
    BY <1>15 DEF Puts
  <2>2. d \in Written(Append(form[m].data, Crlf))'
    BY <1>1, <1>2, <1>8, <1>15
  <2>3. \A i : Fold(StoredName(i)) = Fold(name) => Lies(i, m)'
    BY <1>2, <1>3, <1>15, <2>1, <2>2 DEF Lies
  <2>4. \A i, j : Fold(StoredName(i)) # Fold(name) /\ Lies(i, j) => Lies(i, j)'
    BY <1>1, <1>3, <1>15, <2>1 DEF Lies, Written
  <2>5. ASSUME NEW i \in 1..m, i \notin failed'
        PROVE  IsDevice(StoredName(i)) \/ \E j \in (i..m) \ failed' : Lies(i, j)'
    <3>1. CASE i = m
      BY <1>2, <1>6, <1>15, <2>3, <3>1
    <3>2. CASE i \in 1..saved /\ Fold(StoredName(i)) = Fold(name)
      BY <1>6, <1>7, <1>15, <2>3, <3>2
    <3>3. CASE i \in 1..saved /\ Fold(StoredName(i)) # Fold(name)
      BY <1>7, <1>9, <1>15, <2>4, <2>5, <3>3
    <3> QED
      BY <1>5, <3>1, <3>2, <3>3
  <2> QED
    BY <1>5, <1>6, <1>9, <1>15, <2>5
<1> QED
  BY <1>0, <1>1, <1>2, <1>13, <1>14, <1>15

LEMMA SavedStep == HttpInv /\ WholeInv /\ SavedInv /\ [Next]_vars => SavedInv'
<1> SUFFICES ASSUME HttpInv, WholeInv, SavedInv, [Next]_vars PROVE SavedInv'
  OBVIOUS
<1>1. CASE PartsEnd /\ pc' = "save"
  <2>1. files' # <<>> /\ saved' = 0
    BY <1>1 DEF PartsEnd, Goes, Answer, upload, HttpInv, PlaceInv
  <2>2. \A i \in 1..saved' : FALSE
    BY <2>1
  <2> QED
    BY <2>1, <2>2 DEF SavedInv
<1>2. CASE UNCHANGED vars
  <2>1. UNCHANGED <<form, files, saved, failed, pc, disk, trouble>>
    BY <1>2 DEF vars, client, upload
  <2>2. \A i : (Refused(i) => Refused(i)') /\ (Refused(i)' => Refused(i)) /\ StoredName(i)' = StoredName(i)
    BY <2>1 DEF Refused, StoredName, NameFor
  <2>3. \A i, j : Lies(i, j) => Lies(i, j)'
    BY <2>1, <2>2 DEF Lies, Written
  <2> QED
    BY <2>1, <2>2, <2>3 DEF SavedInv
<1>3. (pc' = "save" /\ ~UNCHANGED vars) => PartsEnd \/ SaveFile
  BY DEF Next, Client, Handler, HandleUpload, HandleListFiles, HandlePath, Goes, Answer,
     AskUpload, AskList, FollowLink, AskPath, Request, WritePart, Send,
     RefuseType, EmptyBoundary, FirstDelim, CutPart, ParseFilename, DecodeName, NameDecoded, TakePart,
     AnswerUpload, ListFile, EncodeByte, ListLink, AnswerList, NoName, StartDecode, DecodeByte,
     CheckName, Download, Delete
<1>4. CASE pc' # "save"
  BY <1>4 DEF SavedInv
<1> QED
  BY <1>1, <1>2, <1>3, <1>4, SavedOneMore

\* The answer counts the failures, among as many files as parts came whole.
LEMMA ToldWhenSaved ==
  ASSUME HttpInv, WholeInv, SavedInv, AnswerUpload
  PROVE  UploadTold
<1> DEFINE whole == {i \in 1..Len(form) : Complete(i)}
<1>1. /\ pc = "save" /\ saved = Len(files) /\ files # <<>> /\ Len(files) \in Nat /\ Len(form) \in Nat
      /\ failed \subseteq 1..Len(files)
      /\ status' = IF failed = {} THEN 200
                   ELSE IF Cardinality(failed) = Len(files) THEN 500 ELSE 207
  BY LenProperties DEF AnswerUpload, Answer, Goes, HttpInv, ClientOK, UploadOK, SavedInv
<1>2. whole = 1..Len(files)
  <2>1. \A i \in 1..Len(files) : i \in 1..Len(form) /\ Complete(i)
    <3>1. \A i \in 1..Len(files) : i <= Len(form) /\ Complete(i)
      BY Zenon DEF WholeInv, WholePartsOnly
    <3> QED
      BY <1>1, <3>1
  <2>2. \A i \in 1..Len(form) : Complete(i) => i \in 1..Len(files)
    BY <1>1 DEF WholeInv, WholePartsOnly
  <2> QED
    BY <2>1, <2>2
<1>3. whole # {}
  <2>1. Len(files) # 0
    BY <1>1 DEF HttpInv, UploadOK
  <2> QED
    BY <1>1, <1>2, <2>1
<1>4. Cardinality(failed) = Len(files) <=> failed = whole
  <2>1. IsFiniteSet(1..Len(files)) /\ Cardinality(1..Len(files)) = Len(files)
    <3>1. Cardinality(1..Len(files)) = IF 1 > Len(files) THEN 0 ELSE Len(files) - 1 + 1
      BY <1>1, FS_Interval
    <3> QED
      BY <1>1, <3>1, FS_Interval
  <2>2. Cardinality(failed) = Len(files) => failed = 1..Len(files)
    BY <1>1, <2>1, FS_Subset
  <2> QED
    BY <1>2, <2>1, <2>2
<1>5. ASSUME NEW i \in whole
      PROVE  /\ Refused(i) => i \in failed
             /\ i \in failed => Refused(i) \/ IsDevice(StoredName(i)) \/ "denied" \in trouble
             /\ i \notin failed => \/ IsDevice(StoredName(i))
                                  \/ \E j \in (i..Len(form)) \ failed : Complete(j) /\ Lies(i, j)
  <2>1. /\ Refused(i) => i \in failed
        /\ i \in failed => Refused(i) \/ IsDevice(StoredName(i)) \/ "denied" \in trouble
        /\ i \notin failed => \/ IsDevice(StoredName(i))
                             \/ \E j \in (i..Len(files)) \ failed : Lies(i, j)
    BY <1>1, <1>2, <1>5 DEF SavedInv
  <2>2. \A j \in i..Len(files) : j \in whole /\ j \in i..Len(form)
    BY <1>1, <1>2, <1>5
  <2> QED
    BY <2>1, <2>2
<1>6. status' = IF whole = {} THEN 400 ELSE IF failed = {} THEN 200
                ELSE IF failed = whole THEN 500 ELSE 207
  BY <1>1, <1>3, <1>4
<1> QED
  BY <1>5, <1>6 DEF UploadTold

\* Nothing has come whole: the upload is refused.
LEMMA ToldAtOnce ==
  ASSUME HttpInv, WholeInv, RefuseType \/ EmptyBoundary \/ PartsEnd, pc' = "idle", pc # "idle"
  PROVE  UploadTold
<1>1. CASE RefuseType \/ EmptyBoundary
  <2>1. media # "boundary" /\ status' = 400
    BY <1>1 DEF RefuseType, EmptyBoundary, Answer, Goes
  <2>2. Len(form) = 0
    BY <2>1 DEF WholeInv, LayoutInv
  <2>3. {i \in 1..Len(form) : Complete(i)} = {}
    BY <2>2
  <2> QED
    BY <2>1, <2>3 DEF UploadTold
<1>2. CASE PartsEnd
  <2>1. files = <<>> /\ status' = 400
    BY <1>2 DEF PartsEnd, Answer, Goes
  <2>2. \A i \in 1..Len(form) : ~Complete(i)
    <3>1. \A i \in 1..Len(form) : Complete(i) => i <= 0
      BY <1>2, <2>1, NoneLeft
    <3> QED
      BY <3>1
  <2>3. {i \in 1..Len(form) : Complete(i)} = {}
    BY <2>2
  <2> QED
    BY <2>1, <2>3 DEF UploadTold
<1> QED
  BY <1>1, <1>2

\* The status tells the client what has become of its parts, for every form, every point at
\* which its body was cut, every state of the directory and every trouble of the disk, but for
\* the one that the code does not look for: what a full disk did not take.
THEOREM UploadStatus == SafeSpec => StatusTellsUpload
<1>1. HttpInv /\ WholeInv /\ SavedInv /\ [Next]_vars => [UploadTold]_vars
  <2> SUFFICES ASSUME HttpInv, WholeInv, SavedInv, Next, kind = "upload", pc # "idle", pc' = "idle"
               PROVE  UploadTold
    BY DEF UploadTold
  <2>1. RefuseType \/ EmptyBoundary \/ PartsEnd \/ AnswerUpload
    BY DEF Next, Client, Handler, HandleUpload, HandleListFiles, HandlePath, Goes, Answer,
       AskUpload, AskList, FollowLink, AskPath, Request, WritePart, Send,
       FirstDelim, CutPart, ParseFilename, DecodeName, NameDecoded, TakePart,
       SaveFile, ListFile, EncodeByte, ListLink, AnswerList, NoName, StartDecode, DecodeByte,
       CheckName, Download, Delete, HttpInv, PlaceInv
  <2> QED
    BY <2>1, ToldWhenSaved, ToldAtOnce
<1>2. Init => SavedInv
  BY DEF Init, SavedInv
<1>3. SafeSpec => [][UploadTold]_vars
  BY WholeInductive, SavedStep, <1>1, <1>2, PTL DEF SafeSpec
<1> QED
  BY <1>3 DEF StatusTellsUpload

------------------------------------------------------------------------------
\* Links: a name comes back from its escaped form as it was.

\* A name that a file may have.
Kept(n) == n \in Seq(Byte) /\ n # <<>> /\ DiskName(n) = n /\ (n \in DOMAIN Found \/ is_valid_filename(n))

\* Every file has such a name.
NamesInv == \A n \in DOMAIN disk : Kept(n)

\* The loop of url_encode has written the code of every byte before its position, and every
\* link has the whole of it.
EncodeInv == pc = "encode" => Kept(src) /\ \E e : Beginnings(e, src) /\ out = e[at - 1]

LinkInv == \A l \in links : Kept(l.name) /\ l.url = Escaped(l.name)

\* A request that follows a link is at the beginning of the name behind it, or has all of it.
WantInv == wanted # <<>> =>
             /\ Kept(wanted)
             /\ pc \in {"idle", "path", "decode", "disk"}
             /\ pc # "idle" => kind \in {"download", "delete"} /\ src = Escaped(wanted)
             /\ pc \in {"path", "decode"} => \E k \in 0..Len(wanted) : Decoded(wanted, k)
             /\ pc = "disk" => out = wanted

LinksInv == NamesInv /\ EncodeInv /\ LinkInv /\ WantInv

LEMMA LinksInit == Init => LinksInv
<1> SUFFICES ASSUME Init PROVE LinksInv
  OBVIOUS
<1>1. \A n \in DOMAIN Found : Kept(n)
  BY HttpAssumption DEF Kept, NoFile
<1>2. disk = Found
  BY DEF Init
<1> QED
  BY <1>1, <1>2 DEF Init, LinksInv, NamesInv, EncodeInv, LinkInv, WantInv

\* Nothing of a name is decoded at the start.
LEMMA DecodedStart ==
  ASSUME NEW n \in Seq(Byte), at' = 1, out' = <<>>
  PROVE  \E k \in 0..Len(n) : Decoded(n, k)'
<1>1. PICK o : Offsets(o, n)
  BY OffsetsExist
<1>2. o[0] = 0 /\ 0 \in 0..Len(n) /\ SubSeq(n, 1, 0) = <<>>
  BY <1>1, LenProperties DEF Offsets
<1>3. Decoded(n, 0)'
  BY <1>1, <1>2 DEF Decoded
<1> QED
  BY <1>2, <1>3

LEMMA LinksClient == HttpInv /\ LinksInv /\ Client => LinksInv'
<1> SUFFICES ASSUME HttpInv, LinksInv, Client PROVE LinksInv'
  OBVIOUS
<1>1. links' = links /\ disk' = disk /\ pc' # "encode"
  BY DEF Client, AskUpload, AskList, FollowLink, AskPath, Request, WritePart, Send, Goes
<1>2. NamesInv' /\ EncodeInv' /\ LinkInv'
  BY <1>1 DEF LinksInv, NamesInv, EncodeInv, LinkInv
<1>3. CASE AskUpload \/ AskList \/ AskPath
  <2>1. wanted' = <<>>
    BY <1>3 DEF AskUpload, AskList, AskPath
  <2> QED
    BY <1>2, <2>1 DEF LinksInv, WantInv
<1>4. CASE FollowLink
  <2>1. PICK what \in {"download", "delete"}, link \in links :
           Request(what, "path") /\ Load(link.url) /\ wanted' = link.name
    BY <1>4 DEF FollowLink
  <2>2. Kept(wanted') /\ src' = Escaped(wanted') /\ at' = 1 /\ out' = <<>>
        /\ kind' \in {"download", "delete"} /\ pc' = "path"
    BY <2>1 DEF Request, Load, Goes, LinksInv, LinkInv
  <2>3. \E k \in 0..Len(wanted') : Decoded(wanted, k)'
    <3>1. \A n \in Seq(Byte) : \E k \in 0..Len(n) : Decoded(n, k)'
      BY <2>2, DecodedStart
    <3> QED
      BY <2>2, <3>1 DEF Kept, Decoded
  <2>4. WantInv'
    BY <2>2, <2>3 DEF WantInv, Kept
  <2> QED
    BY <1>2, <2>4 DEF LinksInv
<1>5. CASE WritePart \/ Send
  <2>1. pc = "compose" /\ wanted' = wanted
    BY <1>5 DEF WritePart, Send, Goes
  <2>2. wanted = <<>>
    BY <2>1 DEF LinksInv, WantInv
  <2> QED
    BY <1>2, <2>1, <2>2 DEF LinksInv, WantInv
<1> QED
  BY <1>3, <1>4, <1>5 DEF Client

LEMMA LinksUpload == HttpInv /\ WholeInv /\ LinksInv /\ HandleUpload => LinksInv'
<1> SUFFICES ASSUME HttpInv, WholeInv, LinksInv, HandleUpload PROVE LinksInv'
  OBVIOUS
<1>1. /\ UNCHANGED <<links, wanted>>
      /\ pc \in {"type", "part", "parse", "name", "take", "save"} /\ pc' # "encode"
  BY DEF HandleUpload, RefuseType, EmptyBoundary, FirstDelim, CutPart, ParseFilename, DecodeName,
         NameDecoded, TakePart, PartsEnd, SaveFile, AnswerUpload, Goes, Answer, client
<1>2. EncodeInv' /\ LinkInv' /\ WantInv'
  BY <1>1 DEF LinksInv, EncodeInv, LinkInv, WantInv
<1>3. CASE SaveFile
  <2> PICK name : name = DiskName(files[saved + 1].name)
    OBVIOUS
  <2>1. /\ files[saved + 1].name \in Seq(Byte)
        /\ \/ disk' = disk
           \/ /\ Savable(files[saved + 1].name, name) /\ Entered(name)
              /\ \E e : e \in DOMAIN disk \cup {name} /\ \E d : Puts(e, d)
    BY <1>3, SaveCases, Zenon
  <2>2. CASE disk' = disk
    BY <1>2, <2>2 DEF LinksInv, NamesInv
  <2>3. ASSUME Savable(files[saved + 1].name, name), Entered(name),
               NEW e \in DOMAIN disk \cup {name}, NEW d, Puts(e, d)
        PROVE  LinksInv'
    <3>1. name # <<>>
      BY <2>3 DEF Savable, NoFile
    <3>2. is_valid_filename(name)
      BY <2>1, <2>3, <3>1, DiskValid DEF Savable
    <3>3. Kept(name)
      BY <2>3, <3>1, <3>2 DEF Kept, Entered
    <3>4. NamesInv'
      BY <2>3, <3>3 DEF LinksInv, NamesInv, Puts
    <3> QED
      BY <1>2, <3>4 DEF LinksInv
  <2> QED
    BY <2>1, <2>2, <2>3
<1>4. CASE ~SaveFile
  <2>1. disk' = disk
    BY <1>4 DEF HandleUpload, RefuseType, EmptyBoundary, FirstDelim, CutPart, ParseFilename, DecodeName,
         NameDecoded, TakePart, PartsEnd, AnswerUpload
  <2> QED
    BY <1>2, <2>1 DEF LinksInv, NamesInv
<1> QED
  BY <1>3, <1>4

\* A round of url_encode adds the code of one byte.
LEMMA EncodeStep ==
  ASSUME NEW n \in Seq(Byte), NEW e, Beginnings(e, n), NEW i \in 1..Len(n)
  PROVE  e[i - 1] \o Code(n[i]) = e[i]
BY Zenon DEF Beginnings

LEMMA LinksList == HttpInv /\ LinksInv /\ HandleListFiles => LinksInv'
<1> SUFFICES ASSUME HttpInv, LinksInv, HandleListFiles PROVE LinksInv'
  OBVIOUS
<1> USE DEF Goes, Answer, client, request, upload, codec
<1>1. UNCHANGED <<wanted, disk>> /\ pc \in {"list", "encode"}
  BY DEF HandleListFiles, ListFile, EncodeByte, ListLink, AnswerList
<1>2. wanted = <<>>
  BY <1>1 DEF LinksInv, WantInv
<1>3. NamesInv' /\ WantInv'
  BY <1>1, <1>2 DEF LinksInv, NamesInv, WantInv
<1>4. CASE ListFile
  <2>1. PICK n \in todo : src' = n /\ at' = 1 /\ out' = <<>>
    BY <1>4 DEF ListFile, Load
  <2>2. Kept(n)
    BY <2>1 DEF HttpInv, DiskOK, LinksInv, NamesInv
  <2>3. PICK e : Beginnings(e, n)
    BY <2>2, BeginningsExist DEF Kept
  <2>4. EncodeInv'
    <3>1. e[0] = <<>>
      BY <2>3, Zenon DEF Beginnings
    <3> QED
      BY <2>1, <2>2, <2>3, <3>1 DEF EncodeInv
  <2>5. LinkInv'
    BY <1>4 DEF ListFile, LinksInv, LinkInv
  <2> QED
    BY <1>3, <2>4, <2>5 DEF LinksInv
<1>5. CASE EncodeByte
  <2> USE <1>5 DEF EncodeByte
  <2>1. PICK e : Beginnings(e, src) /\ out = e[at - 1]
    BY DEF LinksInv, EncodeInv
  <2>2. Kept(src) /\ at \in 1..Len(src) /\ at' = at + 1 /\ src' = src /\ out' = out \o Code(src[at])
    BY LenProperties DEF LinksInv, EncodeInv, HttpInv, CodecOK
  <2>3. out' = e[at]
    BY <2>1, <2>2, EncodeStep DEF Kept
  <2>4. at' - 1 = at
    BY <2>2
  <2>5. EncodeInv'
    BY <2>1, <2>2, <2>3, <2>4 DEF EncodeInv
  <2>6. LinkInv'
    BY DEF LinksInv, LinkInv
  <2> QED
    BY <1>3, <2>5, <2>6 DEF LinksInv
<1>6. CASE ListLink
  <2> USE <1>6 DEF ListLink
  <2>1. PICK e : Beginnings(e, src) /\ out = e[at - 1]
    BY DEF LinksInv, EncodeInv
  <2>2. Kept(src) /\ at - 1 = Len(src)
    BY LenProperties DEF LinksInv, EncodeInv, HttpInv, CodecOK
  <2>3. out = Escaped(src)
    <3>1. e[Len(src)] = Escaped(src)
      BY <2>1, Zenon DEF Beginnings
    <3> QED
      BY <2>1, <2>2, <3>1
  <2>4. LinkInv'
    BY <2>2, <2>3 DEF LinksInv, LinkInv
  <2>5. EncodeInv'
    BY DEF EncodeInv
  <2> QED
    BY <1>3, <2>4, <2>5 DEF LinksInv
<1>7. CASE AnswerList
  <2>1. EncodeInv' /\ LinkInv'
    BY <1>7 DEF AnswerList, LinksInv, EncodeInv, LinkInv
  <2> QED
    BY <1>3, <2>1 DEF LinksInv
<1> QED
  BY <1>4, <1>5, <1>6, <1>7 DEF HandleListFiles

\* A name that is not empty escapes to something.
LEMMA EscapedNonEmpty ==
  ASSUME NEW n \in Seq(Byte), n # <<>>
  PROVE  Escaped(n) # <<>>
<1>1. PICK o : Offsets(o, n)
  BY OffsetsExist
<1>2. 1 \in 1..Len(n) /\ n[1] \in Byte
  BY EmptySeq, LenProperties, ElementOfSeq
<1>3. o[1] = o[0] + Len(Code(n[1])) /\ o[0] = 0 /\ o[1] <= Len(Escaped(n))
  <2>1. 1 \in 0..Len(n) /\ 1 - 1 = 0
    BY <1>2, LenProperties
  <2> QED
    BY <1>1, <1>2, <2>1 DEF Offsets
<1>4. Len(Code(n[1])) \in {1, 3}
  BY <1>2, CodeShape
<1>5. 1 <= Len(Escaped(n))
  <2>1. Len(Escaped(n)) \in Nat
    BY EscapedShape, LenProperties
  <2> QED
    BY <1>3, <1>4, <2>1
<1> QED
  BY <1>5, EmptySeqs

LEMMA LinksPath == HttpInv /\ LinksInv /\ HandlePath => LinksInv'
<1> SUFFICES ASSUME HttpInv, LinksInv, HandlePath PROVE LinksInv'
  OBVIOUS
<1> USE DEF Goes, Answer, client, request, upload, codec
<1>1. UNCHANGED <<wanted, links, kind, src>> /\ pc' # "encode"
  BY DEF HandlePath, NoName, StartDecode, DecodeByte, CheckName, Download, Delete
<1>2. EncodeInv' /\ LinkInv'
  BY <1>1 DEF LinksInv, EncodeInv, LinkInv
<1>3. NamesInv'
  <2>1. CASE Delete
    <3>1. \A n \in DOMAIN disk' : n \in DOMAIN disk /\ disk'[n] = disk[n]
      <4>1. disk' = disk \/ \E e : disk' = [n \in DOMAIN disk \ {e} |-> disk[n]]
        BY <2>1, DeleteCases, Zenon
      <4> QED
        BY <4>1
    <3> QED
      BY <3>1 DEF LinksInv, NamesInv
  <2>2. CASE ~Delete
    <3>1. disk' = disk
      BY <2>2 DEF HandlePath, NoName, StartDecode, DecodeByte, CheckName, Download
    <3> QED
      BY <3>1 DEF LinksInv, NamesInv
  <2> QED
    BY <2>1, <2>2
<1>4. WantInv'
  <2> SUFFICES ASSUME wanted # <<>> PROVE WantInv'
    BY <1>1 DEF WantInv
  <2>1. /\ Kept(wanted) /\ kind \in {"download", "delete"} /\ src = Escaped(wanted)
        /\ pc \in {"path", "decode"} => \E k \in 0..Len(wanted) : Decoded(wanted, k)
        /\ pc = "disk" => out = wanted
    BY DEF LinksInv, WantInv, HandlePath, NoName, StartDecode, DecodeByte, CheckName, Download, Delete
  <2>2. CASE StartDecode
    <3>1. UNCHANGED <<out, at>> /\ pc' = "decode" /\ pc = "path"
      BY <2>2 DEF StartDecode
    <3> QED
      BY <1>1, <2>1, <3>1 DEF WantInv, Decoded
  <2>3. CASE DecodeByte
    <3> USE <2>3 DEF DecodeByte
    <3>1. PICK k \in 0..Len(wanted) : Decoded(wanted, k)
      BY <2>1
    <3>2. /\ k < Len(wanted) /\ UrlByte(src, at) = wanted[k + 1] /\ NameNext(src, at) = UrlNext(src, at)
          /\ \E o : Offsets(o, wanted) /\ NameNext(src, at) = o[k + 1] + 1
          /\ Append(SubSeq(wanted, 1, k), wanted[k + 1]) = SubSeq(wanted, 1, k + 1)
      BY <2>1, <3>1, DecodedStep DEF Kept
    <3>3. out' = SubSeq(wanted, 1, k + 1) /\ at' = NameNext(src, at)
      BY <3>1, <3>2 DEF Decoded
    <3>4. k + 1 \in 0..Len(wanted)
      BY <2>1, <3>2, LenProperties DEF Kept
    <3>5. Decoded(wanted, k + 1)'
      BY <1>1, <3>2, <3>3 DEF Decoded
    <3> QED
      BY <1>1, <2>1, <3>4, <3>5 DEF WantInv, Decoded
  <2>4. CASE CheckName
    <3> USE <2>4 DEF CheckName
    <3>1. PICK k \in 0..Len(wanted) : Decoded(wanted, k)
      BY <2>1
    <3>2. out = wanted
      BY <2>1, <3>1, DecodedAll DEF Kept
    <3> QED
      BY <1>1, <2>1, <3>2 DEF WantInv
  <2>5. CASE NoName \/ Download \/ Delete
    <3>1. pc' = "idle"
      BY <2>5 DEF NoName, Download, Delete
    <3> QED
      BY <1>1, <2>1, <3>1 DEF WantInv
  <2> QED
    BY <2>2, <2>3, <2>4, <2>5 DEF HandlePath
<1> QED
  BY <1>2, <1>3, <1>4 DEF LinksInv

LEMMA LinksInductive == SafeSpec => [](HttpInv /\ LinksInv)
<1>1. Init => LinksInv
  BY LinksInit
<1>2. HttpInv /\ WholeInv /\ LinksInv /\ [Next]_vars => LinksInv'
  <2> SUFFICES ASSUME HttpInv, WholeInv, LinksInv, [Next]_vars PROVE LinksInv'
    OBVIOUS
  <2>1. CASE Client
    BY <2>1, LinksClient
  <2>2. CASE HandleUpload
    BY <2>2, LinksUpload
  <2>3. CASE HandleListFiles
    BY <2>3, LinksList
  <2>4. CASE HandlePath
    BY <2>4, LinksPath
  <2>5. CASE UNCHANGED vars
    BY <2>5 DEF vars, client, request, upload, codec, LinksInv, NamesInv, EncodeInv, LinkInv, WantInv,
                Decoded
  <2> QED
    BY <2>1, <2>2, <2>3, <2>4, <2>5 DEF Next, Handler
<1> QED
  BY WholeInductive, <1>1, <1>2, PTL DEF SafeSpec

LEMMA LinkFoundStep == HttpInv /\ LinksInv /\ [Next]_vars => LinkFound
<1> SUFFICES ASSUME HttpInv, LinksInv, [Next]_vars,
                    wanted # <<>>, wanted \in DOMAIN disk, pc # "idle", pc' = "idle",
                    wanted \in DOMAIN Found => is_valid_filename(wanted)
             PROVE  \/ /\ status' = 200
                       /\ disk' = IF kind = "delete" THEN [n \in DOMAIN disk \ {wanted} |-> disk[n]] ELSE disk
                    \/ /\ status' = 500 /\ disk' = disk
                       /\ "denied" \in trouble \/ (kind = "download" /\ disk[wanted] = <<>>)
  BY DEF LinkFound
<1> USE DEF Goes, Answer
<1>1. /\ Kept(wanted) /\ pc \in {"path", "decode", "disk"} /\ src = Escaped(wanted)
      /\ pc \in {"path", "decode"} => \E k \in 0..Len(wanted) : Decoded(wanted, k)
      /\ pc = "disk" => out = wanted
  BY DEF LinksInv, WantInv
<1>2. is_valid_filename(wanted) /\ name_accepted(wanted)
  <2>1. is_valid_filename(wanted)
    BY <1>1 DEF Kept
  <2> QED
    BY <1>1, <2>1, DiskValid DEF Kept
<1>3. sanitize_filename(wanted) = wanted /\ DiskName(wanted) = wanted
  BY <1>1, <1>2, ValidStays DEF Kept
<1>4. NoName \/ CheckName \/ Download \/ Delete
  <2>1. HandlePath
    BY <1>1 DEF Next, Client, Handler, HandleUpload, HandleListFiles, vars,
       AskUpload, AskList, FollowLink, AskPath, Request, WritePart, Send,
       RefuseType, EmptyBoundary, FirstDelim, CutPart, ParseFilename, DecodeName, NameDecoded, TakePart,
       PartsEnd, SaveFile, AnswerUpload, ListFile, EncodeByte, ListLink, AnswerList
  <2> QED
    BY <2>1 DEF HandlePath, StartDecode, DecodeByte
<1>5. ~NoName
  BY <1>1, EscapedNonEmpty DEF NoName, Kept
<1>6. ~CheckName
  <2> SUFFICES ASSUME CheckName PROVE FALSE
    OBVIOUS
  <2>1. pc = "decode" /\ at > Len(src) /\ ~name_accepted(out)
    BY DEF CheckName
  <2>2. PICK k \in 0..Len(wanted) : Decoded(wanted, k)
    BY <1>1, <2>1
  <2>3. out = wanted
    BY <1>1, <2>1, <2>2, DecodedAll DEF Kept
  <2> QED
    BY <1>2, <2>1, <2>3
<1>7. /\ Entry(wanted) = wanted /\ ~IsDevice(wanted) /\ wanted # <<>>
      /\ Exists(wanted) /\ Content(wanted) = disk[wanted]
  <2>1. Entry(wanted) = wanted
    BY EntryFacts DEF HttpInv, DiskOK
  <2>2. ~IsDevice(wanted)
    BY DEF HttpInv, DiskOK, Entered
  <2> QED
    BY <2>1, <2>2 DEF Exists, Content
<1>8. CASE Download
  <2>1. pc = "disk" /\ kind = "download" /\ disk' = disk
    BY <1>8 DEF Download
  <2>2. out = wanted
    BY <1>1, <2>1
  <2>3. \/ ~(is_valid_filename(wanted) /\ Exists(wanted)) /\ Answer("disk", 404)
        \/ /\ Content(wanted) = <<>> \/ "denied" \in trouble
           /\ Answer("disk", 500)
        \/ Answer("disk", 200)
    BY <1>3, <1>8, <2>2 DEF Download
  <2> QED
    BY <1>2, <1>7, <2>1, <2>3
<1>9. CASE Delete
  <2>1. /\ kind = "delete" /\ pc = "disk"
        /\ \/ /\ ~Removable(out, DiskName(out)) \/ "denied" \in trouble
              /\ status' = 500 /\ disk' = disk
           \/ /\ status' = 200
              /\ disk' = [n \in DOMAIN disk \ {Entry(DiskName(out))} |-> disk[n]]
    BY <1>9, DeleteCases, Zenon
  <2>2. out = wanted
    BY <1>1, <2>1
  <2>3. Removable(wanted, wanted)
    BY <1>2, <1>7 DEF Removable
  <2> QED
    BY <1>3, <1>7, <2>1, <2>2, <2>3
<1> QED
  BY <1>4, <1>5, <1>6, <1>8, <1>9

\* A link leads to its file and to no other, for every name a file may have: what url_encode
\* writes, url_decode reads back, and no check in between refuses it. Only an empty file is
\* not read, and only a disk that denies it answers otherwise.
THEOREM LinksLead == SafeSpec => LinksWork
<1>1. HttpInv /\ LinksInv /\ [Next]_vars => [LinkFound]_vars
  BY LinkFoundStep
<1>2. SafeSpec => [][LinkFound]_vars
  BY LinksInductive, <1>1, PTL DEF SafeSpec
<1> QED
  BY <1>2 DEF LinksWork
================================================================================
