--------------------------- MODULE FileStoreProofs ---------------------------
(***************************************************************************)
(* Theorems about FileStore for every set of requests, every set of names, *)
(* any number of threads and every fault.                                  *)
(***************************************************************************)
EXTENDS FileStore, SequenceTheorems, FiniteSetTheorems, TLAPS

\* What each position of a handler knows about its request.
HandlerInv(r) ==
  /\ pc[r] \in {"ctor", "mkdir"} => ~BadRequest(op[r])
  /\ pc[r] \in {"part", "write"} => op[r].kind = "upload"
  /\ pc[r] = "write" => part[r] \in PartsOf(op[r]) /\ FileOf(r) \in Names
  /\ pc[r] \in {"exists", "open", "read"} => op[r].kind = "download" /\ op[r].name \in Names
  /\ pc[r] \in {"find", "remove"} => op[r].kind = "delete" /\ op[r].name \in Names
  /\ pc[r] \notin {"read", "done"} => body[r] = <<>>
  /\ pc[r] \in {"write", "read"} => FileOf(r) \in present
  /\ pc[r] \in {"list", "entry"} => op[r].kind = "list"

FileInv == FileTypeOK /\ \A r \in Reqs : HandlerInv(r)

------------------------------------------------------------------------------
\* What the operators of FileRequests return.

LEMMA OpTypes ==
  ASSUME NEW o \in Ops
  PROVE  /\ o.kind \in {"upload", "download", "delete", "list", "other"}
         /\ o.kind = "upload" => o.parts \in Seq(PartType)
         /\ o.kind \in {"download", "delete"} => o.name \in Names \cup BadNames
         /\ o.kind = "other" => o.status \in {200, 404, 405}
<1>1. o \in OpType
  BY FileAssumption
<1> QED
  BY <1>1 DEF OpType

LEMMA DataTypes ==
  ASSUME NEW r \in Reqs, NEW o \in Ops, o.kind = "upload", NEW i \in PartsOf(o)
  PROVE  /\ o.parts[i].name \in Names \cup BadNames \cup {NoName}
         /\ o.parts[i].size \in Nat
         /\ Data(o, r, i) \in Seq(Unit)
         /\ Len(Data(o, r, i)) = o.parts[i].size + 1
<1> DEFINE n == o.parts[i].size
<1>1. o.parts[i] \in PartType
  BY OpTypes DEF PartsOf
<1>2. n \in Nat /\ o.parts[i].name \in Names \cup BadNames \cup {NoName}
  BY <1>1 DEF PartType
<1>3. /\ [k \in 1..n |-> r] \in Seq(Unit)
      /\ Len([k \in 1..n |-> r]) = n
  BY <1>2 DEF Unit
<1>4. "crlf" \in Unit
  BY DEF Unit
<1> QED
  BY <1>2, <1>3, <1>4 DEF Data

LEMMA WrittenType ==
  ASSUME NEW f \in Seq(Unit), NEW d \in Seq(Unit),
         NEW from \in Nat \ {0}, NEW to \in Nat, to <= Len(d)
  PROVE  Written(f, d, from, to) \in Seq(Unit)
<1> DEFINE len == IF to > Len(f) THEN to ELSE Len(f)
           e(k) == IF k \in from..to THEN d[k] ELSE IF k <= Len(f) THEN f[k] ELSE "zero"
<1>1. len \in Nat
  OBVIOUS
<1>2. ASSUME NEW k \in 1..len
      PROVE  e(k) \in Unit
  <2>1. CASE k \in from..to
    <3>1. k \in 1..Len(d)
      BY <2>1
    <3> QED
      BY <2>1, <3>1
  <2>2. CASE k \notin from..to /\ k <= Len(f)
    <3>1. k \in 1..Len(f)
      BY <2>2
    <3> QED
      BY <2>2, <3>1
  <2>3. CASE k \notin from..to /\ ~(k <= Len(f))
    BY <2>3 DEF Unit
  <2> QED
    BY <2>1, <2>2, <2>3
<1>3. [k \in 1..len |-> e(k)] \in Seq(Unit)
  BY <1>1, <1>2
<1> QED
  BY <1>3 DEF Written

LEMMA MoreRead ==
  ASSUME NEW f \in Seq(Unit), NEW b \in Seq(Unit), NEW to \in Nat,
         Len(b) < to, to <= Len(f)
  PROVE  /\ b \o SubSeq(f, Len(b) + 1, to) \in Seq(Unit)
         /\ Len(b \o SubSeq(f, Len(b) + 1, to)) = to
<1> DEFINE s == SubSeq(f, Len(b) + 1, to)
<1>1. Len(b) \in Nat /\ Len(f) \in Nat /\ Len(b) + 1 \in Int /\ to \in Int
  OBVIOUS
<1>2. \A k \in (Len(b) + 1)..to : f[k] \in Unit
  BY <1>1
<1>3. s \in Seq(Unit) /\ Len(s) = to - Len(b)
  BY <1>1, <1>2, SubSeqProperties
<1> HIDE DEF s
<1>4. b \o s \in Seq(Unit) /\ Len(b \o s) = Len(b) + Len(s)
  BY <1>3
<1>5. Len(b \o s) = to
  BY <1>1, <1>3, <1>4
<1> QED
  BY <1>4, <1>5 DEF s

LEMMA StatusType ==
  ASSUME NEW o, NEW done
  PROVE  UploadStatus(o, done) \in {200, 207, 500}
BY DEF UploadStatus

LEMMA RefusalType ==
  ASSUME NEW o \in Ops
  PROVE  /\ Refusal(o) \in {200, 400, 404, 405}
         /\ o.kind # "other" => Refusal(o) = 400
BY OpTypes DEF Refusal

LEMMA BadRequestName ==
  ASSUME NEW o \in Ops, ~BadRequest(o)
  PROVE  /\ o.kind # "other"
         /\ o.kind \in {"download", "delete"} => o.name \in Names
BY OpTypes DEF BadRequest

------------------------------------------------------------------------------
LEMMA InitFile == Init => FileInv
<1> SUFFICES ASSUME Init PROVE FileInv
  OBVIOUS
<1>1. OldFiles \cup {<<>>} \subseteq Seq(Unit)
  <2>1. Seq({"old"}) \subseteq Seq(Unit)
    BY DEF Unit
  <2>2. <<>> \in Seq(Unit)
    OBVIOUS
  <2> QED
    BY <2>1, <2>2, FileAssumption
<1>2. content \in [Names -> Seq(Unit)]
  BY <1>1 DEF Init
<1>3. \A n \in Names \ present : content[n] = <<>>
  BY DEF Init
<1>4. FileTypeOK
  BY <1>2, <1>3 DEF Init, FileTypeOK, PCs
<1>5. \A r \in Reqs : HandlerInv(r)
  BY DEF Init, HandlerInv
<1> QED
  BY <1>4, <1>5 DEF FileInv

\* A step of one request leaves the others where they are, and their files on the disk.
LEMMA OtherHandlers ==
  ASSUME FileInv, NEW r \in Reqs, op' = op,
         \A n \in present \ present' : Holders(n) = {},
         \A q \in Reqs \ {r} : pc'[q] = pc[q] /\ part'[q] = part[q] /\ body'[q] = body[q],
         HandlerInv(r)'
  PROVE  \A q \in Reqs : HandlerInv(q)'
<1> TAKE q \in Reqs
<1>1. CASE q = r
  BY <1>1
<1>2. CASE q # r
  <2>1. HandlerInv(q)
    BY DEF FileInv
  <2> QED
    <3>1. /\ pc'[q] = pc[q] /\ part'[q] = part[q] /\ body'[q] = body[q]
          /\ FileOf(q)' = FileOf(q)
      BY <1>2 DEF FileOf
    <3>2. ASSUME pc[q] \in {"write", "read"}
          PROVE  FileOf(q) \in present'
      <4>1. FileOf(q) \in present /\ q \in Holders(FileOf(q))
        BY <2>1, <3>2 DEF HandlerInv, Holders
      <4> QED
        BY <4>1
    <3> QED
      BY <2>1, <3>1, <3>2 DEF HandlerInv
<1> QED
  BY <1>1, <1>2

Statuses == {200, 207, 400, 404, 405, 500}

\* The part of FileTypeOK about the position and the answer of each request.
PlaceOK == /\ pc \in [Reqs -> PCs]
           /\ answer \in [Reqs -> {0, 200, 207, 400, 404, 405, 500}]
           /\ \A r \in Reqs : answer[r] # 0 <=> pc[r] = "done"

LEMMA StepGoes ==
  ASSUME FileInv, NEW r \in Reqs, NEW from \in PCs \ {"done"}, NEW to \in PCs \ {"done"},
         Step(r, from, to), UNCHANGED answer
  PROVE  /\ PlaceOK'
         /\ UNCHANGED <<op, process>>
         /\ pc[r] = from /\ pc'[r] = to
         /\ \A q \in Reqs \ {r} : pc'[q] = pc[q]
BY DEF FileInv, FileTypeOK, PlaceOK, Step

LEMMA StepReplies ==
  ASSUME FileInv, NEW r \in Reqs, NEW from \in PCs \ {"done"}, NEW status \in Statuses,
         Step(r, from, "done"), answer' = [answer EXCEPT ![r] = status]
  PROVE  /\ PlaceOK'
         /\ UNCHANGED <<op, process>>
         /\ pc[r] = from /\ pc'[r] = "done"
         /\ \A q \in Reqs \ {r} : pc'[q] = pc[q]
<1>1. pc' = [pc EXCEPT ![r] = "done"] /\ pc[r] = from /\ UNCHANGED <<op, process>>
  BY DEF Step
<1>2. /\ pc \in [Reqs -> PCs] /\ answer \in [Reqs -> {0, 200, 207, 400, 404, 405, 500}]
      /\ \A q \in Reqs : answer[q] # 0 <=> pc[q] = "done"
  BY DEF FileInv, FileTypeOK
<1>3. pc' \in [Reqs -> PCs] /\ answer' \in [Reqs -> {0, 200, 207, 400, 404, 405, 500}]
  BY <1>1, <1>2 DEF PCs, Statuses
<1>4. ASSUME NEW q \in Reqs
      PROVE  answer'[q] # 0 <=> pc'[q] = "done"
  BY <1>1, <1>2 DEF Statuses
<1> QED
  BY <1>1, <1>2, <1>3, <1>4 DEF PlaceOK

LEMMA GoesStep ==
  ASSUME FileInv, NEW r \in Reqs, NEW from \in PCs \ {"done"}, NEW to \in PCs \ {"done"},
         Goes(r, from, to)
  PROVE  /\ PlaceOK' /\ UNCHANGED <<op, process, met>>
         /\ pc[r] = from /\ pc'[r] = to
         /\ \A q \in Reqs \ {r} : pc'[q] = pc[q]
BY StepGoes DEF Goes

LEMMA ReplyStep ==
  ASSUME FileInv, NEW r \in Reqs, NEW from \in PCs \ {"done"}, NEW status \in Statuses,
         Reply(r, from, status)
  PROVE  /\ PlaceOK' /\ UNCHANGED <<op, process, met>>
         /\ pc[r] = from /\ pc'[r] = "done"
         /\ \A q \in Reqs \ {r} : pc'[q] = pc[q]
BY StepReplies DEF Reply

LEMMA BeginStep ==
  ASSUME FileInv, NEW r \in Reqs, Begin(r)
  PROVE  FileInv'
<1>1. /\ PlaceOK'
      /\ UNCHANGED <<op, process>>
      /\ pc[r] = "new"
      /\ pc'[r] \in {"ctor", "done"}
      /\ pc'[r] = "ctor" => ~BadRequest(op[r])
      /\ \A q \in Reqs \ {r} : pc'[q] = pc[q]
  <2>1. CASE BadRequest(op[r])
    <3>1. op[r] \in Ops
      BY DEF FileInv, FileTypeOK
    <3> QED
      BY <2>1, <3>1, StepReplies, RefusalType DEF Begin, PCs, Statuses
  <2>2. CASE ~BadRequest(op[r])
    BY <2>2, StepGoes DEF Begin, PCs
  <2> QED
    BY <2>1, <2>2
<1>2. met' \in [Reqs -> SUBSET Reqs]
  BY DEF Begin, FileInv, FileTypeOK, Active
<1>3. UNCHANGED <<disk, upload, read, listing>>
  BY DEF Begin
<1>4. FileTypeOK'
  BY <1>1, <1>2, <1>3 DEF FileInv, FileTypeOK, PlaceOK, disk, upload, read, listing
<1>5. HandlerInv(r)'
  BY <1>1, <1>3 DEF FileInv, HandlerInv, FileTypeOK, upload, read
<1> QED
  BY <1>1, <1>3, <1>4, <1>5, OtherHandlers DEF FileInv, disk, upload, read

LEMMA Constructing ==
  ASSUME FileInv, NEW r \in Reqs, Ensure(r) \/ MakeDir(r) \/ MakeDirThrows(r)
  PROVE  /\ op[r] \in Ops
         /\ op[r].kind \in {"upload", "download", "delete", "list"}
<1>1. op[r] \in Ops /\ ~BadRequest(op[r])
  BY DEF FileInv, FileTypeOK, HandlerInv, Ensure, MakeDir, MakeDirThrows, Goes, Step
<1> QED
  BY <1>1, OpTypes, BadRequestName

LEMMA ConstructStep ==
  ASSUME FileInv, NEW r \in Reqs, Ensure(r) \/ MakeDir(r) \/ MakeDirThrows(r)
  PROVE  FileInv'
<1> DEFINE w == Work[op[r].kind]
<1>1. /\ op[r] \in Ops
      /\ op[r].kind \in {"upload", "download", "delete", "list"}
  BY Constructing
<1>2. w \in {"part", "exists", "find", "list"}
  BY <1>1 DEF Work
<1>3. CASE Ensure(r) \/ MakeDir(r)
  <2>1. PICK from \in {"ctor", "mkdir"}, to \in {w, "mkdir"} : Goes(r, from, to)
    BY <1>3 DEF Ensure, MakeDir
  <2>2. /\ PlaceOK'
        /\ UNCHANGED <<op, process, met>>
        /\ pc[r] = from /\ pc'[r] = to
        /\ \A q \in Reqs \ {r} : pc'[q] = pc[q]
    BY <1>2, <2>1, StepGoes DEF Goes, PCs
  <2>3. /\ UNCHANGED <<present, content, upload, read, listing>>
        /\ dir' \in BOOLEAN
    BY <1>3 DEF Ensure, MakeDir, FileInv, FileTypeOK, disk
  <2>4. FileTypeOK'
    BY <2>2, <2>3 DEF FileInv, FileTypeOK, PlaceOK, upload, read, listing
  <2>5. HandlerInv(r)
    BY DEF FileInv
  <2>6. ~BadRequest(op[r]) /\ body[r] = <<>>
    BY <2>2, <2>5 DEF HandlerInv
  <2>7. op[r].kind \in {"download", "delete"} => op[r].name \in Names
    BY <1>1, <2>6, BadRequestName
  <2>8. /\ w = "part" => op[r].kind = "upload"
        /\ w = "exists" => op[r].kind = "download"
        /\ w = "find" => op[r].kind = "delete"
        /\ w = "list" => op[r].kind = "list"
    BY <1>1 DEF Work
  <2>9. HandlerInv(r)'
    BY <1>2, <2>2, <2>3, <2>6, <2>7, <2>8 DEF HandlerInv, read
  <2> QED
    BY <2>2, <2>3, <2>4, <2>9, OtherHandlers DEF FileInv, upload, read
<1>4. CASE MakeDirThrows(r)
  <2>1. process' = "terminated" /\ UNCHANGED <<disk, op, pc, upload, read, listing, answer, met>>
    BY <1>4 DEF MakeDirThrows
  <2>2. FileTypeOK'
    BY <2>1 DEF FileInv, FileTypeOK, disk, upload, read, listing
  <2>3. \A q \in Reqs : HandlerInv(q)'
    BY <2>1 DEF FileInv, HandlerInv, FileOf, disk, upload, read
  <2> QED
    BY <2>2, <2>3 DEF FileInv
<1> QED
  BY <1>3, <1>4

------------------------------------------------------------------------------
\* The part of FileTypeOK about the disk and the data of the handlers.
DataOK == /\ dir \in BOOLEAN
          /\ present \subseteq Names
          /\ content \in [Names -> Seq(Unit)]
          /\ part \in [Reqs -> Nat] /\ pos \in [Reqs -> Nat] /\ size \in [Reqs -> Nat]
          /\ saved \in [Reqs -> SUBSET Nat]
          /\ body \in [Reqs -> Seq(Unit)]
          /\ todo \in [Reqs -> SUBSET Names] /\ listed \in [Reqs -> SUBSET Names]
          /\ \A n \in Names \ present : content[n] = <<>>
          /\ \A r \in Reqs : Len(body[r]) <= size[r]

LEMMA FileParts ==
  ASSUME FileInv
  PROVE  /\ DataOK /\ PlaceOK
         /\ \A r \in Reqs : HandlerInv(r) /\ op[r] \in Ops
BY DEF FileInv, FileTypeOK, DataOK, PlaceOK

LEMMA InvFromParts ==
  ASSUME FileInv, NEW r \in Reqs, PlaceOK', DataOK', UNCHANGED <<op, process, met>>,
         \A n \in present \ present' : Holders(n) = {},
         \A q \in Reqs \ {r} : pc'[q] = pc[q] /\ part'[q] = part[q] /\ body'[q] = body[q],
         HandlerInv(r)'
  PROVE  FileInv'
<1>1. FileTypeOK'
  BY DEF FileInv, FileTypeOK, PlaceOK, DataOK
<1> QED
  BY <1>1, OtherHandlers DEF FileInv

------------------------------------------------------------------------------
LEMMA UploadStep ==
  ASSUME FileInv, NEW r \in Reqs, Upload(r)
  PROVE  FileInv'
<1>a. HandlerInv(r) /\ op[r] \in Ops
  BY FileParts
<1>d. DataOK
  BY FileParts
<1>b. pc[r] \in {"part", "write"} => op[r].kind = "upload" /\ op[r].parts \in Seq(PartType)
  BY <1>a, OpTypes DEF HandlerInv
<1>1. CASE PartFails(r)
  <2>1. /\ PlaceOK' /\ UNCHANGED <<op, process, met>>
        /\ pc[r] = "part" /\ pc'[r] = "part"
        /\ \A q \in Reqs \ {r} : pc'[q] = pc[q]
    BY <1>1, GoesStep DEF PartFails, PCs
  <2>2. /\ part' = [part EXCEPT ![r] = @ + 1]
        /\ UNCHANGED <<disk, saved, pos, read, listing>>
    BY <1>1 DEF PartFails
  <2>3. DataOK'
    BY <1>d, <2>2 DEF DataOK, disk, read, listing
  <2>4. HandlerInv(r)'
    BY <2>1, <2>2, <1>a, <1>b DEF HandlerInv, read
  <2> QED
    BY <1>d, <2>1, <2>2, <2>3, <2>4, InvFromParts DEF DataOK, disk, read
<1>2. CASE OpenForWrite(r)
  <2>1. /\ PlaceOK' /\ UNCHANGED <<op, process, met>>
        /\ pc[r] = "part" /\ pc'[r] = "write"
        /\ \A q \in Reqs \ {r} : pc'[q] = pc[q]
    BY <1>2, GoesStep DEF OpenForWrite, PCs
  <2>2. /\ part[r] \in PartsOf(op[r]) /\ FileOf(r) \in Names
        /\ present' = present \cup {FileOf(r)}
        /\ content' = [content EXCEPT ![FileOf(r)] = <<>>]
        /\ pos' = [pos EXCEPT ![r] = 0]
        /\ UNCHANGED <<dir, part, saved, read, listing>>
    BY <1>2 DEF OpenForWrite
  <2>3. DataOK'
    BY <1>d, <2>2 DEF DataOK, read, listing
  <2>4. HandlerInv(r)'
    BY <2>1, <2>2, <1>a, <1>b DEF HandlerInv, FileOf, read
  <2> QED
    BY <2>1, <2>2, <2>3, <2>4, InvFromParts DEF read
<1>3. CASE WriteSome(r)
  <2>1. /\ PlaceOK' /\ UNCHANGED <<op, process, met>>
        /\ pc[r] = "write" /\ pc'[r] = "write"
        /\ \A q \in Reqs \ {r} : pc'[q] = pc[q]
    BY <1>3, GoesStep DEF WriteSome, PCs
  <2> DEFINE n == FileOf(r)
             d == Data(op[r], r, part[r])
  <2>2. PICK to \in (pos[r] + 1)..Len(d) :
          /\ content' = [content EXCEPT ![n] = Written(@, d, pos[r] + 1, to)]
          /\ pos' = [pos EXCEPT ![r] = to]
    BY <1>3 DEF WriteSome
  <2>3. UNCHANGED <<dir, present, part, saved, read, listing>>
    BY <1>3 DEF WriteSome
  <2>4. part[r] \in PartsOf(op[r]) /\ n \in Names
    BY <1>a, <2>1 DEF HandlerInv
  <2>5. d \in Seq(Unit) /\ Len(d) \in Nat
    BY <1>a, <1>b, <2>1, <2>4, DataTypes
  <2>6. n \in present
    BY <1>a, <2>1 DEF HandlerInv
  <2>7. pos[r] + 1 \in Nat \ {0} /\ to \in Nat /\ to <= Len(d) /\ content[n] \in Seq(Unit)
    BY <1>d, <2>4, <2>5 DEF DataOK
  <2>8. Written(content[n], d, pos[r] + 1, to) \in Seq(Unit)
    BY <2>5, <2>7, WrittenType
  <2>9. DataOK'
    BY <1>d, <2>2, <2>3, <2>4, <2>6, <2>7, <2>8 DEF DataOK, read, listing
  <2>10. HandlerInv(r)'
    BY <2>1, <2>3, <1>a, <1>b DEF HandlerInv, FileOf, read
  <2> QED
    BY <2>1, <2>3, <2>9, <2>10, InvFromParts DEF read
<1>4. CASE CloseSaved(r)
  <2>1. /\ PlaceOK' /\ UNCHANGED <<op, process, met>>
        /\ pc[r] = "write" /\ pc'[r] = "part"
        /\ \A q \in Reqs \ {r} : pc'[q] = pc[q]
    BY <1>4, GoesStep DEF CloseSaved, PCs
  <2>2. /\ saved' = [saved EXCEPT ![r] = @ \cup {part[r]}]
        /\ part' = [part EXCEPT ![r] = @ + 1]
        /\ UNCHANGED <<disk, pos, read, listing>>
    BY <1>4 DEF CloseSaved
  <2>3. DataOK'
    BY <1>d, <2>2 DEF DataOK, disk, read, listing
  <2>4. HandlerInv(r)'
    BY <2>1, <2>2, <1>a, <1>b DEF HandlerInv, read
  <2> QED
    BY <1>d, <2>1, <2>2, <2>3, <2>4, InvFromParts DEF DataOK, disk, read
<1>5. CASE ReplyUpload(r)
  <2>1. UploadStatus(op[r], saved[r]) \in Statuses
    BY StatusType DEF Statuses
  <2>2. /\ PlaceOK' /\ UNCHANGED <<op, process, met>>
        /\ pc[r] = "part" /\ pc'[r] = "done"
        /\ \A q \in Reqs \ {r} : pc'[q] = pc[q]
    BY <1>5, <2>1, ReplyStep DEF ReplyUpload, PCs
  <2>3. UNCHANGED <<disk, upload, read, listing>>
    BY <1>5 DEF ReplyUpload
  <2>4. DataOK'
    BY <1>d, <2>3 DEF DataOK, disk, upload, read, listing
  <2>5. HandlerInv(r)'
    BY <2>2 DEF HandlerInv
  <2> QED
    BY <2>2, <2>3, <2>4, <2>5, InvFromParts DEF disk, upload, read
<1> QED
  BY <1>1, <1>2, <1>3, <1>4, <1>5 DEF Upload

LEMMA DownloadStep ==
  ASSUME FileInv, NEW r \in Reqs, Download(r)
  PROVE  FileInv'
<1>a. HandlerInv(r)
  BY FileParts
<1>d. DataOK
  BY FileParts
<1>b. pc[r] \in {"exists", "open", "read"} =>
        op[r].kind = "download" /\ op[r].name \in Names /\ FileOf(r) = op[r].name
  BY <1>a DEF HandlerInv, FileOf
<1>c. ASSUME pc[r] = "read"
      PROVE  /\ content[FileOf(r)] \in Seq(Unit) /\ body[r] \in Seq(Unit)
             /\ size[r] \in Nat /\ Len(body[r]) <= size[r]
  BY <1>d, <1>b, <1>c DEF DataOK
<1>1. CASE CheckExists(r) \/ OpenFails(r) \/ (ReadEnds(r) /\ Len(body[r]) = size[r])
  <2>1. /\ PlaceOK' /\ UNCHANGED <<op, process, met>>
        /\ \/ pc[r] = "exists" /\ pc'[r] = "open"
           \/ pc[r] \in {"exists", "open", "read"} /\ pc'[r] = "done"
        /\ \A q \in Reqs \ {r} : pc'[q] = pc[q]
    <3>1. CASE Goes(r, "exists", "open")
      BY <3>1, GoesStep DEF PCs
    <3>2. CASE \E from \in {"exists", "open", "read"}, status \in {200, 404, 500} :
                 Reply(r, from, status)
      BY <3>2, ReplyStep DEF PCs, Statuses
    <3> QED
      BY <1>1, <3>1, <3>2 DEF CheckExists, OpenFails, ReadEnds
  <2>2. UNCHANGED <<disk, upload, read, listing>>
    BY <1>1 DEF CheckExists, OpenFails, ReadEnds, read
  <2>3. DataOK'
    BY <1>d, <2>2 DEF DataOK, disk, upload, read, listing
  <2>4. HandlerInv(r)'
    BY <2>1, <2>2, <1>a, <1>b DEF HandlerInv, read
  <2> QED
    BY <2>1, <2>2, <2>3, <2>4, InvFromParts DEF disk, upload, read
<1>2. CASE OpenForRead(r)
  <2>1. /\ PlaceOK' /\ UNCHANGED <<op, process, met>>
        /\ pc[r] = "open" /\ pc'[r] = "read"
        /\ \A q \in Reqs \ {r} : pc'[q] = pc[q]
    BY <1>2, GoesStep DEF OpenForRead, PCs
  <2>2. /\ FileOf(r) \in present
        /\ size' = [size EXCEPT ![r] = Len(content[FileOf(r)])]
        /\ UNCHANGED <<disk, upload, body, listing>>
    BY <1>2 DEF OpenForRead
  <2>3. body[r] = <<>>
    BY <1>a, <2>1 DEF HandlerInv
  <2>4. Len(content[FileOf(r)]) \in Nat
    BY <1>d, <1>b, <2>1 DEF DataOK
  <2>5. DataOK'
    BY <1>d, <2>2, <2>3, <2>4 DEF DataOK, disk, upload, listing
  <2>6. HandlerInv(r)'
    BY <2>1, <2>2, <1>b DEF HandlerInv, FileOf, disk
  <2> QED
    BY <2>1, <2>2, <2>5, <2>6, InvFromParts DEF disk, upload
<1>3. CASE ReadSome(r)
  <2>1. /\ PlaceOK' /\ UNCHANGED <<op, process, met>>
        /\ pc[r] = "read" /\ pc'[r] = "read"
        /\ \A q \in Reqs \ {r} : pc'[q] = pc[q]
    BY <1>3, GoesStep DEF ReadSome, PCs
  <2> DEFINE f == content[FileOf(r)]
             done == Len(body[r])
  <2>2. PICK to \in (done + 1)..size[r] :
          /\ to <= Len(f)
          /\ body' = [body EXCEPT ![r] = @ \o SubSeq(f, done + 1, to)]
    BY <1>3 DEF ReadSome
  <2>3. UNCHANGED <<disk, upload, size, listing>>
    BY <1>3 DEF ReadSome
  <2>4. to \in Nat /\ done < to /\ to <= size[r]
    BY <1>c, <2>1, <2>2
  <2>5. /\ body[r] \o SubSeq(f, done + 1, to) \in Seq(Unit)
        /\ Len(body[r] \o SubSeq(f, done + 1, to)) = to
    BY <1>c, <2>1, <2>2, <2>4, MoreRead
  <2>6. DataOK'
    BY <1>d, <1>c, <2>1, <2>2, <2>3, <2>4, <2>5 DEF DataOK, disk, upload, listing
  <2>7. HandlerInv(r)'
    BY <2>1, <2>3, <1>a, <1>b DEF HandlerInv, FileOf, disk
  <2> QED
    BY <1>d, <2>1, <2>2, <2>3, <2>6, <2>7, InvFromParts DEF DataOK, disk, upload
<1>4. CASE ReadEnds(r) /\ Len(body[r]) # size[r]
  <2>1. /\ PlaceOK' /\ UNCHANGED <<op, process, met>>
        /\ pc[r] = "read" /\ pc'[r] = "done"
        /\ \A q \in Reqs \ {r} : pc'[q] = pc[q]
    BY <1>4, ReplyStep DEF ReadEnds, PCs, Statuses
  <2>2. /\ body' = [body EXCEPT ![r] = <<>>]
        /\ UNCHANGED <<disk, upload, size, listing>>
    BY <1>4 DEF ReadEnds
  <2>3. DataOK'
    BY <1>d, <1>c, <2>1, <2>2 DEF DataOK, disk, upload, listing
  <2>4. HandlerInv(r)'
    BY <2>1 DEF HandlerInv
  <2> QED
    BY <1>d, <2>1, <2>2, <2>3, <2>4, InvFromParts DEF DataOK, disk, upload
<1> QED
  BY <1>1, <1>2, <1>3, <1>4 DEF Download

LEMMA DeleteStep ==
  ASSUME FileInv, NEW r \in Reqs, Find(r) \/ Remove(r)
  PROVE  FileInv'
<1>a. HandlerInv(r)
  BY FileParts
<1>d. DataOK
  BY FileParts
<1>b. pc[r] \in {"find", "remove"} =>
        op[r].kind = "delete" /\ op[r].name \in Names /\ FileOf(r) = op[r].name
  BY <1>a DEF HandlerInv, FileOf
<1>1. /\ PlaceOK' /\ UNCHANGED <<op, process, met>>
      /\ \/ pc[r] = "find" /\ pc'[r] = "remove"
         \/ pc[r] \in {"find", "remove"} /\ pc'[r] = "done"
      /\ \A q \in Reqs \ {r} : pc'[q] = pc[q]
  <2>1. CASE Goes(r, "find", "remove")
    BY <2>1, GoesStep DEF PCs
  <2>2. CASE \E from \in {"find", "remove"}, status \in {200, 500} : Reply(r, from, status)
    BY <2>2, ReplyStep DEF PCs, Statuses
  <2> QED
    BY <2>1, <2>2 DEF Find, Remove
<1>2. /\ UNCHANGED <<dir, upload, read, listing>>
      /\ \/ UNCHANGED <<present, content>>
         \/ /\ Holders(FileOf(r)) = {}
            /\ present' = present \ {FileOf(r)}
            /\ content' = [content EXCEPT ![FileOf(r)] = <<>>]
  BY DEF Find, Remove, disk
<1>3. DataOK'
  <2>1. CASE UNCHANGED <<present, content>>
    BY <1>d, <1>2, <2>1 DEF DataOK, upload, read, listing
  <2>2. CASE /\ present' = present \ {FileOf(r)}
             /\ content' = [content EXCEPT ![FileOf(r)] = <<>>]
    <3>1. FileOf(r) \in Names
      BY <1>1, <1>b
    <3>2. /\ content' \in [Names -> Seq(Unit)]
          /\ \A n \in Names \ present' : content'[n] = <<>>
      BY <1>d, <2>2, <3>1 DEF DataOK
    <3> QED
      BY <1>d, <1>2, <2>2, <3>2 DEF DataOK, upload, read, listing
  <2> QED
    BY <1>2, <2>1, <2>2
<1>4. \A n \in present \ present' : Holders(n) = {}
  BY <1>2
<1>5. HandlerInv(r)'
  BY <1>1, <1>2, <1>a, <1>b DEF HandlerInv, read
<1> QED
  BY <1>1, <1>2, <1>3, <1>4, <1>5, InvFromParts DEF upload, read

LEMMA ListStep ==
  ASSUME FileInv, NEW r \in Reqs, ListOpen(r) \/ ListEntry(r) \/ ListEnds(r)
  PROVE  FileInv'
<1>a. HandlerInv(r)
  BY FileParts
<1>d. DataOK
  BY FileParts
<1>1. /\ PlaceOK' /\ UNCHANGED <<op, process, met>>
      /\ pc[r] \in {"list", "entry"} /\ pc'[r] \in {"entry", "done"}
      /\ \A q \in Reqs \ {r} : pc'[q] = pc[q]
  <2>1. CASE ListOpen(r) \/ ListEntry(r)
    BY <2>1, GoesStep DEF ListOpen, ListEntry, PCs
  <2>2. CASE ListEnds(r)
    BY <2>2, ReplyStep DEF ListEnds, PCs, Statuses
  <2> QED
    BY <2>1, <2>2
<1>2. UNCHANGED <<disk, upload, read>>
  BY DEF ListOpen, ListEntry, ListEnds
<1>3. todo' \in [Reqs -> SUBSET Names] /\ listed' \in [Reqs -> SUBSET Names]
  <2>1. CASE ListOpen(r) \/ ListEnds(r)
    BY <1>d, <2>1 DEF ListOpen, ListEnds, DataOK, listing
  <2>2. CASE ListEntry(r)
    <3>1. PICK n \in todo[r] \cap present : /\ todo' = [todo EXCEPT ![r] = @ \ {n}]
                                          /\ listed' = [listed EXCEPT ![r] = @ \cup {n}]
      BY <2>2 DEF ListEntry
    <3> QED
      BY <1>d, <3>1 DEF DataOK
  <2> QED
    BY <2>1, <2>2
<1>4. DataOK'
  BY <1>d, <1>2, <1>3 DEF DataOK, disk, upload, read
<1>5. HandlerInv(r)'
  BY <1>1, <1>2, <1>a DEF HandlerInv, read
<1> QED
  BY <1>1, <1>2, <1>4, <1>5, InvFromParts DEF disk, upload, read

------------------------------------------------------------------------------
LEMMA FileInvInductive == FileInv /\ [Next]_vars => FileInv'
<1> SUFFICES ASSUME FileInv, [Next]_vars PROVE FileInv'
  OBVIOUS
<1>1. CASE UNCHANGED vars
  BY <1>1 DEF FileInv, FileTypeOK, HandlerInv, FileOf, vars, disk, upload, read, listing
<1>2. CASE \E r \in Reqs : Begin(r) \/ Handle(r)
  <2>1. PICK r \in Reqs : Begin(r) \/ Handle(r)
    BY <1>2
  <2> QED
    BY <2>1, BeginStep, ConstructStep, UploadStep, DownloadStep, DeleteStep, ListStep
       DEF Handle
<1>3. CASE ProcessEnds
  BY <1>3 DEF ProcessEnds, FileInv, FileTypeOK, HandlerInv, FileOf, disk, upload, read, listing
<1> QED
  BY <1>1, <1>2, <1>3 DEF Next

THEOREM FileInvariant == SafeSpec => []FileInv
BY InitFile, FileInvInductive, PTL DEF SafeSpec

\* Whatever the interleaving of the threads and whatever fails, a download never takes
\* more than the size it was told, a request is answered exactly when its handler has
\* returned, and only files that exist have content.
THEOREM FileTypeCorrect == SafeSpec => []FileTypeOK
<1>1. FileInv => FileTypeOK
  BY DEF FileInv
<1> QED
  BY <1>1, FileInvariant, PTL

------------------------------------------------------------------------------
\* As long as nobody uploads n: while the file exists nobody has removed it, and no two
\* requests have.
RemovalInv(n) == (\A u \in Uploads(n) : pc[u] = "new") =>
  /\ n \in present => \A r \in Deletes(n) : answer[r] # 200
  /\ \A q, r \in Deletes(n) : answer[q] = 200 /\ answer[r] = 200 => q = r

\* What a step leaves alone; a handler never becomes new again.
Frame(r) == /\ op' = op
            /\ pc'[r] # "new"
            /\ \A q \in Reqs \ {r} : pc'[q] = pc[q] /\ answer'[q] = answer[q]

LEMMA FrameOfStep ==
  ASSUME FileInv, NEW r \in Reqs, NEW from, NEW to \in PCs \ {"new"},
         Step(r, from, to),
         \A q \in Reqs \ {r} : answer'[q] = answer[q]
  PROVE  Frame(r)
BY DEF FileInv, FileTypeOK, Step, Frame

LEMMA FrameOfGoes ==
  ASSUME FileInv, NEW r \in Reqs, NEW from, NEW to \in PCs \ {"new"}, Goes(r, from, to)
  PROVE  Frame(r) /\ UNCHANGED answer /\ pc[r] = from
BY FrameOfStep DEF Goes, Step

LEMMA FrameOfReply ==
  ASSUME FileInv, NEW r \in Reqs, NEW from, NEW status, Reply(r, from, status)
  PROVE  Frame(r) /\ answer'[r] = status /\ pc[r] = from
<1>1. Step(r, from, "done") /\ pc[r] = from /\ answer' = [answer EXCEPT ![r] = status]
  BY DEF Reply, Step
<1>2. answer'[r] = status /\ \A q \in Reqs \ {r} : answer'[q] = answer[q]
  BY <1>1 DEF FileInv, FileTypeOK
<1>3. "done" \in PCs \ {"new"}
  BY DEF PCs
<1> QED
  BY <1>1, <1>2, <1>3, FrameOfStep

\* A step that neither creates nor removes a file, and tells nobody that it removed one.
Quiet(r) == /\ present' = present
            /\ op[r].kind = "delete" => answer'[r] = answer[r] \/ answer'[r] # 200

LEMMA QuietBegin ==
  ASSUME FileInv, NEW r \in Reqs, Begin(r)
  PROVE  Frame(r) /\ Quiet(r)
<1>1. present' = present
  BY DEF Begin, disk
<1>2. CASE BadRequest(op[r])
  <2>1. Step(r, "new", "done") /\ answer' = [answer EXCEPT ![r] = Refusal(op[r])]
    BY <1>2 DEF Begin
  <2> QED
    <3>1. answer'[r] = Refusal(op[r]) /\ \A q \in Reqs \ {r} : answer'[q] = answer[q]
      BY <2>1 DEF FileInv, FileTypeOK
    <3>2. Frame(r)
      BY <2>1, <3>1, FrameOfStep DEF PCs
    <3>3. op[r] \in Ops
      BY DEF FileInv, FileTypeOK
    <3>4. op[r].kind = "delete" => answer'[r] # 200
      BY <3>1, <3>3, RefusalType
    <3> QED
      BY <1>1, <3>2, <3>4 DEF Quiet
<1>3. CASE ~BadRequest(op[r])
  <2>1. Step(r, "new", "ctor") /\ UNCHANGED answer
    BY <1>3 DEF Begin
  <2> QED
    BY <1>1, <2>1, FrameOfStep DEF PCs, Quiet
<1> QED
  BY <1>2, <1>3

LEMMA QuietConstruct ==
  ASSUME FileInv, NEW r \in Reqs, Ensure(r) \/ MakeDir(r) \/ MakeDirThrows(r)
  PROVE  Frame(r) /\ Quiet(r)
<1>1. op[r].kind \in {"upload", "download", "delete", "list"}
  BY Constructing
<1>2. Work[op[r].kind] \in PCs \ {"new"}
  BY <1>1 DEF Work, PCs
<1>3. CASE Ensure(r) \/ MakeDir(r)
  <2>1. present' = present
    BY <1>3 DEF Ensure, MakeDir, disk
  <2>2. \E from, to \in PCs \ {"new"} : Goes(r, from, to)
    BY <1>2, <1>3 DEF Ensure, MakeDir, PCs
  <2> QED
    BY <2>1, <2>2, FrameOfGoes DEF Quiet
<1>4. CASE MakeDirThrows(r)
  BY <1>4 DEF MakeDirThrows, Frame, Quiet, disk
<1> QED
  BY <1>3, <1>4

LEMMA QuietUpload ==
  ASSUME FileInv, NEW r \in Reqs, Upload(r), ~OpenForWrite(r)
  PROVE  Frame(r) /\ Quiet(r)
<1>1. HandlerInv(r)
  BY DEF FileInv
<1>2. present' = present
  BY DEF Upload, PartFails, WriteSome, CloseSaved, ReplyUpload, disk
<1>3. CASE PartFails(r) \/ WriteSome(r) \/ CloseSaved(r)
  <2>1. \E from, to \in PCs \ {"new"} : Goes(r, from, to)
    BY <1>3 DEF PartFails, WriteSome, CloseSaved, PCs
  <2> QED
    BY <1>2, <2>1, FrameOfGoes DEF Quiet
<1>4. CASE ReplyUpload(r)
  <2>1. Reply(r, "part", UploadStatus(op[r], saved[r]))
    BY <1>4 DEF ReplyUpload
  <2>2. Frame(r) /\ pc[r] = "part"
    BY <2>1, FrameOfReply
  <2> QED
    BY <1>1, <1>2, <2>2 DEF Quiet, HandlerInv
<1> QED
  BY <1>3, <1>4 DEF Upload

LEMMA QuietDownload ==
  ASSUME FileInv, NEW r \in Reqs, Download(r)
  PROVE  Frame(r) /\ Quiet(r)
<1>1. HandlerInv(r)
  BY DEF FileInv
<1>2. present' = present
  BY DEF Download, CheckExists, OpenForRead, OpenFails, ReadSome, ReadEnds, disk
<1>3. CASE \E from, to \in PCs \ {"new"} : Goes(r, from, to)
  BY <1>2, <1>3, FrameOfGoes DEF Quiet
<1>4. CASE \E from \in {"exists", "open", "read"}, status \in {200, 404, 500} : Reply(r, from, status)
  BY <1>1, <1>2, <1>4, FrameOfReply DEF Quiet, HandlerInv
<1>5. CASE CheckExists(r) \/ OpenFails(r) \/ ReadEnds(r)
  BY <1>3, <1>4, <1>5 DEF CheckExists, OpenFails, ReadEnds, PCs
<1>6. CASE OpenForRead(r) \/ ReadSome(r)
  BY <1>3, <1>6 DEF OpenForRead, ReadSome, PCs
<1> QED
  BY <1>5, <1>6 DEF Download

LEMMA QuietList ==
  ASSUME FileInv, NEW r \in Reqs, ListOpen(r) \/ ListEntry(r) \/ ListEnds(r)
  PROVE  Frame(r) /\ Quiet(r)
<1>1. HandlerInv(r)
  BY DEF FileInv
<1>2. present' = present
  BY DEF ListOpen, ListEntry, ListEnds, disk
<1>3. CASE ListOpen(r) \/ ListEntry(r)
  <2>1. \E from, to \in PCs \ {"new"} : Goes(r, from, to)
    BY <1>3 DEF ListOpen, ListEntry, PCs
  <2> QED
    BY <1>2, <2>1, FrameOfGoes DEF Quiet
<1>4. CASE ListEnds(r)
  <2>1. Reply(r, "entry", 200)
    BY <1>4 DEF ListEnds
  <2> QED
    BY <1>1, <1>2, <2>1, FrameOfReply DEF Quiet, HandlerInv
<1> QED
  BY <1>3, <1>4

LEMMA RemovalAfterQuiet ==
  ASSUME FileInv, NEW n \in Names, RemovalInv(n), NEW r \in Reqs, Frame(r), Quiet(r)
  PROVE  RemovalInv(n)'
<1>1. Uploads(n)' = Uploads(n) /\ Deletes(n)' = Deletes(n)
  BY DEF Frame, Uploads, Deletes
<1>2. (\A u \in Uploads(n) : pc'[u] = "new") => (\A u \in Uploads(n) : pc[u] = "new")
  BY DEF Frame, Uploads
<1>3. \A q \in Deletes(n) : answer'[q] = 200 => answer[q] = 200
  BY DEF Frame, Quiet, Deletes
<1> QED
  BY <1>1, <1>2, <1>3 DEF RemovalInv, Quiet

LEMMA RemovalAfterOpen ==
  ASSUME FileInv, NEW n \in Names, RemovalInv(n), NEW r \in Reqs, OpenForWrite(r)
  PROVE  RemovalInv(n)'
<1>1. /\ part[r] \in PartsOf(op[r]) /\ FileOf(r) \in Names
      /\ present' = present \cup {FileOf(r)}
      /\ Goes(r, "part", "write")
  BY DEF OpenForWrite
<1>2. Frame(r) /\ UNCHANGED answer /\ op[r].kind = "upload"
  BY <1>1, FrameOfGoes DEF PCs, FileInv, HandlerInv
<1>3. Uploads(n)' = Uploads(n) /\ Deletes(n)' = Deletes(n)
  BY <1>2 DEF Frame, Uploads, Deletes
<1>4. (\A u \in Uploads(n) : pc'[u] = "new") => (\A u \in Uploads(n) : pc[u] = "new")
  BY <1>2 DEF Frame, Uploads
<1>5. CASE FileOf(r) = n
  <2>1. r \in Uploads(n)
    BY <1>1, <1>2, <1>5 DEF Uploads, Changes, FileOf
  <2> QED
    BY <1>2, <1>3, <2>1 DEF RemovalInv, Frame
<1>6. CASE FileOf(r) # n
  BY <1>1, <1>2, <1>3, <1>4, <1>6 DEF RemovalInv
<1> QED
  BY <1>5, <1>6

LEMMA RemovalAfterDelete ==
  ASSUME FileInv, NEW n \in Names, RemovalInv(n), NEW r \in Reqs, Find(r) \/ Remove(r)
  PROVE  RemovalInv(n)'
<1>1. HandlerInv(r)
  BY DEF FileInv
<1>2. CASE \/ Find(r)
           \/ Reply(r, "remove", 500) /\ UNCHANGED present
  <2>1. present' = present
    BY <1>2 DEF Find, disk
  <2>2. CASE Goes(r, "find", "remove")
    BY <2>1, <2>2, FrameOfGoes, RemovalAfterQuiet DEF Quiet, PCs
  <2>3. CASE Reply(r, "find", 500) \/ Reply(r, "remove", 500)
    BY <2>1, <2>3, FrameOfReply, RemovalAfterQuiet DEF Quiet
  <2> QED
    BY <1>2, <2>2, <2>3 DEF Find
<1>3. CASE /\ Reply(r, "remove", 200)
           /\ FileOf(r) \in present
           /\ present' = present \ {FileOf(r)}
  <2>1. Frame(r) /\ answer'[r] = 200 /\ pc[r] = "remove"
    BY <1>3, FrameOfReply
  <2>2. op[r].kind = "delete" /\ FileOf(r) = op[r].name
    BY <1>1, <2>1 DEF HandlerInv, FileOf
  <2>3. Uploads(n)' = Uploads(n) /\ Deletes(n)' = Deletes(n)
    BY <2>1 DEF Frame, Uploads, Deletes
  <2>4. (\A u \in Uploads(n) : pc'[u] = "new") => (\A u \in Uploads(n) : pc[u] = "new")
    BY <2>1 DEF Frame, Uploads
  <2>5. CASE FileOf(r) = n
    <3>1. \A q \in Deletes(n) : q # r => answer'[q] = answer[q]
      BY <2>1 DEF Frame, Deletes
    <3> QED
      BY <1>3, <2>3, <2>4, <2>5, <3>1 DEF RemovalInv
  <2>6. CASE FileOf(r) # n
    <3>1. r \notin Deletes(n)
      BY <2>2, <2>6 DEF Deletes, Changes
    <3>2. \A q \in Deletes(n) : answer'[q] = answer[q]
      BY <2>1, <3>1 DEF Frame, Deletes
    <3> QED
      BY <1>3, <2>3, <2>4, <2>6, <3>2 DEF RemovalInv
  <2> QED
    BY <2>5, <2>6
<1>4. CASE Remove(r)
  <2>1. CASE Reply(r, "remove", 500) /\ UNCHANGED present
    BY <1>2, <2>1
  <2>2. CASE Reply(r, "remove", 200) /\ FileOf(r) \in present /\ present' = present \ {FileOf(r)}
    BY <1>3, <2>2
  <2> QED
    BY <1>4, <2>1, <2>2 DEF Remove
<1>5. CASE Find(r)
  BY <1>2, <1>5
<1> QED
  BY <1>4, <1>5

LEMMA RemovalInductive ==
  ASSUME NEW n \in Names, FileInv, RemovalInv(n), [Next]_vars
  PROVE  RemovalInv(n)'
<1>1. CASE UNCHANGED vars
  BY <1>1 DEF RemovalInv, Uploads, Deletes, vars, disk
<1>2. CASE \E r \in Reqs : Begin(r) \/ Handle(r)
  <2>1. PICK r \in Reqs : Begin(r) \/ Handle(r)
    BY <1>2
  <2>2. CASE OpenForWrite(r)
    BY <2>2, RemovalAfterOpen
  <2>3. CASE Find(r) \/ Remove(r)
    BY <2>3, RemovalAfterDelete
  <2>4. CASE ~OpenForWrite(r) /\ ~Find(r) /\ ~Remove(r)
    <3>1. Frame(r) /\ Quiet(r)
      BY <2>1, <2>4, QuietBegin, QuietConstruct, QuietUpload, QuietDownload, QuietList DEF Handle
    <3> QED
      BY <3>1, RemovalAfterQuiet
  <2> QED
    BY <2>2, <2>3, <2>4
<1>3. CASE ProcessEnds
  BY <1>3 DEF ProcessEnds, RemovalInv, Uploads, Deletes, disk
<1> QED
  BY <1>1, <1>2, <1>3 DEF Next

\* A file is removed once: however the checks and removals of any number of threads
\* interleave, at most one request to delete a file that nobody uploads is told it did.
THEOREM RemovedOnceHolds == SafeSpec => []RemovedOnce
<1> DEFINE Inv == FileInv /\ \A n \in Names : RemovalInv(n)
<1>1. Init => Inv
  <2>1. Init => \A n \in Names : RemovalInv(n)
    BY DEF Init, RemovalInv, Deletes
  <2> QED
    BY <2>1, InitFile
<1>2. Inv /\ [Next]_vars => Inv'
  BY FileInvInductive, RemovalInductive
<1>3. Inv => RemovedOnce
  <2> SUFFICES ASSUME Inv, NEW n \in Names, \A u \in Uploads(n) : pc[u] = "new"
               PROVE  Cardinality({r \in Deletes(n) : answer[r] = 200}) <= 1
    BY DEF RemovedOnce
  <2> DEFINE told == {r \in Deletes(n) : answer[r] = 200}
  <2>1. \A q, r \in told : q = r
    BY DEF RemovalInv
  <2>2. CASE told = {}
    BY <2>2, FS_EmptySet
  <2>3. CASE told # {}
    <3>1. PICK r \in told : TRUE
      BY <2>3
    <3>2. told = {r}
      BY <2>1, <3>1
    <3> QED
      BY <3>2, FS_Singleton
  <2> QED
    BY <2>2, <2>3
<1> QED
  BY <1>1, <1>2, <1>3, PTL DEF SafeSpec

------------------------------------------------------------------------------
\* What an upload has written so far is a prefix of its data.

LEMMA WrittenPrefix ==
  ASSUME NEW d \in Seq(Unit), NEW p \in Nat, NEW to \in Nat, p < to, to <= Len(d)
  PROVE  Written(SubSeq(d, 1, p), d, p + 1, to) = SubSeq(d, 1, to)
<1> DEFINE f == SubSeq(d, 1, p)
           g == SubSeq(d, 1, to)
           e(k) == IF k \in (p + 1)..to THEN d[k] ELSE IF k <= Len(f) THEN f[k] ELSE "zero"
<1>1. \A k \in 1..to : d[k] \in Unit
  OBVIOUS
<1>2. /\ f \in Seq(Unit) /\ Len(f) = p
      /\ \A k \in 1..p : f[k] = d[k]
  <2>1. 1 \in Int /\ p \in Int /\ \A k \in 1..p : d[k] \in Unit
    BY <1>1
  <2> QED
    BY <2>1, SubSeqProperties
<1>3. /\ g \in Seq(Unit) /\ Len(g) = to
      /\ \A k \in 1..to : g[k] = d[k]
  <2>1. 1 \in Int /\ to \in Int
    OBVIOUS
  <2> QED
    BY <1>1, <2>1, SubSeqProperties
<1> HIDE DEF f, g
<1>4. \A k \in 1..to : e(k) = g[k]
  BY <1>2, <1>3
<1>5. Written(f, d, p + 1, to) = [k \in 1..to |-> e(k)]
  BY <1>2 DEF Written
<1>6. g = [k \in 1..to |-> g[k]]
  BY <1>3
<1> QED
  BY <1>4, <1>5, <1>6 DEF f, g

LEMMA WholePrefix ==
  ASSUME NEW d \in Seq(Unit)
  PROVE  SubSeq(d, 1, 0) = <<>> /\ SubSeq(d, 1, Len(d)) = d
BY SubSeqEmpty, SubSeqFull

\* No other request that changes file n has begun.
Alone(r, n) == \A q \in Reqs \ {r} : n \in Changes(op[q]) => pc[q] = "new"

\* No other part of the upload has the name of part i.
OnlyPart(r, i) == \A j \in PartsOf(op[r]) : op[r].parts[j].name = op[r].parts[i].name => j = i

\* Part i is on the disk, whole.
Stored(r, i) == LET n == op[r].parts[i].name
                IN n \in present /\ content[n] = Data(op[r], r, i)

\* Saved parts are behind the current one and on the disk, and what was written of the
\* current one is a prefix of its data.
StayInv(r) == op[r].kind = "upload" =>
  /\ \A i \in saved[r] : /\ i \in PartsOf(op[r])
                         /\ i < part[r]
                         /\ op[r].parts[i].name \in Names
                         /\ OnlyPart(r, i) /\ Alone(r, op[r].parts[i].name) => Stored(r, i)
  /\ pc[r] = "write" /\ Alone(r, FileOf(r)) =>
       content[FileOf(r)] = SubSeq(Data(op[r], r, part[r]), 1, pos[r])

\* A step of r leaves the uploads of others, and files it may not change, alone.
Elsewhere(r) == /\ \A q \in Reqs \ {r} : part'[q] = part[q] /\ saved'[q] = saved[q] /\ pos'[q] = pos[q]
                /\ \A n \in Names \ Changes(op[r]) :
                     content'[n] = content[n] /\ (n \in present => n \in present')

LEMMA StayOthers ==
  ASSUME FileInv, NEW r \in Reqs, Frame(r), Elsewhere(r), NEW q \in Reqs \ {r}, StayInv(q)
  PROVE  StayInv(q)'
<1>1. /\ op' = op /\ pc'[q] = pc[q]
      /\ part'[q] = part[q] /\ saved'[q] = saved[q] /\ pos'[q] = pos[q]
      /\ FileOf(q)' = FileOf(q)
  BY DEF Frame, Elsewhere, FileOf
<1>2. ASSUME NEW n \in Names, \A p \in Reqs \ {q} : n \in Changes(op[p]) => pc'[p] = "new"
      PROVE  Alone(q, n) /\ content'[n] = content[n] /\ (n \in present => n \in present')
  <2>1. n \notin Changes(op[r])
    BY <1>2 DEF Frame
  <2>2. Alone(q, n)
    BY <1>2 DEF Alone, Frame
  <2> QED
    BY <2>1, <2>2 DEF Elsewhere
<1>3. ASSUME op[q].kind = "upload", NEW i \in saved[q]
      PROVE  /\ i \in PartsOf(op[q])
             /\ i < part[q]
             /\ op[q].parts[i].name \in Names
             /\ OnlyPart(q, i)' /\ Alone(q, op[q].parts[i].name)' => Stored(q, i)'
  <2>1. /\ i \in PartsOf(op[q]) /\ i < part[q] /\ op[q].parts[i].name \in Names
        /\ OnlyPart(q, i) /\ Alone(q, op[q].parts[i].name) => Stored(q, i)
    BY <1>3 DEF StayInv
  <2>2. OnlyPart(q, i)' <=> OnlyPart(q, i)
    BY <1>1 DEF OnlyPart
  <2> QED
    BY <1>1, <1>2, <2>1, <2>2 DEF Stored, Alone
<1>4. ASSUME op[q].kind = "upload", pc[q] = "write", Alone(q, FileOf(q))'
      PROVE  content'[FileOf(q)] = SubSeq(Data(op[q], q, part[q]), 1, pos[q])
  <2>1. FileOf(q) \in Names
    BY <1>4 DEF FileInv, HandlerInv
  <2>2. \A p \in Reqs \ {q} : FileOf(q) \in Changes(op[p]) => pc'[p] = "new"
    BY <1>1, <1>4 DEF Alone
  <2> QED
    BY <1>2, <1>4, <2>1, <2>2 DEF StayInv
<1> QED
  BY <1>1, <1>3, <1>4 DEF StayInv, OnlyPart, Alone, Stored, FileOf

LEMMA OwnFile ==
  ASSUME NEW r \in Reqs, FileOf(r) \in Names,
         \/ op[r].kind = "upload" /\ part[r] \in PartsOf(op[r])
         \/ op[r].kind = "delete"
  PROVE  FileOf(r) \in Changes(op[r])
BY DEF FileOf, Changes

\* The handlers act on requests that are being handled.
LEMMA HandlePlace ==
  ASSUME NEW r \in Reqs, Handle(r)
  PROVE  pc[r] \notin {"new", "done"}
<1>1. Ensure(r) \/ MakeDir(r) \/ MakeDirThrows(r) => pc[r] \in {"ctor", "mkdir"}
  BY DEF Ensure, MakeDir, MakeDirThrows, Goes, Step
<1>2. Upload(r) => pc[r] \in {"part", "write"}
  BY DEF Upload, PartFails, OpenForWrite, WriteSome, CloseSaved, ReplyUpload, Goes, Reply, Step
<1>3. Download(r) => pc[r] \in {"exists", "open", "read"}
  BY DEF Download, CheckExists, OpenForRead, OpenFails, ReadSome, ReadEnds,
         Goes, Reply, Step
<1>4. Find(r) \/ Remove(r) => pc[r] \in {"find", "remove"}
  BY DEF Find, Remove, Goes, Reply, Step
<1>5. ListOpen(r) \/ ListEntry(r) \/ ListEnds(r) => pc[r] \in {"list", "entry"}
  BY DEF ListOpen, ListEntry, ListEnds, Goes, Reply, Step
<1> QED
  BY <1>1, <1>2, <1>3, <1>4, <1>5 DEF Handle

LEMMA FrameAll ==
  ASSUME FileInv, NEW r \in Reqs, Begin(r) \/ Handle(r)
  PROVE  Frame(r)
<1>1. CASE OpenForWrite(r)
  BY <1>1, FrameOfGoes DEF OpenForWrite, PCs
<1>2. CASE Find(r)
  BY <1>2, FrameOfGoes, FrameOfReply DEF Find, PCs
<1>3. CASE Remove(r)
  BY <1>3, FrameOfReply DEF Remove
<1> QED
  BY <1>1, <1>2, <1>3, QuietBegin, QuietConstruct, QuietUpload, QuietDownload, QuietList DEF Handle

LEMMA ElsewhereAll ==
  ASSUME FileInv, NEW r \in Reqs, Begin(r) \/ Handle(r)
  PROVE  Elsewhere(r)
<1>1. DataOK /\ HandlerInv(r)
  BY FileParts
<1>2. CASE UNCHANGED <<present, content, upload>>
  BY <1>2 DEF Elsewhere, upload
<1>3. CASE Begin(r) \/ Ensure(r) \/ MakeDir(r) \/ MakeDirThrows(r)
  BY <1>2, <1>3 DEF Begin, Ensure, MakeDir, MakeDirThrows, disk
<1>4. CASE Download(r)
  BY <1>2, <1>4 DEF Download, CheckExists, OpenForRead, OpenFails, ReadSome, ReadEnds, disk
<1>5. CASE Find(r) \/ ListOpen(r) \/ ListEntry(r) \/ ListEnds(r)
  BY <1>2, <1>5 DEF Find, ListOpen, ListEntry, ListEnds, disk
<1>6. CASE PartFails(r) \/ CloseSaved(r) \/ ReplyUpload(r)
  <2>1. /\ UNCHANGED <<disk, pos>>
        /\ part' = part \/ part' = [part EXCEPT ![r] = @ + 1]
        /\ saved' = saved \/ saved' = [saved EXCEPT ![r] = @ \cup {part[r]}]
    BY <1>6 DEF PartFails, CloseSaved, ReplyUpload, upload
  <2> QED
    BY <1>1, <2>1 DEF Elsewhere, DataOK, disk
<1>7. CASE OpenForWrite(r)
  <2>1. /\ part[r] \in PartsOf(op[r]) /\ FileOf(r) \in Names
        /\ present' = present \cup {FileOf(r)}
        /\ content' = [content EXCEPT ![FileOf(r)] = <<>>]
        /\ pos' = [pos EXCEPT ![r] = 0]
        /\ UNCHANGED <<part, saved>>
        /\ pc[r] = "part"
    BY <1>7 DEF OpenForWrite, Goes, Step
  <2>2. FileOf(r) \in Changes(op[r])
    BY <1>1, <2>1, OwnFile DEF HandlerInv
  <2> QED
    BY <1>1, <2>1, <2>2 DEF Elsewhere, DataOK
<1>8. CASE WriteSome(r)
  <2>1. PICK f, to : /\ content' = [content EXCEPT ![FileOf(r)] = f]
                     /\ pos' = [pos EXCEPT ![r] = to]
    BY <1>8 DEF WriteSome
  <2>2. UNCHANGED <<present, part, saved>> /\ pc[r] = "write"
    BY <1>8 DEF WriteSome, Goes, Step
  <2>3. FileOf(r) \in Changes(op[r])
    BY <1>1, <2>2, OwnFile DEF HandlerInv
  <2> QED
    BY <1>1, <2>1, <2>2, <2>3 DEF Elsewhere, DataOK
<1>9. CASE Remove(r)
  <2>1. /\ pc[r] = "remove"
        /\ \/ UNCHANGED <<present, content, upload>>
           \/ /\ present' = present \ {FileOf(r)}
              /\ content' = [content EXCEPT ![FileOf(r)] = <<>>]
              /\ UNCHANGED upload
    BY <1>9 DEF Remove, Reply, Step
  <2>2. FileOf(r) \in Changes(op[r])
    BY <1>1, <2>1, OwnFile DEF HandlerInv, FileOf
  <2> QED
    BY <1>1, <1>2, <2>1, <2>2 DEF Elsewhere, DataOK, upload
<1> QED
  BY <1>3, <1>4, <1>5, <1>6, <1>7, <1>8, <1>9 DEF Handle, Upload

\* A step of an upload that leaves the disk and what it has saved alone, and is not in
\* the middle of a file afterwards.
LEMMA StayWithoutWrite ==
  ASSUME FileInv, NEW r \in Reqs, StayInv(r), Frame(r), pc'[r] # "write",
         UNCHANGED <<present, content, saved>>, part'[r] \in {part[r], part[r] + 1}
  PROVE  StayInv(r)'
<1> SUFFICES ASSUME op[r].kind = "upload", NEW i \in saved[r]
             PROVE  /\ i \in PartsOf(op[r])
                    /\ i < part'[r]
                    /\ op[r].parts[i].name \in Names
                    /\ OnlyPart(r, i)' /\ Alone(r, op[r].parts[i].name)' => Stored(r, i)'
  BY DEF StayInv, Frame
<1>1. /\ i \in PartsOf(op[r]) /\ i < part[r] /\ op[r].parts[i].name \in Names
      /\ OnlyPart(r, i) /\ Alone(r, op[r].parts[i].name) => Stored(r, i)
  BY DEF StayInv
<1>2. part[r] \in Nat /\ i \in Nat
  BY <1>1, FileParts DEF DataOK, PartsOf
<1>3. i < part'[r]
  BY <1>1, <1>2
<1>4. /\ OnlyPart(r, i)' <=> OnlyPart(r, i)
      /\ Stored(r, i)' <=> Stored(r, i)
  BY DEF OnlyPart, Stored, Frame
<1>5. Alone(r, op[r].parts[i].name)' => Alone(r, op[r].parts[i].name)
  BY DEF Alone, Frame
<1> QED
  BY <1>1, <1>3, <1>4, <1>5

\* A step that changes the current file only.
LEMMA StayWhileWriting ==
  ASSUME FileInv, NEW r \in Reqs, op[r].kind = "upload", StayInv(r), Frame(r),
         part[r] \in PartsOf(op[r]), FileOf(r) \in Names,
         UNCHANGED <<part, saved>>,
         NEW f, content' = [content EXCEPT ![FileOf(r)] = f],
         \A n \in present : n \in present',
         Alone(r, FileOf(r)) => f = SubSeq(Data(op[r], r, part[r]), 1, pos'[r])
  PROVE  StayInv(r)'
<1>1. op' = op /\ FileOf(r)' = FileOf(r) /\ content \in [Names -> Seq(Unit)]
  BY FileParts DEF Frame, FileOf, DataOK
<1>2. ASSUME NEW i \in saved[r]
      PROVE  /\ i \in PartsOf(op[r])
             /\ i < part[r]
             /\ op[r].parts[i].name \in Names
             /\ OnlyPart(r, i)' /\ Alone(r, op[r].parts[i].name)' => Stored(r, i)'
  <2>1. /\ i \in PartsOf(op[r]) /\ i < part[r] /\ op[r].parts[i].name \in Names
        /\ OnlyPart(r, i) /\ Alone(r, op[r].parts[i].name) => Stored(r, i)
    BY DEF StayInv
  <2>2. SUFFICES ASSUME OnlyPart(r, i)', Alone(r, op[r].parts[i].name)'
                 PROVE  Stored(r, i)'
    BY <2>1
  <2>3. OnlyPart(r, i) /\ Alone(r, op[r].parts[i].name)
    BY <2>2, <1>1 DEF OnlyPart, Alone, Frame
  <2>4. part[r] \in Nat /\ i \in Nat
    BY <2>1, FileParts DEF DataOK, PartsOf
  <2>5. op[r].parts[i].name # FileOf(r)
    BY <2>1, <2>3, <2>4 DEF OnlyPart, FileOf
  <2> QED
    BY <1>1, <2>1, <2>3, <2>5 DEF Stored
<1>3. ASSUME Alone(r, FileOf(r))'
      PROVE  content'[FileOf(r)] = SubSeq(Data(op[r], r, part[r]), 1, pos'[r])
  <2>1. Alone(r, FileOf(r))
    BY <1>1, <1>3 DEF Alone, Frame
  <2> QED
    BY <1>1, <2>1
<1> QED
  BY <1>1, <1>2, <1>3 DEF StayInv

LEMMA StayOpen ==
  ASSUME FileInv, NEW r \in Reqs, StayInv(r), OpenForWrite(r)
  PROVE  StayInv(r)'
<1>1. /\ part[r] \in PartsOf(op[r]) /\ FileOf(r) \in Names
      /\ present' = present \cup {FileOf(r)}
      /\ content' = [content EXCEPT ![FileOf(r)] = <<>>]
      /\ pos' = [pos EXCEPT ![r] = 0]
      /\ UNCHANGED <<part, saved>>
      /\ pc[r] = "part"
  BY DEF OpenForWrite, Goes, Step
<1>2. op[r].kind = "upload" /\ op[r] \in Ops /\ pos'[r] = 0
  BY <1>1, FileParts DEF HandlerInv, DataOK
<1>3. <<>> = SubSeq(Data(op[r], r, part[r]), 1, pos'[r])
  BY <1>1, <1>2, DataTypes, WholePrefix
<1>4. Frame(r)
  BY FrameAll DEF Handle, Upload
<1> QED
  BY <1>1, <1>2, <1>3, <1>4, StayWhileWriting

LEMMA StayWrite ==
  ASSUME FileInv, NEW r \in Reqs, StayInv(r), WriteSome(r)
  PROVE  StayInv(r)'
<1> DEFINE d == Data(op[r], r, part[r])
<1>1. pc[r] = "write" /\ UNCHANGED <<present, part, saved>>
  BY DEF WriteSome, Goes, Step
<1>2. /\ op[r].kind = "upload" /\ op[r] \in Ops
      /\ part[r] \in PartsOf(op[r]) /\ FileOf(r) \in Names
      /\ pos[r] \in Nat
  BY <1>1, FileParts DEF HandlerInv, DataOK
<1>3. d \in Seq(Unit) /\ Len(d) \in Nat
  BY <1>2, DataTypes
<1>4. PICK to \in (pos[r] + 1)..Len(d) :
        /\ content' = [content EXCEPT ![FileOf(r)] = Written(content[FileOf(r)], d, pos[r] + 1, to)]
        /\ pos' = [pos EXCEPT ![r] = to]
  BY DEF WriteSome
<1>5. to \in Nat /\ pos[r] < to /\ to <= Len(d) /\ pos'[r] = to
  BY <1>2, <1>3, <1>4, FileParts DEF DataOK
<1>6. ASSUME Alone(r, FileOf(r))
      PROVE  Written(content[FileOf(r)], d, pos[r] + 1, to) = SubSeq(d, 1, pos'[r])
  <2>1. content[FileOf(r)] = SubSeq(d, 1, pos[r])
    BY <1>1, <1>2, <1>6 DEF StayInv
  <2> QED
    BY <1>2, <1>3, <1>5, <2>1, WrittenPrefix
<1>7. Frame(r)
  BY FrameAll DEF Handle, Upload
<1> HIDE DEF d
<1>8. Alone(r, FileOf(r)) =>
        Written(content[FileOf(r)], d, pos[r] + 1, to) = SubSeq(Data(op[r], r, part[r]), 1, pos'[r])
  BY <1>6 DEF d
<1> QED
  BY <1>1, <1>2, <1>4, <1>7, <1>8, StayWhileWriting

LEMMA StayClose ==
  ASSUME "full" \notin Faults, FileInv, NEW r \in Reqs, StayInv(r), CloseSaved(r)
  PROVE  StayInv(r)'
<1> DEFINE k == part[r]
           d == Data(op[r], r, k)
<1>1. /\ pc[r] = "write" /\ pc'[r] = "part"
      /\ pos[r] = Len(d)
      /\ saved'[r] = saved[r] \cup {k}
      /\ part'[r] = k + 1
      /\ UNCHANGED <<present, content>>
  BY FileParts DEF CloseSaved, Goes, Step, disk, DataOK, PlaceOK
<1>2. /\ op[r].kind = "upload" /\ op[r] \in Ops
      /\ k \in PartsOf(op[r]) /\ FileOf(r) \in Names /\ FileOf(r) \in present
      /\ k \in Nat
  BY <1>1, FileParts DEF HandlerInv, DataOK
<1>3. FileOf(r) = op[r].parts[k].name
  BY <1>2 DEF FileOf
<1>4. Frame(r)
  BY FrameAll DEF Handle, Upload
<1>5. ASSUME NEW i \in saved[r] \cup {k}
      PROVE  /\ i \in PartsOf(op[r])
             /\ i < part'[r]
             /\ op[r].parts[i].name \in Names
             /\ OnlyPart(r, i)' /\ Alone(r, op[r].parts[i].name)' => Stored(r, i)'
  <2>1. /\ OnlyPart(r, i)' => OnlyPart(r, i)
        /\ Stored(r, i) => Stored(r, i)'
        /\ Alone(r, op[r].parts[i].name)' => Alone(r, op[r].parts[i].name)
    BY <1>1, <1>4 DEF OnlyPart, Stored, Alone, Frame
  <2>2. CASE i \in saved[r]
    <3>1. /\ i \in PartsOf(op[r]) /\ i < k /\ op[r].parts[i].name \in Names
          /\ OnlyPart(r, i) /\ Alone(r, op[r].parts[i].name) => Stored(r, i)
      BY <1>2, <2>2 DEF StayInv
    <3>2. i < part'[r]
      BY <1>1, <1>2, <3>1 DEF PartsOf
    <3> QED
      BY <2>1, <3>1, <3>2
  <2>3. CASE i = k
    <3>1. ASSUME Alone(r, FileOf(r))
          PROVE  content[FileOf(r)] = d
      <4>1. content[FileOf(r)] = SubSeq(d, 1, Len(d))
        BY <1>1, <1>2, <3>1 DEF StayInv
      <4> QED
        BY <1>2, <4>1, DataTypes, WholePrefix
    <3>2. Alone(r, op[r].parts[i].name) => Stored(r, i)
      BY <1>2, <1>3, <2>3, <3>1 DEF Stored
    <3>3. i < part'[r]
      BY <1>1, <1>2, <2>3
    <3> QED
      BY <1>2, <1>3, <2>1, <2>3, <3>2, <3>3
  <2> QED
    BY <2>2, <2>3
<1> QED
  BY <1>1, <1>4, <1>5 DEF StayInv, Frame

LEMMA StayRest ==
  ASSUME FileInv, NEW r \in Reqs, StayInv(r), Begin(r) \/ Handle(r),
         ~OpenForWrite(r), ~WriteSome(r), ~CloseSaved(r)
  PROVE  StayInv(r)'
<1>1. Frame(r) /\ HandlerInv(r) /\ DataOK /\ PlaceOK /\ op[r] \in Ops
  BY FrameAll, FileParts
<1>2. CASE op[r].kind # "upload"
  BY <1>1, <1>2 DEF StayInv, Frame
<1>3. CASE op[r].kind = "upload"
  <2>1. ~Download(r) /\ ~Find(r) /\ ~Remove(r) /\ ~ListOpen(r) /\ ~ListEntry(r) /\ ~ListEnds(r)
    BY <1>1, <1>3 DEF HandlerInv, Download, CheckExists, OpenForRead, OpenFails, ReadSome, ReadEnds, Find, Remove, ListOpen, ListEntry, ListEnds, Goes, Reply, Step
  <2>2. CASE Begin(r) \/ Ensure(r) \/ MakeDir(r) \/ MakeDirThrows(r)
    <3>1. UNCHANGED <<present, content, saved, part>>
      BY <2>2 DEF Begin, Ensure, MakeDir, MakeDirThrows, disk, upload
    <3>2. pc'[r] \in {"ctor", "mkdir", "done", Work[op[r].kind]}
      BY <1>1, <2>2 DEF Begin, Ensure, MakeDir, MakeDirThrows, Goes, Step, PlaceOK
    <3>3. Work[op[r].kind] = "part"
      BY <1>3 DEF Work
    <3> QED
      BY <1>1, <3>1, <3>2, <3>3, StayWithoutWrite
  <2>3. CASE PartFails(r) \/ ReplyUpload(r)
    <3>1. UNCHANGED <<present, content, saved>> /\ part'[r] \in {part[r], part[r] + 1}
      BY <1>1, <2>3 DEF PartFails, ReplyUpload, disk, upload, DataOK
    <3>2. pc'[r] \in {"part", "done"}
      BY <1>1, <2>3 DEF PartFails, ReplyUpload, Goes, Reply, Step, PlaceOK
    <3> QED
      BY <1>1, <3>1, <3>2, StayWithoutWrite
  <2> QED
    BY <2>1, <2>2, <2>3 DEF Handle, Upload
<1> QED
  BY <1>2, <1>3

LEMMA StayInductive ==
  ASSUME "full" \notin Faults, FileInv, \A q \in Reqs : StayInv(q), [Next]_vars,
         NEW q \in Reqs
  PROVE  StayInv(q)'
<1>1. CASE UNCHANGED vars
  BY <1>1 DEF StayInv, OnlyPart, Alone, Stored, FileOf, vars, disk, upload
<1>2. CASE \E r \in Reqs : Begin(r) \/ Handle(r)
  <2>1. PICK r \in Reqs : Begin(r) \/ Handle(r)
    BY <1>2
  <2>2. CASE q # r
    BY <2>1, <2>2, FrameAll, ElsewhereAll, StayOthers
  <2>3. CASE q = r
    BY <2>1, <2>3, StayOpen, StayWrite, StayClose, StayRest
  <2> QED
    BY <2>2, <2>3
<1>3. CASE ProcessEnds
  BY <1>3 DEF ProcessEnds, StayInv, OnlyPart, Alone, Stored, FileOf, disk, upload
<1> QED
  BY <1>1, <1>2, <1>3 DEF Next

\* On a disk that has room, what an upload has saved stays on the disk, whole, until
\* another request that changes the file begins: whatever its other parts, however many
\* pieces each write is cut into, and whatever other threads do to other files.
THEOREM SavedStaysHolds == "full" \notin Faults => (SafeSpec => []SavedStays)
<1> SUFFICES ASSUME "full" \notin Faults
             PROVE  SafeSpec => []SavedStays
  OBVIOUS
<1> DEFINE Inv == FileInv /\ \A r \in Reqs : StayInv(r)
<1>1. Init => Inv
  <2>1. Init => \A r \in Reqs : StayInv(r)
    BY DEF Init, StayInv
  <2> QED
    BY <2>1, InitFile
<1>2. Inv /\ [Next]_vars => Inv'
  BY FileInvInductive, StayInductive
<1>3. Inv => SavedStays
  <2> SUFFICES ASSUME Inv, NEW r \in Reqs, op[r].kind = "upload", NEW i \in saved[r],
                      OnlyPart(r, i), Alone(r, op[r].parts[i].name)
               PROVE  Stored(r, i)
    BY DEF SavedStays, OnlyPart, Alone, Stored
  <2> QED
    BY DEF StayInv
<1> QED
  BY <1>1, <1>2, <1>3, PTL DEF SafeSpec
==============================================================================
