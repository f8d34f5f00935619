--------------------------- MODULE FileVersionProofs ---------------------------
(***************************************************************************)
(* What a download delivers, for any number of requests and threads: the   *)
(* proof that FileStore has the property WholeUnlessShared. It follows the *)
(* content of a file from the upload that writes it to the download that   *)
(* reads it, as long as `met` shows that no two of them overlapped. Behind *)
(* it, and with it, the proof that with one thread the handlers implement  *)
(* FileShelf.                                                              *)
(***************************************************************************)
EXTENDS FileStoreProofs

\* Two uploads of n have overlapped.
Shared(n) == \E u \in Uploads(n) : met[u] \cap Uploads(n) # {}

\* Download r has overlapped with no upload of its file, nor have two uploads of it.
Clean(r) == /\ op[r].kind = "download"
            /\ Uploads(op[r].name) \cap met[r] = {}
            /\ ~Shared(op[r].name)

Writers(n) == {r \in Reqs : pc[r] = "write" /\ FileOf(r) = n}

\* `met` has everything that a request at work can be disturbed by.
MetInv == \A r \in Reqs : /\ pc[r] = "new" => met[r] = {}
                          /\ r \in Active => Active \ {r} \subseteq met[r]

\* What the only upload of a file at work has written of it is a prefix of its data.
WriterInv(r) == (pc[r] = "write" /\ ~Shared(FileOf(r))) =>
  content[FileOf(r)] = SubSeq(Data(op[r], r, part[r]), 1, pos[r])

\* A file that nobody writes is a whole version.
StoredInv(n) == (n \in present /\ ~Shared(n) /\ Writers(n) = {}) => content[n] \in Versions(n)

\* An undisturbed download has read a prefix of a version, then the whole of it.
ReaderInv(r) == Clean(r) =>
  /\ pc[r] = "read" => /\ content[op[r].name] \in Versions(op[r].name)
                       /\ size[r] = Len(content[op[r].name])
                       /\ body[r] = SubSeq(content[op[r].name], 1, Len(body[r]))
  /\ answer[r] = 200 => body[r] \in Versions(op[r].name)

VersionInv == /\ MetInv
              /\ \A r \in Reqs : WriterInv(r) /\ ReaderInv(r)
              /\ \A n \in Names : StoredInv(n)

------------------------------------------------------------------------------
\* The history of overlaps.

LEMMA ActiveGrows ==
  ASSUME FileInv, NEW r \in Reqs, Handle(r)
  PROVE  Active' \subseteq Active /\ r \in Active /\ (pc'[r] # "new")
<1>1. Frame(r)
  BY FrameAll
<1> QED
  BY <1>1, HandlePlace DEF Active, Frame

LEMMA HandleKeepsMet ==
  ASSUME NEW r \in Reqs, Handle(r)
  PROVE  met' = met
<1>1. Ensure(r) \/ MakeDir(r) \/ MakeDirThrows(r) => met' = met
  BY DEF Ensure, MakeDir, MakeDirThrows, Goes
<1>2. Upload(r) => met' = met
  BY DEF Upload, PartFails, OpenForWrite, WriteSome, CloseSaved, ReplyUpload, Goes, Reply
<1>3. Download(r) => met' = met
  BY DEF Download, CheckExists, OpenForRead, OpenFails, ReadSome, ReadEnds, Goes, Reply
<1>4. Find(r) \/ Remove(r) \/ ListOpen(r) \/ ListEntry(r) \/ ListEnds(r) => met' = met
  BY DEF Find, Remove, ListOpen, ListEntry, ListEnds, Goes, Reply
<1> QED
  BY <1>1, <1>2, <1>3, <1>4 DEF Handle

LEMMA MetStep ==
  ASSUME FileInv, MetInv, NEW r \in Reqs, Begin(r) \/ Handle(r)
  PROVE  MetInv' /\ \A q \in Reqs : met[q] \subseteq met'[q]
<1>0. Frame(r) /\ met \in [Reqs -> SUBSET Reqs]
  BY FrameAll DEF FileInv, FileTypeOK
<1>1. CASE Handle(r)
  BY <1>0, <1>1, ActiveGrows, HandleKeepsMet DEF MetInv, Frame, Active
<1>2. CASE Begin(r)
  <2>1. /\ pc[r] = "new"
        /\ met' = [q \in Reqs |-> IF q = r THEN Active
                                  ELSE IF q \in Active THEN met[q] \cup {r} ELSE met[q]]
    BY <1>2 DEF Begin, Step
  <2>2. met[r] = {} /\ r \notin Active
    BY <2>1 DEF MetInv, Active
  <2>3. \A q \in Reqs : met[q] \subseteq met'[q]
    BY <1>0, <2>1, <2>2
  <2>4. Active' \subseteq Active \cup {r} /\ Active \subseteq Active'
    BY <1>0, <2>2 DEF Active, Frame
  <2>5. ASSUME NEW q \in Reqs, q \in Active'
        PROVE  Active' \ {q} \subseteq met'[q]
    <3>1. CASE q = r
      BY <2>1, <2>4, <3>1
    <3>2. CASE q # r
      <4>1. q \in Active /\ Active \ {q} \subseteq met[q]
        BY <2>4, <2>5, <3>2 DEF MetInv
      <4> QED
        BY <2>1, <2>4, <3>2, <4>1
    <3> QED
      BY <3>1, <3>2
  <2>6. ASSUME NEW q \in Reqs, pc'[q] = "new"
        PROVE  met'[q] = {}
    <3>1. q # r /\ pc[q] = "new"
      BY <1>0, <2>6 DEF Frame
    <3> QED
      BY <2>1, <3>1 DEF MetInv, Active
  <2> QED
    BY <2>3, <2>5, <2>6 DEF MetInv
<1> QED
  BY <1>1, <1>2

\* Who has not been disturbed after a step was not before it.
LEMMA CleanBefore ==
  ASSUME op' = op, \A q \in Reqs : met[q] \subseteq met'[q]
  PROVE  /\ \A n : Shared(n) => Shared(n)'
         /\ \A n : Uploads(n)' = Uploads(n) /\ Versions(n)' = Versions(n)
         /\ \A q \in Reqs : Clean(q)' => Clean(q)
<1>1. \A n : Uploads(n)' = Uploads(n)
  BY DEF Uploads
<1>2. \A n : Versions(n)' = Versions(n)
  BY <1>1 DEF Versions
<1>3. \A n : Uploads(n) \subseteq Reqs
  BY DEF Uploads
<1>4. \A n : Shared(n) => Shared(n)'
  BY <1>1, <1>3 DEF Shared
<1> QED
  BY <1>1, <1>2, <1>4 DEF Clean

\* An upload at work may change its file only if it shares it with nobody.
LEMMA NobodyElse ==
  ASSUME MetInv, NEW n, NEW u \in Uploads(n), u \in Active
  PROVE  /\ \A q \in Uploads(n) \ {u} : q \in Active => Shared(n)
         /\ \A q \in Reqs : q \in Active /\ op[q].kind = "download" /\ op[q].name = n => ~Clean(q)
<1>1. u \in Reqs /\ Uploads(n) \subseteq Reqs /\ op[u].kind = "upload"
  BY DEF Uploads
<1>2. \A q \in Reqs \ {u} : q \in Active => q \in met[u] /\ u \in met[q]
  BY <1>1 DEF MetInv
<1>3. \A q \in Uploads(n) \ {u} : q \in Active => Shared(n)
  BY <1>1, <1>2 DEF Shared
<1>4. \A q \in Reqs : op[q].kind = "download" => q # u
  BY <1>1
<1>5. ASSUME NEW q \in Reqs, q \in Active, op[q].kind = "download", op[q].name = n
      PROVE  ~Clean(q)
  BY <1>2, <1>4, <1>5 DEF Clean
<1> QED
  BY <1>3, <1>5

------------------------------------------------------------------------------
\* What a step may do to files and to other requests.

\* It writes a file it uploads, removes one that nobody has open, and leaves the others.
Touches(r, n) == \/ content'[n] = content[n] /\ (n \in present' <=> n \in present)
                 \/ r \in Active /\ r \in Uploads(n)
                 \/ Holders(n) = {} /\ n \notin present'

LEMMA TouchesAll ==
  ASSUME FileInv, NEW r \in Reqs, Begin(r) \/ Handle(r), NEW n \in Names
  PROVE  Touches(r, n)
<1>1. HandlerInv(r) /\ DataOK /\ op[r] \in Ops
  BY FileParts
<1>2. CASE content' = content /\ present' = present
  BY <1>2 DEF Touches
<1>3. CASE Begin(r) \/ Ensure(r) \/ MakeDir(r) \/ MakeDirThrows(r)
  BY <1>2, <1>3 DEF Begin, Ensure, MakeDir, MakeDirThrows, disk
<1>4. CASE Download(r)
  BY <1>2, <1>4 DEF Download, CheckExists, OpenForRead, OpenFails, ReadSome, ReadEnds, disk
<1>5. CASE Find(r) \/ ListOpen(r) \/ ListEntry(r) \/ ListEnds(r)
  BY <1>2, <1>5 DEF Find, ListOpen, ListEntry, ListEnds, disk
<1>6. CASE PartFails(r) \/ CloseSaved(r) \/ ReplyUpload(r)
  BY <1>2, <1>6 DEF PartFails, CloseSaved, ReplyUpload, disk
<1>7. CASE OpenForWrite(r) \/ WriteSome(r)
  <2>1. r \in Active
    BY <1>7, HandlePlace DEF Handle, Upload, Active
  <2>2. /\ op[r].kind = "upload" /\ FileOf(r) \in Names /\ part[r] \in PartsOf(op[r])
        /\ FileOf(r) \in present'
        /\ \A m \in Names \ {FileOf(r)} : content'[m] = content[m] /\ (m \in present' <=> m \in present)
    BY <1>1, <1>7 DEF OpenForWrite, WriteSome, Goes, Step, HandlerInv, DataOK
  <2>3. r \in Uploads(FileOf(r))
    BY <2>2, OwnFile DEF Uploads
  <2> QED
    BY <2>1, <2>2, <2>3 DEF Touches
<1>8. CASE Remove(r)
  BY <1>1, <1>8 DEF Remove, Touches, DataOK
<1> QED
  BY <1>3, <1>4, <1>5, <1>6, <1>7, <1>8 DEF Handle, Upload

LEMMA ReadOthers ==
  ASSUME FileInv, NEW r \in Reqs, Begin(r) \/ Handle(r), NEW q \in Reqs \ {r}
  PROVE  size'[q] = size[q] /\ body'[q] = body[q]
<1>1. DataOK
  BY FileParts
<1>2. CASE UNCHANGED read
  BY <1>2 DEF read
<1>3. CASE Download(r)
  BY <1>1, <1>3 DEF Download, CheckExists, OpenForRead, OpenFails, ReadSome, ReadEnds,
                    read, DataOK
<1> QED
  BY <1>2, <1>3 DEF Begin, Handle, Ensure, MakeDir, MakeDirThrows, Upload, PartFails, OpenForWrite,
                    WriteSome, CloseSaved, ReplyUpload, Find, Remove, ListOpen, ListEntry, ListEnds

\* Steps of others do not disturb an upload that is alone.
LEMMA WriterOthers ==
  ASSUME FileInv, VersionInv, NEW r \in Reqs, Begin(r) \/ Handle(r), NEW q \in Reqs \ {r}
  PROVE  WriterInv(q)'
<1>1. /\ Frame(r) /\ Elsewhere(r) /\ HandlerInv(q) /\ WriterInv(q)
      /\ \A p \in Reqs : met[p] \subseteq met'[p]
  BY FrameAll, ElsewhereAll, FileParts, MetStep DEF VersionInv
<1> SUFFICES ASSUME pc[q] = "write", ~Shared(FileOf(q))
             PROVE  content'[FileOf(q)] = content[FileOf(q)]
  <2>1. FileOf(q)' = FileOf(q) /\ UNCHANGED op
    BY <1>1 DEF FileOf, Frame, Elsewhere
  <2> QED
    BY <1>1, <2>1, CleanBefore DEF WriterInv, Frame, Elsewhere
<1>2. /\ FileOf(q) \in Names /\ q \in Holders(FileOf(q)) /\ q \in Active
      /\ q \in Uploads(FileOf(q))
  BY <1>1, OwnFile DEF HandlerInv, Holders, Active, Uploads
<1>3. ~(r \in Active /\ r \in Uploads(FileOf(q)))
  BY <1>2, NobodyElse DEF VersionInv
<1> QED
  BY <1>2, <1>3, TouchesAll DEF Touches

\* Nor a download that overlaps with no upload of its file.
LEMMA ReaderOthers ==
  ASSUME FileInv, VersionInv, NEW r \in Reqs, Begin(r) \/ Handle(r), NEW q \in Reqs \ {r}
  PROVE  ReaderInv(q)'
<1>1. /\ Frame(r) /\ HandlerInv(q) /\ ReaderInv(q)
      /\ size'[q] = size[q] /\ body'[q] = body[q]
      /\ \A p \in Reqs : met[p] \subseteq met'[p]
  BY FrameAll, FileParts, MetStep, ReadOthers DEF VersionInv
<1> DEFINE n == op[q].name
<1>2. /\ op' = op /\ pc'[q] = pc[q] /\ answer'[q] = answer[q]
      /\ Clean(q)' => Clean(q)
      /\ Versions(n)' = Versions(n)
  BY <1>1, CleanBefore DEF Frame
<1>3. ASSUME Clean(q), pc[q] = "read"
      PROVE  content'[n] = content[n]
  <2>1. FileOf(q) = n /\ n \in Names /\ q \in Holders(n) /\ q \in Active
    BY <1>1, <1>3 DEF HandlerInv, FileOf, Holders, Active
  <2>2. ~(r \in Active /\ r \in Uploads(n))
    BY <1>3, <2>1, NobodyElse DEF VersionInv, Clean
  <2> QED
    BY <2>1, <2>2, TouchesAll DEF Touches
<1> QED
  BY <1>1, <1>2, <1>3 DEF ReaderInv

------------------------------------------------------------------------------
\* What a step does to its own request.

\* Where a request neither opens its file nor writes to it, it is not writing afterwards.
LEMMA NotWriting ==
  ASSUME FileInv, NEW r \in Reqs, Begin(r) \/ Handle(r), ~OpenForWrite(r), ~WriteSome(r)
  PROVE  pc'[r] # "write"
<1>1. PlaceOK /\ op[r] \in Ops
  BY FileParts
<1>2. CASE Begin(r)
  BY <1>1, <1>2 DEF Begin, Step, PlaceOK
<1>3. CASE Ensure(r) \/ MakeDir(r) \/ MakeDirThrows(r)
  <2>1. Work[op[r].kind] \in {"part", "exists", "find", "list"}
    BY <1>3, Constructing DEF Work
  <2> QED
    BY <1>1, <1>3, <2>1 DEF Ensure, MakeDir, MakeDirThrows, Goes, Step, PlaceOK
<1>4. CASE PartFails(r) \/ CloseSaved(r) \/ ReplyUpload(r)
  BY <1>1, <1>4 DEF PartFails, CloseSaved, ReplyUpload, Goes, Reply, Step, PlaceOK
<1>5. CASE Download(r)
  <2>1. \E from, to \in PCs : Step(r, from, to) /\ to # "write"
    BY <1>5 DEF Download, CheckExists, OpenForRead, OpenFails, ReadSome, ReadEnds, Goes, Reply, PCs
  <2> QED
    BY <1>1, <2>1 DEF Step, PlaceOK
<1>6. CASE Find(r) \/ Remove(r) \/ ListOpen(r) \/ ListEntry(r) \/ ListEnds(r)
  BY <1>1, <1>6 DEF Find, Remove, ListOpen, ListEntry, ListEnds, Goes, Reply, Step, PlaceOK
<1> QED
  BY <1>2, <1>3, <1>4, <1>5, <1>6 DEF Handle, Upload

LEMMA WriterSelf ==
  ASSUME FileInv, VersionInv, NEW r \in Reqs, Begin(r) \/ Handle(r)
  PROVE  WriterInv(r)'
<1> DEFINE d == Data(op[r], r, part[r])
<1>1. /\ HandlerInv(r) /\ op[r] \in Ops /\ DataOK /\ PlaceOK /\ WriterInv(r) /\ Frame(r)
      /\ \A p \in Reqs : met[p] \subseteq met'[p]
  BY FileParts, MetStep, FrameAll DEF VersionInv
<1>2. CASE OpenForWrite(r)
  <2>1. /\ op[r].kind = "upload" /\ part[r] \in PartsOf(op[r]) /\ FileOf(r) \in Names
        /\ content' = [content EXCEPT ![FileOf(r)] = <<>>]
        /\ pos' = [pos EXCEPT ![r] = 0]
        /\ part' = part
    BY <1>1, <1>2 DEF OpenForWrite, Goes, Step, HandlerInv
  <2>2. content'[FileOf(r)] = <<>> /\ pos'[r] = 0 /\ FileOf(r)' = FileOf(r)
    BY <1>1, <2>1 DEF DataOK, FileOf, Frame
  <2>3. SubSeq(d, 1, 0) = <<>>
    BY <1>1, <2>1, DataTypes, WholePrefix
  <2> QED
    BY <1>1, <2>1, <2>2, <2>3 DEF WriterInv, Frame
<1>3. CASE WriteSome(r)
  <2>1. /\ pc[r] = "write" /\ op[r].kind = "upload" /\ part[r] \in PartsOf(op[r]) /\ FileOf(r) \in Names
        /\ part' = part /\ pos[r] \in Nat
    BY <1>1, <1>3 DEF WriteSome, Goes, Step, HandlerInv, DataOK
  <2>2. d \in Seq(Unit)
    BY <1>1, <2>1, DataTypes
  <2>3. PICK to \in (pos[r] + 1)..Len(d) :
          /\ content' = [content EXCEPT ![FileOf(r)] = Written(content[FileOf(r)], d, pos[r] + 1, to)]
          /\ pos' = [pos EXCEPT ![r] = to]
    BY <1>3 DEF WriteSome
  <2>4. /\ content'[FileOf(r)] = Written(content[FileOf(r)], d, pos[r] + 1, to)
        /\ pos'[r] = to
        /\ FileOf(r)' = FileOf(r)
    BY <1>1, <2>1, <2>3 DEF DataOK, FileOf, Frame
  <2>5. SUFFICES ASSUME ~Shared(FileOf(r))
                 PROVE  content'[FileOf(r)] = SubSeq(d, 1, to)
    BY <1>1, <2>1, <2>4, CleanBefore DEF WriterInv, Frame
  <2>6. content[FileOf(r)] = SubSeq(d, 1, pos[r])
    BY <1>1, <2>1, <2>5 DEF WriterInv
  <2>7. to \in Nat /\ pos[r] < to /\ to <= Len(d)
    BY <2>1, <2>2, <2>3
  <2> QED
    BY <2>1, <2>2, <2>4, <2>6, <2>7, WrittenPrefix
<1>4. CASE ~OpenForWrite(r) /\ ~WriteSome(r)
  BY <1>4, NotWriting DEF WriterInv
<1> QED
  BY <1>2, <1>3, <1>4

\* The content of a file that an undisturbed download finds is a version.
LEMMA ReaderFinds ==
  ASSUME FileInv, VersionInv, NEW r \in Reqs, Clean(r), r \in Active, op[r].name \in present
  PROVE  content[op[r].name] \in Versions(op[r].name)
<1> DEFINE n == op[r].name
<1>1. n \in Names /\ ~Shared(n) /\ op[r].kind = "download"
  BY FileParts DEF DataOK, Clean
<1>2. ASSUME NEW u \in Writers(n)
      PROVE  FALSE
  <2>1. u \in Reqs /\ HandlerInv(u) /\ pc[u] = "write" /\ FileOf(u) = n
    BY FileParts DEF Writers
  <2>2. u \in Uploads(n) /\ u \in Active
    BY <1>1, <2>1, OwnFile DEF HandlerInv, Uploads, Active
  <2> QED
    BY <1>1, <2>2, NobodyElse DEF VersionInv
<1> QED
  BY <1>1, <1>2 DEF VersionInv, StoredInv

LEMMA MorePrefix ==
  ASSUME NEW f \in Seq(Unit), NEW k \in Nat, NEW to \in Nat, k < to, to <= Len(f)
  PROVE  SubSeq(f, 1, k) \o SubSeq(f, k + 1, to) = SubSeq(f, 1, to)
BY ConcatAdjacentSubSeq

LEMMA ReaderSelf ==
  ASSUME FileInv, VersionInv, NEW r \in Reqs, Begin(r) \/ Handle(r)
  PROVE  ReaderInv(r)'
<1> DEFINE n == op[r].name
<1>1. /\ HandlerInv(r) /\ op[r] \in Ops /\ DataOK /\ PlaceOK /\ ReaderInv(r) /\ Frame(r)
      /\ \A p \in Reqs : met[p] \subseteq met'[p]
  BY FileParts, MetStep, FrameAll DEF VersionInv
<1>2. op' = op /\ (Clean(r)' => Clean(r)) /\ Versions(n)' = Versions(n)
  BY <1>1, CleanBefore DEF Frame
<1> SUFFICES ASSUME Clean(r)
             PROVE  /\ pc'[r] = "read" => /\ content'[n] \in Versions(n)
                                          /\ size'[r] = Len(content'[n])
                                          /\ body'[r] = SubSeq(content'[n], 1, Len(body'[r]))
                    /\ answer'[r] = 200 => body'[r] \in Versions(n)
  BY <1>2 DEF ReaderInv
<1>3. op[r].kind = "download"
  BY DEF Clean
<1>4. CASE Begin(r)
  <2>1. pc'[r] \in {"ctor", "done"} /\ pc[r] = "new"
    BY <1>1, <1>4 DEF Begin, Step, PlaceOK
  <2>2. answer'[r] = answer[r] \/ answer'[r] = Refusal(op[r])
    BY <1>1, <1>4 DEF Begin, PlaceOK
  <2>3. Refusal(op[r]) = 400
    BY <1>1, <1>3, RefusalType
  <2>4. answer[r] # 200
    BY <1>1, <2>1 DEF PlaceOK
  <2> QED
    BY <2>1, <2>2, <2>3, <2>4
<1>5. CASE Ensure(r) \/ MakeDir(r) \/ MakeDirThrows(r)
  <2>1. answer' = answer /\ pc[r] \in {"ctor", "mkdir"}
    BY <1>5 DEF Ensure, MakeDir, MakeDirThrows, Goes, Step
  <2>2. Work[op[r].kind] = "exists"
    BY <1>3 DEF Work
  <2>3. pc'[r] # "read"
    BY <1>1, <1>5, <2>2 DEF Ensure, MakeDir, MakeDirThrows, Goes, Step, PlaceOK
  <2> QED
    BY <1>1, <2>1, <2>3 DEF PlaceOK
<1>6. CASE CheckExists(r) \/ OpenFails(r) \/ (ReadEnds(r) /\ Len(body[r]) # size[r])
  <2>1. pc'[r] \in {"open", "done"} /\ answer'[r] # 200
    BY <1>1, <1>6 DEF CheckExists, OpenFails, ReadEnds, Goes, Reply, Step, PlaceOK
  <2> QED
    BY <2>1
<1>7. CASE OpenForRead(r)
  <2>1. /\ pc[r] = "open" /\ n \in present /\ UNCHANGED <<content, body, answer>>
        /\ size'[r] = Len(content[n])
    BY <1>1, <1>3, <1>7 DEF OpenForRead, Goes, Step, FileOf, DataOK, disk
  <2>2. body[r] = <<>> /\ answer[r] # 200
    BY <1>1, <2>1 DEF HandlerInv, PlaceOK
  <2>3. n \in Names /\ content[n] \in Seq(Unit)
    BY <1>1, <2>1 DEF DataOK
  <2>4. content[n] \in Versions(n)
    BY <2>1, ReaderFinds DEF Active
  <2>5. SubSeq(content[n], 1, Len(body'[r])) = body'[r]
    BY <2>1, <2>2, <2>3, WholePrefix
  <2> QED
    BY <2>1, <2>2, <2>4, <2>5
<1>8. CASE ReadSome(r)
  <2>1. /\ pc[r] = "read" /\ n \in Names /\ FileOf(r) = n
        /\ UNCHANGED <<content, size, answer>>
    BY <1>1, <1>3, <1>8 DEF ReadSome, Goes, Step, FileOf, HandlerInv, disk
  <2> DEFINE f == content[n]
             b == body[r]
  <2>2. f \in Versions(n) /\ size[r] = Len(f) /\ b = SubSeq(f, 1, Len(b))
    BY <1>1, <2>1 DEF ReaderInv
  <2>3. f \in Seq(Unit) /\ b \in Seq(Unit)
    BY <1>1, <2>1 DEF DataOK
  <2>4. answer'[r] # 200
    BY <1>1, <2>1 DEF PlaceOK
  <2>5. PICK to \in (Len(b) + 1)..size[r] :
          /\ to <= Len(f)
          /\ body' = [body EXCEPT ![r] = b \o SubSeq(f, Len(b) + 1, to)]
    BY <1>8, <2>1 DEF ReadSome
  <2>6. body'[r] = b \o SubSeq(f, Len(b) + 1, to)
    BY <1>1, <2>5 DEF DataOK
  <2>7. to \in Nat /\ Len(b) < to /\ Len(b) \in Nat
    BY <2>2, <2>3, <2>5
  <2> HIDE DEF f, b
  <2>8. b \o SubSeq(f, Len(b) + 1, to) = SubSeq(f, 1, to)
    <3>1. SubSeq(f, 1, Len(b)) \o SubSeq(f, Len(b) + 1, to) = SubSeq(f, 1, to)
      BY <2>3, <2>5, <2>7, MorePrefix
    <3> QED
      BY <2>2, <3>1
  <2>9. Len(body'[r]) = to
    BY <2>3, <2>5, <2>6, <2>7, MoreRead
  <2>10. body'[r] = SubSeq(f, 1, Len(body'[r]))
    BY <2>6, <2>8, <2>9
  <2> QED
    BY <2>1, <2>2, <2>4, <2>10 DEF f
<1>9. CASE ReadEnds(r) /\ Len(body[r]) = size[r]
  <2>1. /\ pc[r] = "read" /\ Len(body[r]) = size[r] /\ pc'[r] = "done" /\ body' = body
    BY <1>1, <1>9 DEF ReadEnds, Reply, Step, PlaceOK, read
  <2>2. n \in Names /\ content[n] \in Seq(Unit)
    BY <1>1, <2>1 DEF HandlerInv, DataOK
  <2>3. body[r] = content[n] /\ content[n] \in Versions(n)
    BY <1>1, <2>1, <2>2, WholePrefix DEF ReaderInv
  <2> QED
    BY <2>1, <2>3
<1>10. ~Upload(r) /\ ~Find(r) /\ ~Remove(r) /\ ~ListOpen(r) /\ ~ListEntry(r) /\ ~ListEnds(r)
  BY <1>1, <1>3 DEF HandlerInv, Upload, PartFails, OpenForWrite, WriteSome, CloseSaved, ReplyUpload,
                    Find, Remove, ListOpen, ListEntry, ListEnds, Goes, Reply, Step
<1> QED
  BY <1>4, <1>5, <1>6, <1>7, <1>8, <1>9, <1>10 DEF Handle, Download

------------------------------------------------------------------------------
\* The files that nobody writes.

\* Data that an upload stores under n is a version of n.
LEMMA DataIsVersion ==
  ASSUME NEW r \in Reqs, op[r].kind = "upload", part[r] \in PartsOf(op[r]), FileOf(r) \in Names
  PROVE  Data(op[r], r, part[r]) \in Versions(FileOf(r))
<1> DEFINE n == FileOf(r)
           stored(u) == {Data(op[u], u, i) : i \in {j \in PartsOf(op[u]) : op[u].parts[j].name = n}}
<1>1. op[r].parts[part[r]].name = n
  BY DEF FileOf
<1>2. r \in Uploads(n)
  BY OwnFile DEF Uploads
<1>3. Data(op[r], r, part[r]) \in stored(r)
  BY <1>1
<1>4. Versions(n) = OldFiles \cup UNION {stored(u) : u \in Uploads(n)}
  BY DEF Versions
<1> QED
  BY <1>2, <1>3, <1>4

\* Where a step of another kind is taken, nobody starts or stops to write, and no file but
\* one that goes is changed.
LEMMA NoWrite ==
  ASSUME FileInv, NEW r \in Reqs, Begin(r) \/ Handle(r),
         ~OpenForWrite(r), ~WriteSome(r), ~CloseSaved(r)
  PROVE  /\ pc[r] # "write"
         /\ \A n \in present' : n \in present /\ content'[n] = content[n]
<1>1. DataOK
  BY FileParts
<1>2. CASE Begin(r) \/ Ensure(r) \/ MakeDir(r) \/ MakeDirThrows(r)
  BY <1>2 DEF Begin, Ensure, MakeDir, MakeDirThrows, Goes, Step, disk
<1>3. CASE PartFails(r) \/ ReplyUpload(r)
  BY <1>3 DEF PartFails, ReplyUpload, Goes, Reply, Step, disk
<1>4. CASE Download(r)
  BY <1>4 DEF Download, CheckExists, OpenForRead, OpenFails, ReadSome, ReadEnds,
              Goes, Reply, Step, disk
<1>5. CASE Find(r) \/ ListOpen(r) \/ ListEntry(r) \/ ListEnds(r)
  BY <1>5 DEF Find, ListOpen, ListEntry, ListEnds, Goes, Reply, Step, disk
<1>6. CASE Remove(r)
  BY <1>1, <1>6 DEF Remove, Reply, Step, DataOK
<1> QED
  BY <1>2, <1>3, <1>4, <1>5, <1>6 DEF Handle, Upload

LEMMA StoredStep ==
  ASSUME "full" \notin Faults, FileInv, VersionInv, NEW r \in Reqs, Begin(r) \/ Handle(r),
         NEW n \in Names
  PROVE  StoredInv(n)'
<1>1. /\ HandlerInv(r) /\ op[r] \in Ops /\ DataOK /\ PlaceOK /\ Frame(r) /\ Elsewhere(r)
      /\ StoredInv(n)
      /\ \A p \in Reqs : met[p] \subseteq met'[p]
  BY FileParts, MetStep, FrameAll, ElsewhereAll DEF VersionInv
<1> SUFFICES ASSUME n \in present', ~Shared(n), Writers(n)' = {}
             PROVE  content'[n] \in Versions(n)
  BY <1>1, CleanBefore DEF StoredInv, Frame
<1>2. \A q \in Reqs \ {r} : q \notin Writers(n)
  BY <1>1 DEF Writers, Frame, Elsewhere, FileOf
<1>3. CASE n \in present /\ content'[n] = content[n] /\ r \notin Writers(n)
  <2>1. Writers(n) = {}
    BY <1>2, <1>3 DEF Writers
  <2> QED
    BY <1>1, <1>3, <2>1 DEF StoredInv
<1>4. CASE OpenForWrite(r)
  <2>1. /\ pc[r] = "part" /\ pc'[r] = "write" /\ FileOf(r)' = FileOf(r)
        /\ present' = present \cup {FileOf(r)}
        /\ content' = [content EXCEPT ![FileOf(r)] = <<>>]
    BY <1>1, <1>4 DEF OpenForWrite, Goes, Step, PlaceOK, FileOf
  <2>2. FileOf(r) # n
    BY <2>1 DEF Writers
  <2> QED
    BY <1>1, <1>3, <2>1, <2>2 DEF Writers, DataOK
<1>5. CASE WriteSome(r)
  <2>1. /\ pc[r] = "write" /\ pc'[r] = "write" /\ FileOf(r)' = FileOf(r) /\ present' = present
    BY <1>1, <1>5 DEF WriteSome, Goes, Step, PlaceOK, FileOf
  <2>2. PICK f : content' = [content EXCEPT ![FileOf(r)] = f]
    BY <1>5 DEF WriteSome
  <2>3. FileOf(r) # n
    BY <2>1 DEF Writers
  <2> QED
    BY <1>1, <1>3, <2>1, <2>2, <2>3 DEF Writers, DataOK
<1>6. CASE CloseSaved(r)
  <2> DEFINE d == Data(op[r], r, part[r])
  <2>1. pc[r] = "write" /\ UNCHANGED <<present, content>> /\ pos[r] = Len(d)
    BY <1>6 DEF CloseSaved, Goes, Step, disk
  <2>2. CASE FileOf(r) = n
    <3>1. op[r].kind = "upload" /\ part[r] \in PartsOf(op[r])
      BY <1>1, <2>1 DEF HandlerInv
    <3>2. content[n] = SubSeq(d, 1, Len(d))
      BY <2>1, <2>2 DEF VersionInv, WriterInv
    <3>3. SubSeq(d, 1, Len(d)) = d
      BY <1>1, <3>1, DataTypes, WholePrefix
    <3>4. d \in Versions(n)
      BY <2>2, <3>1, DataIsVersion
    <3> QED
      BY <2>1, <3>2, <3>3, <3>4
  <2>3. CASE FileOf(r) # n
    BY <1>3, <2>1, <2>3 DEF Writers
  <2> QED
    BY <2>2, <2>3
<1>7. CASE ~OpenForWrite(r) /\ ~WriteSome(r) /\ ~CloseSaved(r)
  BY <1>3, <1>7, NoWrite DEF Writers
<1> QED
  BY <1>4, <1>5, <1>6, <1>7

------------------------------------------------------------------------------
LEMMA InitVersion == Init => VersionInv
<1> SUFFICES ASSUME Init PROVE VersionInv
  OBVIOUS
<1>1. MetInv /\ \A r \in Reqs : WriterInv(r) /\ ReaderInv(r)
  BY DEF Init, MetInv, WriterInv, ReaderInv, Active
<1>2. \A n \in Names : n \in present => content[n] \in Versions(n)
  BY DEF Init, Versions
<1> QED
  BY <1>1, <1>2 DEF VersionInv, StoredInv

LEMMA VersionInductive ==
  ASSUME "full" \notin Faults, FileInv, VersionInv, [Next]_vars
  PROVE  VersionInv'
<1>1. CASE UNCHANGED <<present, content, op, pc, part, pos, size, body, answer, met>>
  <2>1. \A n : /\ Uploads(n)' = Uploads(n) /\ Versions(n)' = Versions(n)
               /\ Shared(n)' = Shared(n) /\ Writers(n)' = Writers(n)
    BY <1>1 DEF Uploads, Versions, Shared, Writers, FileOf
  <2> QED
    BY <1>1, <2>1 DEF VersionInv, MetInv, WriterInv, ReaderInv, StoredInv, Clean, Active, FileOf
<1>2. ASSUME NEW r \in Reqs, Begin(r) \/ Handle(r)
      PROVE  VersionInv'
  <2>1. MetInv'
    BY <1>2, MetStep DEF VersionInv
  <2>2. ASSUME NEW q \in Reqs
        PROVE  WriterInv(q)' /\ ReaderInv(q)'
    BY <1>2, WriterSelf, WriterOthers, ReaderSelf, ReaderOthers
  <2>3. \A n \in Names : StoredInv(n)'
    BY <1>2, StoredStep
  <2> QED
    BY <2>1, <2>2, <2>3 DEF VersionInv
<1> QED
  BY <1>1, <1>2 DEF Next, ProcessEnds, vars, disk, upload, read

\* On a disk that has room, a download never delivers a mixture: what it answers is one
\* stored version of its file, whole, unless an upload of this file overlapped with it or
\* two uploads of this file with each other. However many threads there are, however reads
\* and writes are cut into pieces, and whatever is removed meanwhile.
THEOREM WholeUnlessSharedHolds == "full" \notin Faults => (SafeSpec => []WholeUnlessShared)
<1> SUFFICES ASSUME "full" \notin Faults
             PROVE  SafeSpec => []WholeUnlessShared
  OBVIOUS
<1> DEFINE Inv == FileInv /\ VersionInv
<1>1. Init => Inv
  BY InitFile, InitVersion
<1>2. Inv /\ [Next]_vars => Inv'
  BY FileInvInductive, VersionInductive
<1>3. Inv => WholeUnlessShared
  BY DEF VersionInv, ReaderInv, Clean, Shared, WholeUnlessShared
<1> QED
  BY <1>1, <1>2, <1>3, PTL DEF SafeSpec

\* What the end of the process leaves on the disk: at every moment a file is a whole version,
\* or the beginning of what an upload at work is storing in it, unless two uploads of it
\* overlapped. For this, an upload at work is never further than the end of its data.
PosInv(r) == pc[r] = "write" => pos[r] <= Len(Data(op[r], r, part[r]))

LEMMA PosSelf ==
  ASSUME FileInv, NEW r \in Reqs, Begin(r) \/ Handle(r)
  PROVE  PosInv(r)'
<1> DEFINE d == Data(op[r], r, part[r])
<1>1. /\ HandlerInv(r) /\ op[r] \in Ops /\ DataOK /\ op' = op
  BY FileParts, FrameAll DEF Frame
<1>2. CASE OpenForWrite(r)
  <2>1. /\ op[r].kind = "upload" /\ part[r] \in PartsOf(op[r]) /\ part' = part
        /\ pos' = [pos EXCEPT ![r] = 0]
    BY <1>1, <1>2 DEF OpenForWrite, Goes, Step, HandlerInv
  <2>2. pos'[r] = 0 /\ Len(d) \in Nat
    BY <1>1, <2>1, DataTypes DEF DataOK
  <2> QED
    BY <1>1, <2>1, <2>2 DEF PosInv
<1>3. CASE WriteSome(r)
  <2>1. /\ pc[r] = "write" /\ op[r].kind = "upload" /\ part[r] \in PartsOf(op[r]) /\ part' = part
    BY <1>1, <1>3 DEF WriteSome, Goes, Step, HandlerInv
  <2>2. PICK to \in (pos[r] + 1)..Len(d) : pos' = [pos EXCEPT ![r] = to]
    BY <1>3 DEF WriteSome
  <2>3. pos'[r] = to /\ to <= Len(d)
    BY <1>1, <2>1, <2>2, DataTypes DEF DataOK
  <2> QED
    BY <1>1, <2>1, <2>3 DEF PosInv
<1>4. CASE ~OpenForWrite(r) /\ ~WriteSome(r)
  BY <1>4, NotWriting DEF PosInv
<1> QED
  BY <1>2, <1>3, <1>4

LEMMA PosInductive ==
  ASSUME FileInv, \A q \in Reqs : PosInv(q), [Next]_vars
  PROVE  \A q \in Reqs : PosInv(q)'
<1>1. CASE UNCHANGED <<op, pc, part, pos>>
  BY <1>1 DEF PosInv
<1>2. ASSUME NEW r \in Reqs, Begin(r) \/ Handle(r), NEW q \in Reqs
      PROVE  PosInv(q)'
  <2>1. CASE q = r
    BY <1>2, <2>1, PosSelf
  <2>2. CASE q # r
    <3>1. Frame(r) /\ Elsewhere(r)
      BY <1>2, FrameAll, ElsewhereAll
    <3> QED
      BY <2>2, <3>1 DEF PosInv, Frame, Elsewhere
  <2> QED
    BY <2>1, <2>2
<1> QED
  BY <1>1, <1>2 DEF Next, ProcessEnds, vars, upload

\* On a disk that has room, and at every moment, a file is whole, or an upload of it is at
\* work and it is a beginning of what this upload stores, or two uploads of it overlapped:
\* so that is what the end of the process leaves. For any number of threads, names and
\* contents.
THEOREM LeftByTheEndHolds == "full" \notin Faults => (SafeSpec => []LeftByTheEnd)
<1> SUFFICES ASSUME "full" \notin Faults
             PROVE  SafeSpec => []LeftByTheEnd
  OBVIOUS
<1> DEFINE Inv == FileInv /\ VersionInv /\ \A r \in Reqs : PosInv(r)
<1>1. Init => Inv
  BY InitFile, InitVersion DEF Init, PosInv
<1>2. Inv /\ [Next]_vars => Inv'
  BY FileInvInductive, VersionInductive, PosInductive
<1>3. Inv => LeftByTheEnd
  <2> SUFFICES ASSUME Inv, NEW n \in present, ~Shared(n), content[n] \notin Versions(n)
               PROVE  \E u \in Uploads(n) :
                        /\ pc[u] = "write" /\ FileOf(u) = n
                        /\ LET d == Data(op[u], u, part[u])
                           IN \E k \in 0..Len(d) : content[n] = SubSeq(d, 1, k)
    BY DEF LeftByTheEnd, Shared
  <2>1. n \in Names /\ DataOK
    BY FileParts DEF DataOK
  <2>2. PICK u \in Writers(n) : TRUE
    BY <2>1 DEF VersionInv, StoredInv
  <2>3. u \in Reqs /\ pc[u] = "write" /\ FileOf(u) = n
    BY <2>2 DEF Writers
  <2>4. op[u] \in Ops /\ op[u].kind = "upload" /\ part[u] \in PartsOf(op[u])
    BY <2>3, FileParts DEF HandlerInv
  <2>5. u \in Uploads(n)
    BY <2>1, <2>3, <2>4, OwnFile DEF Uploads
  <2>6. content[n] = SubSeq(Data(op[u], u, part[u]), 1, pos[u])
    BY <2>3 DEF VersionInv, WriterInv
  <2>7. pos[u] \in 0..Len(Data(op[u], u, part[u]))
    BY <2>1, <2>3, <2>4, DataTypes DEF PosInv, DataOK
  <2> QED
    BY <2>3, <2>5, <2>6, <2>7
<1> QED
  BY <1>1, <1>2, <1>3, PTL DEF SafeSpec

------------------------------------------------------------------------------
\* The handlers of a server with one thread implement FileShelf.

\* Nobody is at work beside a request.
Solo == \A q, r \in Reqs : q \in Active /\ r \in Active => q = r

\* What a request that is alone knows of the directory since it last looked.
ShelfInv(r) ==
  /\ r \in Active => ~BadRequest(op[r])
  /\ pc[r] \in {"open", "remove"} => FileOf(r) \in present
  /\ pc[r] = "read" => /\ size[r] = Len(content[FileOf(r)])
                       /\ body[r] = SubSeq(content[FileOf(r)], 1, Len(body[r]))
  /\ pc[r] \notin {"entry", "done"} => listed[r] = {}
  /\ pc[r] = "entry" => todo[r] \cup listed[r] = present

SoloInv == /\ Solo
           /\ \A r \in Reqs : met[r] = {}
           /\ \A r \in Reqs : ShelfInv(r)

\* One thread: a request begins when nobody is at work.
LEMMA SoloStep ==
  ASSUME MaxThreads = 1, FileInv, SoloInv, NEW r \in Reqs, Begin(r) \/ Handle(r)
  PROVE  /\ \A q \in Reqs \ {r} : q \notin Active /\ q \notin Active'
         /\ Solo'
         /\ \A q \in Reqs : met'[q] = {}
<1>1. Frame(r)
  BY FrameAll
<1>2. CASE Handle(r)
  <2>1. r \in Active
    BY <1>2, ActiveGrows
  <2>2. \A q \in Reqs \ {r} : q \notin Active
    BY <2>1 DEF SoloInv, Solo
  <2> QED
    BY <1>1, <1>2, <2>2, HandleKeepsMet DEF SoloInv, Solo, Active, Frame
<1>3. CASE Begin(r)
  <2>1. Cardinality(Active) < 1
    BY <1>3 DEF Begin
  <2>2. IsFiniteSet(Active)
    BY FileAssumption, FS_Subset DEF Active
  <2>3. Active = {}
    BY <2>1, <2>2, FS_CardinalityType, FS_EmptySet
  <2>4. \A q \in Reqs : met'[q] = {}
    BY <1>3, <2>3 DEF Begin, SoloInv
  <2>5. \A q \in Reqs \ {r} : q \notin Active'
    BY <1>1, <2>3 DEF Active, Frame
  <2> QED
    BY <2>3, <2>4, <2>5 DEF Solo
<1> QED
  BY <1>2, <1>3

\* A listing changes only its own names.
LEMMA ListOthers ==
  ASSUME FileInv, NEW r \in Reqs, Begin(r) \/ Handle(r), NEW q \in Reqs \ {r}
  PROVE  listed'[q] = listed[q] /\ todo'[q] = todo[q]
<1>1. DataOK
  BY FileParts
<1>2. CASE UNCHANGED listing
  BY <1>2 DEF listing
<1>3. CASE ListOpen(r) \/ ListEntry(r)
  BY <1>1, <1>3 DEF ListOpen, ListEntry, DataOK
<1> QED
  BY <1>2, <1>3 DEF Begin, Handle, Ensure, MakeDir, MakeDirThrows, Upload, PartFails, OpenForWrite,
                    WriteSome, CloseSaved, ReplyUpload, Download, CheckExists, OpenForRead, OpenFails,
                    ReadSome, ReadEnds, Find, Remove, ListEnds

LEMMA ShelfOthers ==
  ASSUME MaxThreads = 1, FileInv, SoloInv, NEW r \in Reqs, Begin(r) \/ Handle(r), NEW q \in Reqs \ {r}
  PROVE  ShelfInv(q)'
<1>1. Frame(r) /\ q \notin Active /\ q \notin Active' /\ listed'[q] = listed[q]
  BY FrameAll, SoloStep, ListOthers
<1>2. ShelfInv(q) /\ pc[q] \in {"new", "done"} /\ pc'[q] = pc[q]
  BY <1>1 DEF SoloInv, Active, Frame
<1> QED
  BY <1>1, <1>2 DEF ShelfInv
LEMMA ReadOn ==
  ASSUME NEW f \in Seq(Unit), NEW k \in Nat, NEW to \in Nat, k < to, to <= Len(f)
  PROVE  /\ SubSeq(f, 1, k) \o SubSeq(f, k + 1, to) = SubSeq(f, 1, to)
         /\ Len(SubSeq(f, 1, to)) = to
<1>1. SubSeq(f, 1, k) \o SubSeq(f, k + 1, to) = SubSeq(f, 1, to)
  BY MorePrefix
<1>2. Len(SubSeq(f, 1, to)) = to
  OBVIOUS
<1> QED
  BY <1>1, <1>2, Zenon

LEMMA ShelfSelf ==
  ASSUME MaxThreads = 1, FileInv, SoloInv, NEW r \in Reqs, Begin(r) \/ Handle(r)
  PROVE  ShelfInv(r)'
<1>1. /\ HandlerInv(r) /\ op[r] \in Ops /\ DataOK /\ PlaceOK /\ Frame(r) /\ ShelfInv(r)
  BY FileParts, FrameAll DEF SoloInv
<1>2. CASE Begin(r)
  <2>1. /\ pc[r] = "new" /\ pc'[r] \in {"ctor", "done"} /\ op' = op /\ listed' = listed
        /\ pc'[r] = "ctor" => ~BadRequest(op[r])
    BY <1>1, <1>2 DEF Begin, Step, PlaceOK, listing
  <2> QED
    BY <1>1, <2>1 DEF ShelfInv, Active
<1>3. CASE Handle(r)
  <2>1. r \in Active /\ ~BadRequest(op[r]) /\ op' = op
    BY <1>1, <1>3, ActiveGrows DEF ShelfInv, Frame
  <2>2. CASE Ensure(r) \/ MakeDir(r)
    <3>1. Work[op[r].kind] \in {"part", "exists", "find", "list"}
      BY <2>2, Constructing DEF Work
    <3>2. /\ pc[r] \in {"ctor", "mkdir"} /\ listed' = listed
          /\ pc'[r] \in {"mkdir", "part", "exists", "find", "list"}
      BY <1>1, <2>2, <3>1 DEF Ensure, MakeDir, Goes, Step, PlaceOK, listing
    <3> QED
      BY <1>1, <2>1, <3>2 DEF ShelfInv
  <2>3. CASE MakeDirThrows(r)
    <3>1. pc[r] = "mkdir" /\ pc' = pc /\ listed' = listed
      BY <2>3 DEF MakeDirThrows, listing
    <3> QED
      BY <1>1, <2>1, <3>1 DEF ShelfInv
  <2>4. CASE Upload(r)
    <3>1. pc[r] \in {"part", "write"} /\ pc'[r] \in {"part", "write", "done"} /\ listed' = listed
      BY <1>1, <2>4 DEF Upload, PartFails, OpenForWrite, WriteSome, CloseSaved, ReplyUpload, Goes,
                        Reply, Step, PlaceOK, listing
    <3> QED
      BY <1>1, <2>1, <3>1 DEF ShelfInv
  <2>5. CASE CheckExists(r) \/ Find(r)
    <3>1. /\ pc[r] \in {"exists", "find"} /\ listed' = listed /\ present' = present
          /\ FileOf(r)' = FileOf(r)
          /\ pc'[r] = "done" \/ (pc'[r] \in {"open", "remove"} /\ FileOf(r) \in present)
      BY <1>1, <2>5 DEF CheckExists, Find, Goes, Reply, Step, PlaceOK, listing, disk, upload, FileOf
    <3> QED
      BY <1>1, <2>1, <3>1 DEF ShelfInv
  <2>6. CASE OpenForRead(r)
    <3>1. /\ pc[r] = "open" /\ pc'[r] = "read" /\ listed' = listed /\ content' = content /\ body' = body
          /\ FileOf(r)' = FileOf(r) /\ FileOf(r) \in present
          /\ size'[r] = Len(content[FileOf(r)])
      BY <1>1, <2>6 DEF OpenForRead, Goes, Step, PlaceOK, DataOK, listing, disk, upload, FileOf
    <3>2. body[r] = <<>> /\ Len(body[r]) = 0
      BY <1>1, <3>1 DEF HandlerInv
    <3>3. SubSeq(content[FileOf(r)], 1, 0) = <<>>
      BY <1>1, <3>1, WholePrefix DEF DataOK
    <3> QED
      BY <1>1, <2>1, <3>1, <3>2, <3>3 DEF ShelfInv
  <2>7. CASE ReadSome(r)
    <3> DEFINE f == content[FileOf(r)]
    <3>1. /\ pc[r] = "read" /\ pc'[r] = "read" /\ listed' = listed /\ content' = content /\ size' = size
          /\ FileOf(r)' = FileOf(r)
      BY <1>1, <2>7 DEF ReadSome, Goes, Step, PlaceOK, listing, disk, upload, FileOf
    <3>2. f \in Seq(Unit) /\ body[r] \in Seq(Unit) /\ size[r] \in Nat
      BY <1>1, <3>1 DEF DataOK, HandlerInv
    <3>3. PICK to \in (Len(body[r]) + 1)..size[r] :
             /\ to <= Len(f)
             /\ body' = [body EXCEPT ![r] = @ \o SubSeq(f, Len(body[r]) + 1, to)]
      BY <2>7 DEF ReadSome
    <3>4. PICK k \in Nat : k = Len(body[r])
      BY <3>2
    <3>5. body[r] = SubSeq(f, 1, k) /\ size[r] = Len(f)
      BY <1>1, <3>1, <3>4 DEF ShelfInv
    <3>6. body'[r] = body[r] \o SubSeq(f, k + 1, to)
      BY <1>1, <3>3, <3>4 DEF DataOK
    <3>7. to \in Nat /\ k < to /\ to <= Len(f)
      BY <3>2, <3>3, <3>4
    <3>8. body'[r] = SubSeq(f, 1, to) /\ Len(body'[r]) = to
      <4>1. SubSeq(f, 1, k) \o SubSeq(f, k + 1, to) = SubSeq(f, 1, to) /\ Len(SubSeq(f, 1, to)) = to
        BY <3>2, <3>4, <3>7, ReadOn
      <4> QED
        BY <3>5, <3>6, <4>1, Zenon
    <3> HIDE DEF f
    <3>9. size'[r] = Len(f) /\ body'[r] = SubSeq(f, 1, Len(body'[r]))
      BY <3>1, <3>5, <3>8
    <3> QED
      BY <1>1, <2>1, <3>1, <3>9 DEF ShelfInv, f
  <2>8. CASE OpenFails(r) \/ ReadEnds(r) \/ Remove(r) \/ ListEnds(r)
    <3>1. pc'[r] = "done"
      BY <1>1, <2>8 DEF OpenFails, ReadEnds, Remove, ListEnds, Reply, Step, PlaceOK
    <3> QED
      BY <3>1 DEF ShelfInv, Active
  <2>9. CASE ListOpen(r)
    <3>1. /\ pc[r] = "list" /\ pc'[r] = "entry" /\ listed' = listed /\ present' = present
          /\ todo'[r] = present
      BY <1>1, <2>9 DEF ListOpen, Goes, Step, PlaceOK, DataOK, disk
    <3> QED
      BY <1>1, <2>1, <3>1 DEF ShelfInv
  <2>10. CASE ListEntry(r)
    <3>1. pc[r] = "entry" /\ pc'[r] = "entry" /\ present' = present
      BY <1>1, <2>10 DEF ListEntry, Goes, Step, PlaceOK, disk
    <3>2. PICK n \in todo[r] : todo'[r] = todo[r] \ {n} /\ listed'[r] = listed[r] \cup {n}
      BY <1>1, <2>10 DEF ListEntry, DataOK
    <3>3. todo'[r] \cup listed'[r] = todo[r] \cup listed[r]
      BY <3>2
    <3> QED
      BY <1>1, <2>1, <3>1, <3>3 DEF ShelfInv
  <2> QED
    BY <1>3, <2>2, <2>3, <2>4, <2>5, <2>6, <2>7, <2>8, <2>9, <2>10 DEF Handle, Download
<1> QED
  BY <1>2, <1>3

LEMMA SoloInvInductive ==
  ASSUME MaxThreads = 1, FileInv, SoloInv, [Next]_vars
  PROVE  SoloInv'
<1>1. CASE UNCHANGED <<present, content, op, pc, part, size, body, todo, listed, met>>
  BY <1>1 DEF SoloInv, Solo, ShelfInv, Active, FileOf
<1>2. ASSUME NEW r \in Reqs, Begin(r) \/ Handle(r)
      PROVE  SoloInv'
  BY <1>2, SoloStep, ShelfOthers, ShelfSelf DEF SoloInv
<1> QED
  BY <1>1, <1>2 DEF Next, ProcessEnds, vars, disk, upload, read, listing
------------------------------------------------------------------------------
\* What the shelf looks like, in both states of a step.

\* The handlers and the disk have the types that the mapping needs.
ViewOK == /\ content \in [Names -> Seq(Unit)]
          /\ part \in [Reqs -> Nat]
          /\ saved \in [Reqs -> SUBSET Nat]
          /\ answer \in [Reqs -> Nat]

\* While nobody writes it is the disk.
LEMMA QuietView ==
  (ViewOK /\ \A q \in Reqs : pc[q] # "write")
    => ShelfContent = content /\ ShelfPart = part /\ ShelfSaved = saved
<1> SUFFICES ASSUME ViewOK, \A q \in Reqs : pc[q] # "write"
             PROVE  ShelfContent = content /\ ShelfPart = part /\ ShelfSaved = saved
  OBVIOUS
<1>1. \A n \in Names : ~\E q \in Holders(n) : Writing(q)
  BY DEF Holders, Writing
<1>2. ShelfContent = content
  BY <1>1 DEF ShelfContent, ViewOK
<1>3. ShelfPart = part /\ ShelfSaved = saved
  BY DEF ShelfPart, ShelfSaved, Writing, ViewOK
<1> QED
  BY <1>2, <1>3

\* While somebody writes a file, the shelf has all of the file already.
WriteShows(r) == /\ ShelfContent = [content EXCEPT ![FileOf(r)] = Data(op[r], r, part[r])]
                 /\ ShelfPart = [part EXCEPT ![r] = @ + 1]
                 /\ ShelfSaved = [saved EXCEPT ![r] = @ \cup {part[r]}]

WritesAlone(r) == /\ ViewOK
                  /\ pc[r] = "write" /\ \A q \in Reqs \ {r} : pc[q] # "write"
                  /\ FileOf(r) \in Names

WritesShow == \A r \in Reqs : WritesAlone(r) => WriteShows(r)

LEMMA WriteView == WritesShow
<1> SUFFICES ASSUME NEW r \in Reqs, WritesAlone(r)
             PROVE  WriteShows(r)
  BY DEF WritesShow
<1> USE DEF WritesAlone, ViewOK
<1>1. \A n \in Names : \A q \in Holders(n) : Writing(q) => q = r /\ n = FileOf(r)
  BY DEF Holders, Writing
<1>2. r \in Holders(FileOf(r)) /\ Writing(r)
  BY DEF Holders, Writing
<1>3. (CHOOSE q \in Holders(FileOf(r)) : Writing(q)) = r
  BY <1>1, <1>2
<1>4. ShelfContent = [content EXCEPT ![FileOf(r)] = Data(op[r], r, part[r])]
  <2> DEFINE e(n) == IF \E q \in Holders(n) : Writing(q)
                     THEN LET q == CHOOSE q \in Holders(n) : Writing(q) IN Data(op[q], q, part[q])
                     ELSE content[n]
  <2>1. e(FileOf(r)) = Data(op[r], r, part[r])
    BY <1>2, <1>3
  <2>2. \A n \in Names \ {FileOf(r)} : e(n) = content[n]
    BY <1>1
  <2>3. ShelfContent = [n \in Names |-> e(n)]
    BY DEF ShelfContent
  <2> HIDE DEF e
  <2> QED
    BY <2>1, <2>2, <2>3
<1>5. ShelfPart = [part EXCEPT ![r] = @ + 1] /\ ShelfSaved = [saved EXCEPT ![r] = @ \cup {part[r]}]
  BY DEF ShelfPart, ShelfSaved, Writing
<1> QED
  BY <1>4, <1>5 DEF WriteShows

\* What a response carries is hidden until it is sent.
LEMMA HiddenView ==
  ASSUME UNCHANGED answer,
         \A q \in Reqs : answer[q] # 0 => body'[q] = body[q] /\ listed'[q] = listed[q]
  PROVE  UNCHANGED <<answer, ShelfBody, ShelfListed>>
BY DEF ShelfBody, ShelfListed

LEMMA SentView ==
  ASSUME NEW r \in Reqs, answer[r] = 0, answer'[r] # 0,
         \A q \in Reqs \ {r} : answer'[q] = answer[q],
         \A q \in Reqs \ {r} : body'[q] = body[q] /\ listed'[q] = listed[q]
  PROVE  /\ ShelfBody' = [ShelfBody EXCEPT ![r] = body'[r]]
         /\ ShelfListed' = [ShelfListed EXCEPT ![r] = listed'[r]]
         /\ body'[r] = <<>> => ShelfBody' = ShelfBody
         /\ listed'[r] = {} => ShelfListed' = ShelfListed
BY DEF ShelfBody, ShelfListed
LEMMA ViewTypes == FileInv => ViewOK
<1> SUFFICES ASSUME FileInv PROVE ViewOK
  OBVIOUS
<1>1. DataOK /\ PlaceOK
  BY FileParts
<1>2. answer \in [Reqs -> Nat]
  BY <1>1 DEF PlaceOK
<1> QED
  BY <1>1, <1>2 DEF DataOK, ViewOK

LEMMA Views ==
  ASSUME MaxThreads = 1, FileInv, SoloInv, NEW r \in Reqs, Begin(r) \/ Handle(r)
  PROVE  /\ pc[r] # "write" => ShelfContent = content /\ ShelfPart = part /\ ShelfSaved = saved
         /\ pc[r] = "write" => WriteShows(r)
         /\ pc'[r] # "write" => ShelfContent' = content' /\ ShelfPart' = part' /\ ShelfSaved' = saved'
         /\ pc'[r] = "write" => WriteShows(r)'
<1>1. FileInv'
  BY FileInvInductive DEF Next
<1>2. ViewOK /\ ViewOK'
  BY <1>1, ViewTypes, PTL
<1>3. \A q \in Reqs \ {r} : pc[q] # "write" /\ pc'[q] # "write"
  BY SoloStep DEF Active
<1>4. /\ ViewOK' /\ (\A q \in Reqs : pc[q] # "write")'
         => (ShelfContent = content /\ ShelfPart = part /\ ShelfSaved = saved)'
  BY QuietView, PTL
<1>5. WritesShow /\ WritesShow'
  BY WriteView, PTL
<1>6. pc[r] = "write" => FileOf(r) \in Names
  BY DEF FileInv, HandlerInv
<1>7. pc'[r] = "write" => FileOf(r)' \in Names
  BY <1>1 DEF FileInv, HandlerInv
<1>8. pc[r] # "write" => ShelfContent = content /\ ShelfPart = part /\ ShelfSaved = saved
  BY <1>2, <1>3, QuietView
<1>9. pc'[r] # "write" => ShelfContent' = content' /\ ShelfPart' = part' /\ ShelfSaved' = saved'
  BY <1>2, <1>3, <1>4
<1>10. pc[r] = "write" => WriteShows(r)
  BY <1>2, <1>3, <1>5, <1>6 DEF WritesAlone, WritesShow
<1>11. pc'[r] = "write" => WriteShows(r)'
  BY <1>2, <1>3, <1>5, <1>7 DEF WritesAlone, WritesShow
<1> QED
  BY <1>8, <1>9, <1>10, <1>11

\* What is hidden of the other requests stays as it was.
LEMMA HidesOthers ==
  ASSUME FileInv, NEW r \in Reqs, Begin(r) \/ Handle(r)
  PROVE  \A q \in Reqs \ {r} : body'[q] = body[q] /\ listed'[q] = listed[q]
BY ReadOthers, ListOthers

------------------------------------------------------------------------------
\* Each step is one of the shelf, or does not show.

\* A step that neither answers nor changes what the shelf looks like.
LEMMA Unseen ==
  ASSUME FileInv, NEW r \in Reqs, Begin(r) \/ Handle(r), UNCHANGED <<answer, present>>,
         UNCHANGED <<ShelfContent, ShelfPart, ShelfSaved>>
  PROVE  UNCHANGED Shelf!shelf
<1>1. op' = op /\ pc[r] # "done" /\ PlaceOK
  BY FrameAll, FileParts, HandlePlace DEF Frame, Begin, Step
<1>2. answer[r] = 0
  BY <1>1 DEF PlaceOK
<1>3. UNCHANGED <<answer, ShelfBody, ShelfListed>>
  BY <1>2, HidesOthers, HiddenView
<1> QED
  BY <1>1, <1>3 DEF Shelf!shelf

\* An answer that carries no file and no names.
LEMMA PlainReply ==
  ASSUME FileInv, SoloInv, NEW r \in Reqs, Begin(r) \/ Handle(r), answer'[r] # 0,
         pc[r] \notin {"entry", "done"}, body'[r] = <<>>, listed'[r] = listed[r]
  PROVE  UNCHANGED <<ShelfBody, ShelfListed>> /\ answer[r] = 0 /\ op' = op
<1>1. Frame(r) /\ PlaceOK
  BY FrameAll, FileParts
<1>2. answer[r] = 0 /\ op' = op /\ \A q \in Reqs \ {r} : answer'[q] = answer[q]
  BY <1>1 DEF PlaceOK, Frame
<1>3. listed'[r] = {}
  BY DEF SoloInv, ShelfInv
<1> QED
  BY <1>2, <1>3, HidesOthers, SentView

\* Beginning a request shows only when it is refused.
LEMMA BeginShows ==
  ASSUME MaxThreads = 1, FileInv, SoloInv, NEW r \in Reqs, Begin(r)
  PROVE  Shelf!Refuse(r) \/ UNCHANGED Shelf!shelf
<1>1. /\ pc[r] = "new" /\ pc'[r] \in {"ctor", "done"}
      /\ UNCHANGED <<disk, upload, read, listing>>
      /\ PlaceOK /\ op[r] \in Ops /\ HandlerInv(r)
  BY FileParts DEF Begin, Step, PlaceOK
<1>2. UNCHANGED <<present, ShelfContent, ShelfPart, ShelfSaved>>
  BY <1>1, Views DEF disk, upload
<1>3. CASE BadRequest(op[r])
  <2>1. answer' = [answer EXCEPT ![r] = Refusal(op[r])] /\ pc'[r] = "done"
    BY <1>1, <1>3 DEF Begin, Step, PlaceOK
  <2>2. Refusal(op[r]) \in Nat \ {0}
    BY <1>1, RefusalType
  <2>3. body'[r] = <<>> /\ listed'[r] = listed[r]
    BY <1>1 DEF HandlerInv, read, listing
  <2>4. answer'[r] # 0
    BY <1>1, <2>1, <2>2 DEF PlaceOK
  <2>5. UNCHANGED <<ShelfBody, ShelfListed>> /\ answer[r] = 0 /\ op' = op
    BY <1>1, <2>3, <2>4, PlainReply
  <2>6. Shelf!BadRequest(op[r]) /\ Shelf!Refusal(op[r]) = Refusal(op[r])
    BY <1>3 DEF Shelf!BadRequest, Shelf!Refusal, BadRequest, Refusal
  <2> QED
    BY <1>2, <2>1, <2>5, <2>6 DEF Shelf!Refuse, Shelf!Reply
<1>4. CASE ~BadRequest(op[r])
  <2>1. UNCHANGED answer
    BY <1>4 DEF Begin
  <2> QED
    BY <1>2, <2>1, Unseen
<1> QED
  BY <1>3, <1>4
LEMMA ConstructShows ==
  ASSUME MaxThreads = 1, FileInv, SoloInv, NEW r \in Reqs, Ensure(r) \/ MakeDir(r) \/ MakeDirThrows(r)
  PROVE  UNCHANGED Shelf!shelf
<1>1. Handle(r) /\ PlaceOK
  BY FileParts DEF Handle
<1>2. /\ pc[r] \in {"ctor", "mkdir"}
      /\ UNCHANGED <<present, content, part, saved, answer>>
  BY DEF Ensure, MakeDir, MakeDirThrows, Goes, Step, disk, upload
<1>3. pc'[r] # "write"
  <2>1. Work[op[r].kind] \in {"part", "exists", "find", "list"}
    BY Constructing DEF Work
  <2> QED
    BY <1>1, <1>2, <2>1 DEF Ensure, MakeDir, MakeDirThrows, Goes, Step, PlaceOK
<1> QED
  BY <1>1, <1>2, <1>3, Views, Unseen

\* A part that fails is skipped, one that is opened is saved, and the rest of it does not show.
LEMMA PartShows ==
  ASSUME MaxThreads = 1, FileInv, SoloInv, NEW r \in Reqs, PartFails(r) \/ OpenForWrite(r)
  PROVE  Shelf!Skip(r) \/ Shelf!Save(r)
<1>1. Handle(r) /\ PlaceOK /\ DataOK /\ HandlerInv(r) /\ ShelfInv(r)
  BY FileParts DEF Handle, Upload, SoloInv
<1>2. /\ pc[r] = "part" /\ pc'[r] \in {"part", "write"} /\ UNCHANGED <<op, answer, body, listed>>
      /\ part[r] \in PartsOf(op[r])
  BY <1>1 DEF PartFails, OpenForWrite, Goes, Step, PlaceOK, read, listing
<1>3. /\ op[r].kind = "upload" /\ answer[r] = 0
      /\ FileOf(r) = op[r].parts[part[r]].name
      /\ Shelf!PartsOf(op[r]) = PartsOf(op[r])
  BY <1>1, <1>2 DEF HandlerInv, PlaceOK, FileOf, PartsOf, Shelf!PartsOf
<1>4. UNCHANGED <<answer, ShelfBody, ShelfListed>>
  BY <1>2, HiddenView
<1>5. ShelfContent = content /\ ShelfPart = part /\ ShelfSaved = saved
  BY <1>1, <1>2, Views
<1>6. CASE PartFails(r)
  <2>1. /\ pc'[r] = "part" /\ UNCHANGED <<present, content, saved>>
        /\ part' = [part EXCEPT ![r] = @ + 1]
        /\ FileOf(r) \in Names => "open" \in Faults
    BY <1>1, <1>6 DEF PartFails, Goes, Step, PlaceOK, disk
  <2>2. ShelfContent' = content' /\ ShelfPart' = part' /\ ShelfSaved' = saved'
    BY <1>1, <2>1, Views
  <2>3. Shelf!Skip(r)
    BY <1>2, <1>3, <1>4, <1>5, <2>1, <2>2 DEF Shelf!Skip
  <2> QED
    BY <2>3
<1>7. CASE OpenForWrite(r)
  <2> DEFINE n == FileOf(r)
             d == Data(op[r], r, part[r])
  <2>1. /\ pc'[r] = "write" /\ n \in Names /\ UNCHANGED <<part, saved>>
        /\ present' = present \cup {n}
        /\ content' = [content EXCEPT ![n] = <<>>]
        /\ FileOf(r)' = n /\ Data(op[r], r, part[r])' = d
    BY <1>1, <1>2, <1>7 DEF OpenForWrite, Goes, Step, PlaceOK, FileOf, Data
  <2>2. WriteShows(r)'
    BY <1>1, <2>1, Views
  <2>3. /\ ShelfContent' = [content' EXCEPT ![n] = d]
        /\ ShelfPart' = [part EXCEPT ![r] = @ + 1]
        /\ ShelfSaved' = [saved EXCEPT ![r] = @ \cup {part[r]}]
    BY <2>1, <2>2 DEF WriteShows
  <2>4. Shelf!Data(op[r], r, part[r]) = d
    BY DEF Shelf!Data, Data
  <2> HIDE DEF d, n
  <2>5. ShelfContent' = [content EXCEPT ![n] = d]
    BY <1>1, <2>1, <2>3 DEF DataOK
  <2>6. Shelf!Save(r)
    BY <1>2, <1>3, <1>4, <1>5, <2>1, <2>3, <2>4, <2>5 DEF Shelf!Save, n
  <2> QED
    BY <2>6
<1> QED
  BY <1>6, <1>7

LEMMA WriteHidden ==
  ASSUME MaxThreads = 1, "full" \notin Faults, FileInv, VersionInv, SoloInv, NEW r \in Reqs,
         WriteSome(r) \/ CloseSaved(r)
  PROVE  UNCHANGED Shelf!shelf
<1> DEFINE n == FileOf(r)
           d == Data(op[r], r, part[r])
<1>1. Handle(r) /\ PlaceOK /\ DataOK /\ HandlerInv(r) /\ WriterInv(r) /\ op[r] \in Ops
  BY FileParts DEF Handle, Upload, VersionInv
<1>2. /\ pc[r] = "write" /\ UNCHANGED <<op, present, answer>>
  BY DEF WriteSome, CloseSaved, Goes, Step, disk
<1>3. n \in Names /\ part[r] \in PartsOf(op[r]) /\ op[r].kind = "upload"
  BY <1>1, <1>2 DEF HandlerInv
<1>4. WriteShows(r)
  BY <1>1, <1>2, Views
<1>5. CASE WriteSome(r)
  <2>1. PICK f : content' = [content EXCEPT ![n] = f]
    BY <1>5 DEF WriteSome
  <2>2. pc'[r] = "write" /\ UNCHANGED <<part, saved>> /\ n' = n /\ d' = d
    <3>1. Step(r, "write", "write") /\ UNCHANGED <<part, saved>>
      BY <1>5 DEF WriteSome, Goes
    <3> QED
      BY <1>1, <3>1 DEF Step, PlaceOK, FileOf, Data
  <2>3. WriteShows(r)'
    BY <1>1, <2>2, Views
  <2>4. [content' EXCEPT ![n] = d] = [content EXCEPT ![n] = d]
    BY <1>1, <2>1 DEF DataOK
  <2>5. UNCHANGED <<ShelfContent, ShelfPart, ShelfSaved>>
    BY <1>4, <2>2, <2>3, <2>4 DEF WriteShows
  <2> QED
    BY <1>1, <1>2, <2>5, Unseen
<1>6. CASE CloseSaved(r)
  <2>1. /\ pc'[r] = "part" /\ pos[r] = Len(d) /\ UNCHANGED content
        /\ saved' = [saved EXCEPT ![r] = @ \cup {part[r]}]
        /\ part' = [part EXCEPT ![r] = @ + 1]
    BY <1>1, <1>6 DEF CloseSaved, Goes, Step, PlaceOK, disk
  <2>2. ~Shared(n)
    BY DEF SoloInv, Shared, Uploads
  <2>3. content[n] = SubSeq(d, 1, Len(d))
    BY <1>1, <1>2, <2>1, <2>2 DEF WriterInv
  <2>4. content[n] = d
    BY <1>1, <1>3, <2>3, DataTypes, WholePrefix
  <2>5. ShelfContent' = content' /\ ShelfPart' = part' /\ ShelfSaved' = saved'
    BY <1>1, <2>1, Views
  <2>6. [content EXCEPT ![n] = d] = content
    BY <1>1, <2>4 DEF DataOK
  <2>7. UNCHANGED <<ShelfContent, ShelfPart, ShelfSaved>>
    BY <1>4, <2>1, <2>5, <2>6 DEF WriteShows
  <2> QED
    BY <1>1, <1>2, <2>7, Unseen
<1> QED
  BY <1>5, <1>6

LEMMA ReplyUploadShows ==
  ASSUME MaxThreads = 1, FileInv, SoloInv, NEW r \in Reqs, ReplyUpload(r)
  PROVE  Shelf!Stored(r)
<1>1. Handle(r) /\ PlaceOK /\ DataOK /\ HandlerInv(r) /\ ShelfInv(r)
  BY FileParts DEF Handle, Upload, SoloInv
<1>2. /\ pc[r] = "part" /\ pc'[r] = "done" /\ part[r] > Len(op[r].parts)
      /\ answer' = [answer EXCEPT ![r] = UploadStatus(op[r], saved[r])]
      /\ UNCHANGED <<present, content, part, saved, body, listed>>
  BY <1>1 DEF ReplyUpload, Reply, Step, PlaceOK, disk, upload, read, listing
<1>3. op[r].kind = "upload" /\ op[r].parts # <<>> /\ body[r] = <<>>
  BY <1>1, <1>2 DEF HandlerInv, ShelfInv, Active, BadRequest
<1>4. UNCHANGED <<ShelfBody, ShelfListed>> /\ answer[r] = 0 /\ op' = op
  <2>1. answer'[r] # 0
    BY <1>1, <1>2, StatusType DEF PlaceOK
  <2>2. pc[r] \notin {"entry", "done"} /\ Handle(r) /\ listed'[r] = listed[r] /\ body'[r] = <<>>
    BY <1>1, <1>2, <1>3
  <2> QED
    BY <2>1, <2>2, PlainReply
<1>5. /\ ShelfContent = content /\ ShelfPart = part /\ ShelfSaved = saved
      /\ ShelfContent' = content /\ ShelfPart' = part /\ ShelfSaved' = saved
  BY <1>1, <1>2, Views
<1>6. Shelf!UploadStatus(op[r], saved[r]) = UploadStatus(op[r], saved[r])
  BY DEF Shelf!UploadStatus, UploadStatus, Shelf!PartsOf, PartsOf
<1> QED
  BY <1>2, <1>3, <1>4, <1>5, <1>6 DEF Shelf!Stored, Shelf!Reply
LEMMA DownloadShows ==
  ASSUME MaxThreads = 1, FileInv, SoloInv, NEW r \in Reqs, Download(r)
  PROVE  Shelf!Download(r) \/ UNCHANGED Shelf!shelf
<1> DEFINE n == op[r].name
<1>1. Handle(r) /\ PlaceOK /\ DataOK /\ HandlerInv(r) /\ ShelfInv(r)
  BY FileParts DEF Handle, SoloInv
<1>2. /\ pc[r] \in {"exists", "open", "read"} /\ pc'[r] # "write"
      /\ UNCHANGED <<op, present, content, part, saved, listed>>
  <2>1. UNCHANGED <<disk, upload>> /\ listed' = listed
    BY DEF Download, CheckExists, OpenForRead, OpenFails, ReadSome, ReadEnds, listing
  <2>2. PICK from \in {"exists", "open", "read"}, to \in {"open", "read", "done"} : Step(r, from, to)
    BY DEF Download, CheckExists, OpenForRead, OpenFails, ReadSome, ReadEnds, Goes, Reply
  <2> QED
    BY <1>1, <2>1, <2>2 DEF Step, PlaceOK, disk, upload
<1>3. op[r].kind = "download" /\ n \in Names /\ FileOf(r) = n /\ answer[r] = 0
  BY <1>1, <1>2 DEF HandlerInv, PlaceOK, FileOf
<1>4. /\ ShelfContent = content /\ ShelfPart = part /\ ShelfSaved = saved
      /\ UNCHANGED <<ShelfContent, ShelfPart, ShelfSaved>>
  BY <1>1, <1>2, Views
<1>5. CASE UNCHANGED answer
  BY <1>1, <1>2, <1>4, <1>5, Unseen
<1>6. ASSUME NEW status \in {404, 500}, Reply(r, pc[r], status), body'[r] = <<>>,
             status = 404 => n \notin present,
             status = 500 => n \in present /\ (content[n] = <<>> \/ "open" \in Faults)
      PROVE  Shelf!Download(r)
  <2>1. answer' = [answer EXCEPT ![r] = status] /\ pc'[r] = "done"
    BY <1>1, <1>6 DEF Reply, Step, PlaceOK
  <2>2. UNCHANGED <<ShelfBody, ShelfListed>>
    <3>1. answer'[r] # 0
      BY <1>1, <2>1 DEF PlaceOK
    <3>2. pc[r] \notin {"entry", "done"} /\ Handle(r) /\ listed'[r] = listed[r] /\ body'[r] = <<>>
      BY <1>1, <1>2, <1>6
    <3> QED
      BY <3>1, <3>2, PlainReply
  <2> QED
    BY <1>2, <1>3, <1>4, <1>6, <2>1, <2>2 DEF Shelf!Download, Shelf!Reply
<1>7. CASE CheckExists(r) /\ ~UNCHANGED answer
  <2>1. pc[r] = "exists" /\ Reply(r, pc[r], 404) /\ n \notin present /\ UNCHANGED body
    BY <1>3, <1>7 DEF CheckExists, Goes, Reply, Step, read
  <2> QED
    BY <1>1, <1>6, <2>1 DEF HandlerInv
<1>8. CASE OpenFails(r)
  <2>1. pc[r] = "open" /\ Reply(r, pc[r], 500) /\ UNCHANGED body
    BY <1>8 DEF OpenFails, Reply, Step, read
  <2>2. n \in present /\ "open" \in Faults
    BY <1>1, <1>3, <1>8, <2>1 DEF OpenFails, ShelfInv
  <2> QED
    BY <1>1, <1>6, <2>1, <2>2 DEF HandlerInv
<1>9. CASE ReadEnds(r)
  <2> DEFINE k == Len(body[r])
  <2>1. pc[r] = "read"
    BY <1>9 DEF ReadEnds, Reply, Step
  <2>2. /\ size[r] = Len(content[n]) /\ n \in present
        /\ content[n] \in Seq(Unit) /\ body[r] \in Seq(Unit)
    BY <1>1, <1>3, <2>1 DEF ShelfInv, HandlerInv, DataOK
  <2>3. k = size[r]
    <3>1. k <= size[r] /\ (k = size[r] \/ Len(content[n]) <= k)
      BY <1>1, <1>3, <1>9 DEF ReadEnds, DataOK
    <3>2. k \in Nat /\ size[r] \in Nat
      BY <2>2
    <3> QED
      BY <2>2, <3>1, <3>2
  <2>4. body[r] = content[n]
    <3>1. body[r] = SubSeq(content[n], 1, k)
      BY <1>1, <1>3, <2>1 DEF ShelfInv
    <3>2. body[r] = SubSeq(content[n], 1, Len(content[n]))
      BY <2>2, <2>3, <3>1, Zenon
    <3> QED
      BY <2>2, <3>2, WholePrefix
  <2>5. body' = body
    BY <1>9, <2>3 DEF ReadEnds
  <2>6. CASE content[n] = <<>>
    <3>1. size[r] = 0 /\ body'[r] = <<>>
      BY <2>2, <2>4, <2>5, <2>6
    <3>2. Reply(r, pc[r], 500)
      BY <1>9, <2>1, <3>1 DEF ReadEnds
    <3> QED
      BY <1>6, <2>2, <2>6, <3>1, <3>2
  <2>7. CASE content[n] # <<>>
    <3>1. size[r] # 0
      BY <2>2, <2>7
    <3>2. Reply(r, "read", 200)
      BY <1>9, <2>3, <3>1 DEF ReadEnds
    <3>3. answer' = [answer EXCEPT ![r] = 200] /\ answer \in [Reqs -> Nat]
      BY <3>2, ViewTypes DEF Reply, ViewOK
    <3>4. listed'[r] = {}
      BY <1>1, <1>2, <2>1 DEF ShelfInv
    <3>5. /\ ShelfBody' = [ShelfBody EXCEPT ![r] = content[n]]
          /\ ShelfListed' = ShelfListed
      <4>1. \A q \in Reqs \ {r} : body'[q] = body[q] /\ listed'[q] = listed[q]
        BY <1>1, HidesOthers
      <4>2. body'[r] = content[n]
        BY <2>4, <2>5
      <4>3. answer'[r] # 0 /\ \A q \in Reqs \ {r} : answer'[q] = answer[q]
        BY <3>3
      <4> QED
        BY <1>3, <3>4, <4>1, <4>2, <4>3, SentView
    <3> QED
      BY <1>2, <1>3, <1>4, <2>2, <2>7, <3>3, <3>5 DEF Shelf!Download, Shelf!Reply
  <2> QED
    BY <2>6, <2>7
<1>10. CASE OpenForRead(r) \/ ReadSome(r)
  BY <1>5, <1>10 DEF OpenForRead, ReadSome, Goes
<1> QED
  BY <1>5, <1>7, <1>8, <1>9, <1>10 DEF Download

LEMMA DeleteShows ==
  ASSUME MaxThreads = 1, FileInv, SoloInv, NEW r \in Reqs, Find(r) \/ Remove(r)
  PROVE  Shelf!Delete(r) \/ UNCHANGED Shelf!shelf
<1> DEFINE n == op[r].name
<1>1. Handle(r) /\ PlaceOK /\ DataOK /\ HandlerInv(r) /\ ShelfInv(r)
  BY FileParts DEF Handle, SoloInv
<1>2. /\ pc[r] \in {"find", "remove"} /\ pc'[r] # "write"
      /\ UNCHANGED <<op, part, saved, body, listed>>
  BY <1>1 DEF Find, Remove, Goes, Reply, Step, PlaceOK, upload, read, listing
<1>3. op[r].kind = "delete" /\ n \in Names /\ FileOf(r) = n /\ answer[r] = 0 /\ body[r] = <<>>
  BY <1>1, <1>2 DEF HandlerInv, PlaceOK, FileOf
<1>4. /\ ShelfContent = content /\ ShelfPart = part /\ ShelfSaved = saved
      /\ ShelfContent' = content' /\ UNCHANGED <<ShelfPart, ShelfSaved>>
  BY <1>1, <1>2, Views
<1>5. CASE pc[r] = "find" /\ UNCHANGED answer
  <2>1. UNCHANGED <<present, content>>
    BY <1>5 DEF Find, Remove, Reply, Step, disk
  <2> QED
    BY <1>1, <1>4, <1>5, <2>1, Unseen
<1>6. ASSUME NEW status \in {200, 500}, Reply(r, pc[r], status),
             status = 200 <=> n \in present,
             present' = present \ {n}, content' = [content EXCEPT ![n] = <<>>]
      PROVE  Shelf!Delete(r)
  <2>1. answer' = [answer EXCEPT ![r] = status] /\ pc'[r] = "done"
    BY <1>1, <1>6 DEF Reply, Step, PlaceOK
  <2>2. UNCHANGED <<ShelfBody, ShelfListed>>
    <3>1. answer'[r] # 0
      BY <1>1, <2>1 DEF PlaceOK
    <3>2. pc[r] \notin {"entry", "done"} /\ Handle(r) /\ listed'[r] = listed[r] /\ body'[r] = <<>>
      BY <1>1, <1>2, <1>3
    <3> QED
      BY <3>1, <3>2, PlainReply
  <2>3. status = IF n \in present THEN 200 ELSE 500
    BY <1>6
  <2> QED
    BY <1>2, <1>3, <1>4, <1>6, <2>1, <2>2, <2>3 DEF Shelf!Delete, Shelf!Reply
<1>7. CASE Find(r) /\ ~UNCHANGED answer
  <2>1. pc[r] = "find" /\ Reply(r, pc[r], 500) /\ n \notin present /\ UNCHANGED <<present, content>>
    BY <1>3, <1>7 DEF Find, Goes, Reply, Step, disk
  <2>2. content = [content EXCEPT ![n] = <<>>] /\ present = present \ {n}
    BY <1>1, <1>3, <2>1 DEF DataOK
  <2> QED
    BY <1>6, <2>1, <2>2
<1>8. CASE Remove(r)
  <2>1. pc[r] = "remove"
    BY <1>8 DEF Remove, Reply, Step
  <2>2. n \in present
    BY <1>1, <1>3, <2>1 DEF ShelfInv
  <2>3. Holders(n) = {}
    BY <1>1, <2>1, SoloStep DEF Holders, Active
  <2>4. Reply(r, pc[r], 200) /\ present' = present \ {n} /\ content' = [content EXCEPT ![n] = <<>>]
    BY <1>3, <1>8, <2>1, <2>2, <2>3 DEF Remove
  <2> QED
    BY <1>6, <2>2, <2>4
<1>9. CASE Find(r) /\ UNCHANGED answer
  BY <1>5, <1>9 DEF Find, Goes, Reply, Step
<1> QED
  BY <1>7, <1>8, <1>9

LEMMA ListShows ==
  ASSUME MaxThreads = 1, FileInv, SoloInv, NEW r \in Reqs, ListOpen(r) \/ ListEntry(r) \/ ListEnds(r)
  PROVE  Shelf!List(r) \/ UNCHANGED Shelf!shelf
<1>1. Handle(r) /\ PlaceOK /\ DataOK /\ HandlerInv(r) /\ ShelfInv(r)
  BY FileParts DEF Handle, SoloInv
<1>2. /\ pc[r] \in {"list", "entry"} /\ pc'[r] # "write"
      /\ UNCHANGED <<op, present, content, part, saved, body>>
  BY <1>1 DEF ListOpen, ListEntry, ListEnds, Goes, Reply, Step, PlaceOK, disk, upload, read
<1>3. op[r].kind = "list" /\ answer[r] = 0 /\ body[r] = <<>>
  BY <1>1, <1>2 DEF HandlerInv, PlaceOK
<1>4. ShelfContent = content /\ UNCHANGED <<ShelfContent, ShelfPart, ShelfSaved>>
  BY <1>1, <1>2, Views
<1>5. CASE ListOpen(r) \/ ListEntry(r)
  <2>1. UNCHANGED answer
    BY <1>5 DEF ListOpen, ListEntry, Goes
  <2> QED
    BY <1>1, <1>2, <1>4, <2>1, Unseen
<1>6. CASE ListEnds(r)
  <2>1. pc[r] = "entry" /\ UNCHANGED listed /\ answer' = [answer EXCEPT ![r] = 200]
    BY <1>6 DEF ListEnds, Reply, Step, listing
  <2>2. listed[r] = present
    BY <1>1, <1>6, <2>1 DEF ListEnds, ShelfInv
  <2>3. answer \in [Reqs -> Nat] /\ body' = body
    BY <1>2, ViewTypes DEF ViewOK
  <2>4. ShelfListed' = [ShelfListed EXCEPT ![r] = present] /\ UNCHANGED ShelfBody
    <3>1. \A q \in Reqs \ {r} : body'[q] = body[q] /\ listed'[q] = listed[q]
      BY <1>1, HidesOthers
    <3>2. body'[r] = <<>> /\ listed'[r] = present
      BY <1>3, <2>1, <2>2, <2>3
    <3>3. answer'[r] # 0 /\ \A q \in Reqs \ {r} : answer'[q] = answer[q]
      BY <2>1, <2>3
    <3> QED
      BY <1>3, <3>1, <3>2, <3>3, SentView
  <2> QED
    BY <1>2, <1>3, <1>4, <2>1, <2>4 DEF Shelf!List, Shelf!Reply
<1> QED
  BY <1>5, <1>6

------------------------------------------------------------------------------
LEMMA ShelfInit == Init => Shelf!Init /\ SoloInv
<1> SUFFICES ASSUME Init PROVE Shelf!Init /\ SoloInv
  OBVIOUS
<1>1. ViewOK
  BY InitFile, ViewTypes
<1>2. ShelfContent = content /\ ShelfPart = part /\ ShelfSaved = saved
  BY <1>1, QuietView DEF Init
<1>3. ShelfBody = [r \in Reqs |-> <<>>] /\ ShelfListed = [r \in Reqs |-> {}]
  BY DEF Init, ShelfBody, ShelfListed
<1>4. Shelf!Init
  BY <1>2, <1>3 DEF Init, Shelf!Init
<1>5. SoloInv
  BY DEF Init, SoloInv, Solo, ShelfInv, Active
<1> QED
  BY <1>4, <1>5

\* With one thread, as in the server, and a disk that has room, every behaviour of the
\* handlers is one of FileShelf: each save, read, removal and listing happens at once and
\* as a whole, however it is cut into calls of the file system. For any number of requests
\* and names, all contents, and files or directories that cannot be opened or made.
THEOREM HandlersImplementShelf ==
  (MaxThreads = 1 /\ "full" \notin Faults) => (SafeSpec => ShelfSpec)
<1> SUFFICES ASSUME MaxThreads = 1, "full" \notin Faults
             PROVE  SafeSpec => ShelfSpec
  OBVIOUS
<1> DEFINE Inv == FileInv /\ VersionInv /\ SoloInv
<1>1. Init => Inv /\ Shelf!Init
  BY InitFile, InitVersion, ShelfInit
<1>2. Inv /\ [Next]_vars => Inv'
  BY FileInvInductive, VersionInductive, SoloInvInductive
<1>3. Inv /\ [Next]_vars => [Shelf!Next]_(Shelf!shelf)
  <2> SUFFICES ASSUME Inv, [Next]_vars
               PROVE  Shelf!Next \/ UNCHANGED Shelf!shelf
    OBVIOUS
  <2>1. ASSUME NEW r \in Reqs, Begin(r) \/ Handle(r)
        PROVE  Shelf!Next \/ UNCHANGED Shelf!shelf
    BY <2>1, BeginShows, ConstructShows, PartShows, WriteHidden, ReplyUploadShows, DownloadShows,
       DeleteShows, ListShows DEF Handle, Upload, Shelf!Next
  <2>2. CASE ProcessEnds \/ UNCHANGED vars
    BY <2>2 DEF ProcessEnds, vars, disk, upload, read, listing, Shelf!shelf, ShelfContent, ShelfPart,
                ShelfSaved, ShelfBody, ShelfListed, Holders, Writing, FileOf
  <2> QED
    BY <2>1, <2>2 DEF Next
<1> QED
  BY <1>1, <1>2, <1>3, PTL DEF SafeSpec, ShelfSpec, Shelf!Spec
==============================================================================
