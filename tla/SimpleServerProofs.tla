-------------------------- MODULE SimpleServerProofs --------------------------
(***************************************************************************)
(* Theorems about module SimpleServer. Its steps are steps of the handlers *)
(* of module FileStore or leave them alone, so what is proved there for    *)
(* any number of threads holds of the server in front of them.             *)
(***************************************************************************)
EXTENDS SimpleServer, FileVersionProofs

LEMMA StoreStep ==
  ASSUME [SimpleNext]_allVars
  PROVE  [Next]_vars
<1>1. CASE Listen \/ ListenFails
  BY <1>1 DEF Listen, ListenFails, Next
<1>2. ASSUME NEW r \in Reqs, Connect(r) \/ Accept(r) \/ RecvNothing(r) \/ Finish(r)
      PROVE  UNCHANGED vars
  BY <1>2 DEF Connect, Accept, RecvNothing, Finish
<1>3. ASSUME NEW r \in Reqs, ThreadFails(r) \/ Recv(r) \/ Serve(r)
      PROVE  Next
  BY <1>3 DEF ThreadFails, Recv, Serve, Next
<1> QED
  BY <1>1, <1>2, <1>3 DEF SimpleNext, HandleClient, allVars

\* The simple server is an implementation of the handlers over the upload directory with a
\* thread for each request: every behaviour of it is one of FileStore. So whatever is proved
\* of FileStore for any number of threads holds of this server.
THEOREM SimpleImplementsStore == SimpleSafeSpec => SafeSpec
<1>1. SimpleInit => Init
  BY DEF SimpleInit
<1> QED
  BY <1>1, StoreStep, PTL DEF SimpleSafeSpec, SafeSpec

\* What is on the disk of the simple server and what it answers: types, no download beyond
\* the size it was told, removed once; and on a disk that has room, saved data stays and no
\* download delivers a mixture, and the end of the process leaves whole files and the
\* beginnings of those being written.
THEOREM SimpleServerFiles ==
  /\ SimpleSafeSpec => [](FileTypeOK /\ RemovedOnce)
  /\ "full" \notin Faults => (SimpleSafeSpec => [](SavedStays /\ WholeUnlessShared /\ LeftByTheEnd))
<1>1. SimpleSafeSpec => [](FileTypeOK /\ RemovedOnce)
  BY SimpleImplementsStore, FileTypeCorrect, RemovedOnceHolds, PTL
<1>2. ASSUME "full" \notin Faults
      PROVE  SimpleSafeSpec => [](SavedStays /\ WholeUnlessShared /\ LeftByTheEnd)
  <2>1. (SafeSpec => []SavedStays) /\ (SafeSpec => []WholeUnlessShared) /\ (SafeSpec => []LeftByTheEnd)
    BY <1>2, SavedStaysHolds, WholeUnlessSharedHolds, LeftByTheEndHolds
  <2> QED
    BY <2>1, SimpleImplementsStore, PTL
<1> QED
  BY <1>1, <1>2

------------------------------------------------------------------------------
\* What Moves does to the connections.
LEMMA MovesType ==
  ASSUME SimpleTypeOK, NEW r \in Reqs, NEW from, NEW to \in ConnStates, Moves(r, from, to)
  PROVE  /\ conn' \in [Reqs -> ConnStates]
         /\ conn[r] = from /\ conn'[r] = to
         /\ \A q \in Reqs \ {r} : conn'[q] = conn[q]
         /\ UNCHANGED <<ask, main>>
BY DEF Moves, SimpleTypeOK

\* A step of a handler moves its own thread only, from inside the handlers and never back
\* to the beginning.
LEMMA HandlerFrame ==
  ASSUME FileInv, NEW r \in Reqs, Begin(r) \/ Handle(r)
  PROVE  /\ pc'[r] # "new"
         /\ \A q \in Reqs \ {r} : pc'[q] = pc[q]
         /\ Begin(r) => pc[r] = "new"
         /\ Handle(r) => pc[r] \notin {"new", "done"}
<1>1. Begin(r) => pc[r] = "new"
  BY DEF Begin, Step
<1> QED
  BY <1>1, HandlePlace, FrameAll DEF Frame

\* Where the request of r may be while its connection is in state c.
Fits(r, c) == /\ c \in {"away", "backlog", "recv"} => pc[r] = "new"
              /\ c = "serving" => pc[r] # "new"
              /\ c = "closed" => pc[r] \in {"new", "done"}

LEMMA SimpleTypeInductive ==
  ASSUME FileInv, SimpleTypeOK, [SimpleNext]_allVars
  PROVE  SimpleTypeOK'
<1>0. \A q \in Reqs : Fits(q, conn[q])
  BY DEF SimpleTypeOK, Fits
<1>1. CASE UNCHANGED allVars
  BY <1>1 DEF allVars, vars, server, SimpleTypeOK
<1>2. CASE Listen \/ ListenFails
  BY <1>2 DEF Listen, ListenFails, ProcessEnds, SimpleTypeOK, vars, server
<1>3. ASSUME NEW r \in Reqs, ThreadFails(r)
      PROVE  SimpleTypeOK'
  BY <1>3 DEF ThreadFails, ProcessEnds, SimpleTypeOK, server
<1>4. ASSUME NEW r \in Reqs, NEW from, NEW to \in ConnStates, Moves(r, from, to),
             \A q \in Reqs \ {r} : pc'[q] = pc[q],
             Fits(r, to)'
      PROVE  SimpleTypeOK'
  <2>1. \A q \in Reqs : Fits(q, conn[q])'
    BY <1>0, <1>4, MovesType DEF Fits
  <2> QED
    BY <1>4, <2>1, MovesType DEF SimpleTypeOK, Fits
<1>5. ASSUME NEW r \in Reqs, Connect(r) \/ Accept(r) \/ RecvNothing(r) \/ Finish(r)
      PROVE  SimpleTypeOK'
  <2>1. PICK from \in ConnStates, to \in ConnStates :
          /\ Moves(r, from, to) /\ pc' = pc
          /\ from \in {"away", "backlog", "recv"} \/ pc[r] = "done"
          /\ to \in {"backlog", "recv"} => from \in {"away", "backlog"}
          /\ to \in {"backlog", "recv", "closed"}
    BY <1>5 DEF Connect, Accept, RecvNothing, Finish, ConnStates, vars
  <2>2. Fits(r, from)
    BY <1>0, <2>1 DEF Moves
  <2>3. Fits(r, to)'
    BY <2>1, <2>2 DEF Fits
  <2> QED
    BY <1>4, <2>1, <2>3
<1>6. ASSUME NEW r \in Reqs, Recv(r)
      PROVE  SimpleTypeOK'
  <2>1. Moves(r, "recv", "serving") /\ Begin(r)
    BY <1>6 DEF Recv
  <2>2. Fits(r, "serving")' /\ \A q \in Reqs \ {r} : pc'[q] = pc[q]
    BY <2>1, HandlerFrame DEF Fits
  <2> QED
    BY <1>4, <2>1, <2>2 DEF ConnStates
<1>7. ASSUME NEW r \in Reqs, Serve(r)
      PROVE  SimpleTypeOK'
  <2>1. Handle(r) /\ UNCHANGED <<ask, conn, main>>
    BY <1>7 DEF Serve, server
  <2>2. /\ pc'[r] # "new" /\ pc[r] \notin {"new", "done"}
        /\ \A q \in Reqs \ {r} : pc'[q] = pc[q]
    BY <2>1, HandlerFrame
  <2>3. conn[r] = "serving"
    BY <1>0, <2>2 DEF Fits, SimpleTypeOK, ConnStates
  <2>4. \A q \in Reqs : Fits(q, conn[q])'
    BY <1>0, <2>1, <2>2, <2>3 DEF Fits
  <2> QED
    BY <2>1, <2>4 DEF SimpleTypeOK, Fits
<1> QED
  BY <1>1, <1>2, <1>3, <1>5, <1>6, <1>7 DEF SimpleNext, HandleClient

\* The type invariant of the simple server: a request is in the handlers exactly while the
\* thread of its client serves it, and a socket is closed only once the request is answered
\* or when nothing was received.
THEOREM SimpleTypeCorrect == SimpleSafeSpec => []SimpleTypeOK
<1> DEFINE Inv == FileInv /\ SimpleTypeOK
<1>1. SimpleInit => Inv
  BY InitFile DEF SimpleInit, Init, SimpleTypeOK, ConnStates
<1>2. Inv /\ [SimpleNext]_allVars => Inv'
  BY StoreStep, FileInvInductive, SimpleTypeInductive
<1> QED
  BY <1>1, <1>2, PTL DEF SimpleSafeSpec
===============================================================================
