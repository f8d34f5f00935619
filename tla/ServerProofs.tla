---------------------------- MODULE ServerProofs ----------------------------
(***************************************************************************)
(* Theorems about Server for every number of clients, workers and console  *)
(* handlers, every connection limit and every set of faults.               *)
(***************************************************************************)
EXTENDS Server, ConnectionProofs, TaskQueueProofs

\* A client is unknown, waits in the backlog, is in the hands of the accept thread
\* or registered; a waiting client is none of the others.
ArrivalInv ==
  /\ \A c \in Conns : peer[c] = "none" => c \notin connections_ /\ c # current
  /\ \A i \in 1..Len(backlog) : /\ peer[backlog[i]] # "none"
                                /\ backlog[i] \notin connections_
                                /\ backlog[i] # current

\* What the accept thread has done to whom.
AcceptInv ==
  /\ acceptPc = "register" => active_connections_ < MaxConnections
  /\ acceptPc = "serve" => current \in connections_
  /\ acceptPc \in {"limit", "register"} => current \notin connections_
  /\ \A d \in connections_ : /\ state_[d] # "NONE"
                             /\ step[d] = "returned" \/ (acceptPc = "serve" /\ d = current)
  /\ \A d \in Conns \ connections_ : step[d] = "idle" /\ state_[d] = "NONE"

\* The accept thread will not serve anybody any more.
Over == acceptPc = "test" /\ ~running_

\* How far start and stop are, and what follows for the accept thread.
LifeInv ==
  /\ mainPc = "start" => ~running_ /\ spawned = {} /\ late = {}
  /\ Acceptor \notin spawned \/ Acceptor \in exited => acceptPc = "test"
  /\ late # {} => ~running_ /\ acceptPc \in {"test", "serve"}
  /\ \A h \in Handlers :
       /\ handler[h] \notin {"ready", "ignored"} => mainPc # "start"
       /\ handler[h] \notin {"ready", "ignored", "clear"} => ~running_
       /\ h \notin hasty => /\ handler[h] = "accept" => Acceptor \in toJoin[h] \/ Over
                            /\ handler[h] = "stopped" => Over

ServerInv == /\ ConnTypeOK /\ ConnInv
             /\ TypeOK
             /\ ArrivalInv /\ AcceptInv /\ LifeInv
             /\ AdmissionBound /\ SocketsOwned

------------------------------------------------------------------------------
LEMMA InitServer == Init => ServerInv
<1> SUFFICES ASSUME Init PROVE ServerInv
  OBVIOUS
<1>1. ConnTypeOK /\ ConnInv
  BY InitConn DEF Init
<1>2. TypeOK
  <2>1. toJoin \in [Handlers -> SUBSET stored] /\ handler \in [Handlers -> HandlerStates]
    BY DEF Init, HandlerStates
  <2>2. backlog \in Seq(Conns) /\ Len(backlog) = 0
    BY DEF Init
  <2>3. running_ \in BOOLEAN /\ listening \in BOOLEAN
    BY DEF Init
  <2>4. /\ connections_ = {} /\ active_connections_ = 0 /\ acceptPc = "test" /\ current = NoConn
        /\ spawned = {} /\ stored = {} /\ exited = {} /\ joined = {}
        /\ mainPc = "start" /\ late = {} /\ hasty = {}
    BY DEF Init
  <2> QED
    BY <2>1, <2>2, <2>3, <2>4 DEF TypeOK, AcceptStates, MainStates
<1>3. ArrivalInv /\ AcceptInv /\ LifeInv
  BY ServerAssumption DEF Init, Fresh, ArrivalInv, AcceptInv, LifeInv
<1>4. AdmissionBound /\ SocketsOwned
  BY ServerAssumption, FS_EmptySet DEF Init, Fresh, AdmissionBound, SocketsOwned
<1> QED
  BY <1>1, <1>2, <1>3, <1>4 DEF ServerInv

\* A step that leaves the Connection objects alone disturbs no more of their
\* invariants than the types of what it writes.
LEMMA SameObjects ==
  ASSUME ConnTypeOK, ConnInv, UNCHANGED <<objVars, request, sent, unread>>,
         peer' \in [Conns -> {"none", "open", "fin", "reset", "refused"}],
         winsock' \in BOOLEAN, process' \in {"up", "exited", "terminated"}
  PROVE  ConnTypeOK' /\ ConnInv'
BY DEF ConnTypeOK, ConnInv, StepInv, Whole, objVars

\* Threads other than the accept thread return, or pop.
LEMMA OtherThreadSteps ==
  ASSUME ServerInv,
         UNCHANGED <<connVars, admission, control, started, joined>>,
         NEW t \in spawned \ {Acceptor},
         exited' = exited \/ exited' = exited \cup {t}
  PROVE  ServerInv'
<1>1. ConnTypeOK' /\ ConnInv'
  BY SameObjects DEF ServerInv, ConnTypeOK, connVars, peerVars
<1>2. TypeOK'
  BY DEF ServerInv, TypeOK, admission, control, started
<1>3. ArrivalInv' /\ AcceptInv'
  BY DEF ServerInv, ArrivalInv, AcceptInv, admission, connVars, objVars, peerVars
<1>4. LifeInv'
  BY DEF ServerInv, LifeInv, Over, admission, control, started
<1>5. AdmissionBound' /\ SocketsOwned'
  BY DEF ServerInv, AdmissionBound, SocketsOwned, admission, connVars, objVars
<1> QED
  BY <1>1, <1>2, <1>3, <1>4, <1>5 DEF ServerInv

\* Clients connect, deliver and hang up.
LEMMA ClientsSteps ==
  ASSUME ServerInv, NEW c \in Conns, Connect(c) \/ Deliver(c) \/ Abandon(c)
  PROVE  ServerInv'
<1> USE DEF ServerInv
<1>1. CASE Connect(c)
  <2>1. ConnTypeOK' /\ ConnInv'
    BY <1>1, SameObjects DEF Connect, ConnTypeOK
  <2>2. /\ Len(backlog') = Len(backlog) + 1 /\ backlog' \in Seq(Conns)
        /\ backlog'[Len(backlog) + 1] = c
        /\ \A i \in 1..Len(backlog) : backlog'[i] = backlog[i]
        /\ Len(backlog) \in Nat
    BY <1>1 DEF Connect, TypeOK
  <2>3. \A i \in 1..Len(backlog) : backlog[i] # c
    BY <1>1 DEF Connect, ArrivalInv
  <2>4. c \notin connections_ /\ c # current
    BY <1>1 DEF Connect, ArrivalInv
  <2>5. \A i, j \in 1..Len(backlog') : i # j => backlog'[i] # backlog'[j]
    BY <2>2, <2>3 DEF TypeOK
  <2>6. UNCHANGED <<control, threads, connections_, active_connections_, acceptPc, current, late,
                    objVars>>
    BY <1>1 DEF Connect
  <2>7. TypeOK'
    BY <2>2, <2>5, <2>6 DEF TypeOK, control, threads, started
  <2>8. peer' = [peer EXCEPT ![c] = "open"] /\ peer \in [Conns -> {"none", "open", "fin", "reset", "refused"}]
    BY <1>1 DEF Connect, ConnTypeOK
  <2>9. ArrivalInv'
    BY <2>2, <2>4, <2>6, <2>8 DEF ArrivalInv, TypeOK
  <2>10. AcceptInv' /\ LifeInv' /\ AdmissionBound' /\ SocketsOwned'
    BY <2>6 DEF AcceptInv, LifeInv, Over, AdmissionBound, SocketsOwned, control, threads, started, objVars
  <2> QED
    BY <2>1, <2>7, <2>9, <2>10
<1>2. CASE Deliver(c) \/ Abandon(c)
  <2>1. SendUnit(c) \/ TakeAnswer(c) \/ \E how \in {"fin", "reset"} : HangUp(c, how)
    BY <1>2 DEF Deliver, Abandon
  <2>2. ConnTypeOK' /\ ConnInv'
    BY <2>1, ClientSteps
  <2>3. UNCHANGED <<serverVars, objVars>>
    BY <1>2 DEF Deliver, Abandon, SendUnit, TakeAnswer, HangUp
  <2>4. \A d \in Conns : peer'[d] = "none" => peer[d] = "none"
    BY <2>1 DEF SendUnit, TakeAnswer, HangUp, ConnTypeOK
  <2>5. TypeOK'
    BY <2>3 DEF TypeOK, serverVars, admission, control, threads, started
  <2>6. ArrivalInv'
    BY <2>3, <2>4 DEF ArrivalInv, TypeOK, serverVars, admission
  <2>7. AcceptInv' /\ LifeInv' /\ AdmissionBound' /\ SocketsOwned'
    BY <2>3 DEF AcceptInv, LifeInv, Over, AdmissionBound, SocketsOwned, serverVars, admission,
                control, threads, started, objVars
  <2> QED
    BY <2>2, <2>5, <2>6, <2>7
<1> QED
  BY <1>1, <1>2

------------------------------------------------------------------------------
\* The loop test, a failing accept and the admission under the limit move the accept
\* thread without touching a connection.
LEMMA AcceptMoves ==
  ASSUME ServerInv, AcceptLoop \/ AcceptFails \/ WithinLimit
  PROVE  ServerInv'
<1> USE DEF ServerInv
<1>1. UNCHANGED <<connVars, control, connections_, active_connections_, current, late, started,
                  joined>>
  BY DEF AcceptLoop, AcceptFails, WithinLimit, Accepting, connVars
<1>2. ConnTypeOK' /\ ConnInv'
  BY <1>1, SameObjects DEF ConnTypeOK, connVars, peerVars
<1>3. AdmissionBound' /\ SocketsOwned'
  BY <1>1 DEF AdmissionBound, SocketsOwned, connVars, objVars
<1>4. CASE AcceptLoop
  <2>1. TypeOK'
    BY <1>1, <1>4 DEF AcceptLoop, Accepting, TypeOK, AcceptStates, Alive, Exit, control, started
  <2>2. ArrivalInv' /\ AcceptInv'
    BY <1>1, <1>4 DEF AcceptLoop, Accepting, ArrivalInv, AcceptInv, connVars, objVars, peerVars
  <2>3. LifeInv'
    BY <1>1, <1>4 DEF AcceptLoop, Accepting, Alive, Exit, LifeInv, Over, control, started
  <2> QED
    BY <1>2, <1>3, <2>1, <2>2, <2>3
<1>5. CASE AcceptFails
  <2>1. exited' = exited /\ acceptPc = "accept" /\ acceptPc' = "test" /\ Alive(Acceptor)
    BY <1>5 DEF AcceptFails, Accepting
  <2>2. /\ backlog' \in Seq(Conns)
        /\ \A i \in 1..Len(backlog') : \E k \in 1..Len(backlog) : backlog'[i] = backlog[k]
        /\ \A i, j \in 1..Len(backlog') : i # j => backlog'[i] # backlog'[j]
    <3>1. CASE backlog' = backlog
      BY <3>1 DEF TypeOK
    <3>2. CASE backlog # <<>> /\ backlog' = Tail(backlog)
      <4>1. /\ backlog' \in Seq(Conns) /\ Len(backlog') = Len(backlog) - 1 /\ Len(backlog) \in Nat
            /\ \A i \in 1..Len(backlog') : backlog'[i] = backlog[i + 1]
        BY <3>2 DEF TypeOK
      <4>2. \A i \in 1..Len(backlog') : i + 1 \in 1..Len(backlog)
        BY <4>1
      <4>3. \A i, j \in 1..Len(backlog) : i # j => backlog[i] # backlog[j]
        BY DEF TypeOK
      <4>4. \A i, j \in 1..Len(backlog') : i # j => i + 1 # j + 1
        OBVIOUS
      <4>5. \A i, j \in 1..Len(backlog') : i # j => backlog'[i] # backlog'[j]
        BY <4>1, <4>2, <4>3, <4>4
      <4>6. \A i \in 1..Len(backlog') : \E k \in 1..Len(backlog) : backlog'[i] = backlog[k]
        BY <4>1, <4>2
      <4> QED
        BY <4>1, <4>5, <4>6
    <3> QED
      BY <1>5, <3>1, <3>2 DEF AcceptFails
  <2>3. TypeOK'
    BY <1>1, <2>1, <2>2 DEF TypeOK, AcceptStates, control, started
  <2>4. ArrivalInv'
    BY <1>1, <2>2 DEF ArrivalInv, TypeOK, connVars, peerVars
  <2>5. AcceptInv'
    BY <1>1, <2>1 DEF AcceptInv, connVars, objVars
  <2>6. LifeInv'
    BY <1>1, <2>1 DEF LifeInv, Over, control
  <2> QED
    BY <1>2, <1>3, <2>3, <2>4, <2>5, <2>6
<1>6. CASE WithinLimit
  <2>1. TypeOK'
    BY <1>1, <1>6 DEF WithinLimit, Accepting, TypeOK, AcceptStates, control, started
  <2>2. ArrivalInv' /\ AcceptInv'
    BY <1>1, <1>6, ServerAssumption
    DEF WithinLimit, LimitReached, Accepting, ArrivalInv, AcceptInv, TypeOK, connVars, objVars, peerVars
  <2>3. LifeInv'
    BY <1>1, <1>6 DEF WithinLimit, Accepting, LifeInv, Over, control, started
  <2> QED
    BY <1>2, <1>3, <2>1, <2>2, <2>3
<1> QED
  BY <1>4, <1>5, <1>6

\* accept hands over the oldest waiting client: its object does not exist yet.
LEMMA AcceptClientStep ==
  ASSUME ServerInv, AcceptClient
  PROVE  ServerInv'
<1> USE DEF ServerInv
<1> DEFINE c == Head(backlog)
<1>1. /\ backlog # <<>> /\ backlog' = Tail(backlog) /\ current' = c
      /\ socket_' = [socket_ EXCEPT ![c] = "open"]
      /\ acceptPc = "accept" /\ acceptPc' = "limit" /\ Alive(Acceptor)
      /\ UNCHANGED <<state_, step, got, response, out, peerVars, winsock, process, control, threads,
                     connections_, active_connections_, late>>
  BY DEF AcceptClient, Accepting, threads, started
<1>2. /\ backlog' \in Seq(Conns) /\ Len(backlog') = Len(backlog) - 1 /\ Len(backlog) \in Nat
      /\ \A i \in 1..Len(backlog') : backlog'[i] = backlog[i + 1]
      /\ c = backlog[1] /\ Len(backlog) > 0 /\ c \in Conns
  BY <1>1 DEF TypeOK
<1> HIDE DEF c
<1>3. c \notin connections_ /\ c # current /\ peer[c] # "none"
  BY <1>2 DEF ArrivalInv
<1>4. step[c] = "idle" /\ state_[c] = "NONE"
  BY <1>2, <1>3 DEF AcceptInv
<1>5. current = NoConn /\ NoConn \notin Conns
  BY <1>1, ServerAssumption DEF TypeOK
<1>6. ConnTypeOK'
  BY <1>1 DEF ConnTypeOK, peerVars
<1>7. ConnInv'
  BY <1>1, <1>4 DEF ConnInv, StepInv, Whole, ConnTypeOK, peerVars
<1>8. \A i, j \in 1..Len(backlog') : i # j => backlog'[i] # backlog'[j]
  BY <1>2 DEF TypeOK
<1>9. TypeOK'
  BY <1>1, <1>2, <1>5, <1>8 DEF TypeOK, AcceptStates, control, threads, started
<1>10. \A i \in 1..Len(backlog') : backlog'[i] # c
  <2>1. \A i, j \in 1..Len(backlog) : i # j => backlog[i] # backlog[j]
    BY DEF TypeOK
  <2>2. ASSUME NEW i \in 1..Len(backlog')  PROVE i + 1 \in 1..Len(backlog) /\ i + 1 # 1 /\ 1 \in 1..Len(backlog)
    BY <1>2, <2>2
  <2> QED
    BY <1>2, <2>1, <2>2
<1>11. ArrivalInv'
  BY <1>1, <1>2, <1>3, <1>10 DEF ArrivalInv, peerVars
<1>12. AcceptInv'
  BY <1>1, <1>3 DEF AcceptInv
<1>13. LifeInv'
  <2>1. Acceptor \in spawned /\ Acceptor \notin exited
    BY <1>1 DEF Alive
  <2>2. late = {} /\ ~Over
    BY <1>1 DEF LifeInv, Over
  <2> QED
    BY <1>1, <2>1, <2>2 DEF LifeInv, control, threads, started
<1>14. AdmissionBound' /\ SocketsOwned'
  BY <1>1, <1>5 DEF AdmissionBound, SocketsOwned, ConnTypeOK
<1> QED
  BY <1>6, <1>7, <1>9, <1>11, <1>12, <1>13, <1>14

\* A client that is turned away leaves nothing behind.
LEMMA TurnAwayStep ==
  ASSUME ServerInv, Reject \/ AssociateFails
  PROVE  ServerInv'
<1> USE DEF ServerInv
<1>1. /\ socket_' = [socket_ EXCEPT ![current] = "closed"]
      /\ current' = NoConn /\ acceptPc \in {"limit", "register"} /\ acceptPc' = "test"
      /\ UNCHANGED <<state_, step, got, response, out, peerVars, winsock, process, control, threads,
                     backlog, connections_, active_connections_, late>>
  BY DEF Reject, AssociateFails, Accepting, TurnAway, threads, started
<1>2. current \in Conns /\ NoConn \notin Conns
  BY <1>1, ServerAssumption DEF TypeOK
<1>3. current \notin connections_
  BY <1>1 DEF AcceptInv
<1>4. ConnTypeOK'
  BY <1>1 DEF ConnTypeOK, peerVars
<1>5. ConnInv'
  BY <1>1 DEF ConnInv, StepInv, Whole, ConnTypeOK, peerVars
<1>6. TypeOK'
  BY <1>1 DEF TypeOK, AcceptStates, control, threads, started
<1>7. ArrivalInv'
  BY <1>1, <1>2 DEF ArrivalInv, TypeOK, peerVars
<1>8. AcceptInv'
  BY <1>1 DEF AcceptInv
<1>9. LifeInv'
  BY <1>1 DEF LifeInv, Over, control, threads, started
<1>10. AdmissionBound' /\ SocketsOwned'
  BY <1>1, <1>2 DEF AdmissionBound, SocketsOwned, ConnTypeOK
<1> QED
  BY <1>4, <1>5, <1>6, <1>7, <1>8, <1>9, <1>10

\* An admitted client is registered once, and the counter follows.
LEMMA RegisterStep ==
  ASSUME ServerInv, Register
  PROVE  ServerInv'
<1> USE DEF ServerInv
<1>1. /\ acceptPc = "register" /\ acceptPc' = "serve" /\ Construct(current)
      /\ connections_' = connections_ \cup {current}
      /\ active_connections_' = active_connections_ + 1
      /\ late' = IF running_ THEN late ELSE late \cup {current}
      /\ UNCHANGED <<control, threads, backlog, current>>
  BY DEF Register
<1>2. current \in Conns /\ current \notin connections_
  BY <1>1 DEF TypeOK, AcceptInv
<1>3. step[current] = "idle"
  BY <1>2 DEF AcceptInv
<1>4. ConnTypeOK' /\ ConnInv'
  BY <1>1, <1>2, <1>3, ConstructStep
<1>5. /\ state_' = [state_ EXCEPT ![current] = "CONNECTING"]
      /\ UNCHANGED <<socket_, step, peerVars>>
  BY <1>1 DEF Construct
<1>6. TypeOK'
  BY <1>1, <1>2 DEF TypeOK, AcceptStates, control, threads, started
<1>7. \A i \in 1..Len(backlog) : backlog[i] # current
  BY DEF ArrivalInv
<1>8. ArrivalInv'
  BY <1>1, <1>5, <1>7 DEF ArrivalInv, peerVars
<1>9. AcceptInv'
  BY <1>1, <1>2, <1>5 DEF AcceptInv, ConnTypeOK
<1>10. Acceptor \in spawned /\ Acceptor \notin exited /\ late = {} /\ ~Over
  BY <1>1 DEF LifeInv, Over
<1>11. LifeInv'
  BY <1>1, <1>10 DEF LifeInv, Over, control, threads, started
<1>12. AdmissionBound'
  <2>1. IsFiniteSet(connections_)
    BY ServerAssumption, FS_Subset DEF TypeOK
  <2>2. Cardinality(connections_') = Cardinality(connections_) + 1
    BY <1>1, <1>2, <2>1, FS_AddElement
  <2>3. active_connections_ < MaxConnections
    BY <1>1 DEF AcceptInv
  <2> QED
    BY <1>1, <2>2, <2>3, ServerAssumption DEF AdmissionBound, TypeOK
<1>13. SocketsOwned'
  BY <1>1, <1>5 DEF SocketsOwned
<1> QED
  BY <1>4, <1>6, <1>8, <1>9, <1>11, <1>12, <1>13

\* The accept thread serves its client, and then gives it up.
LEMMA ServeSteps ==
  ASSUME ServerInv, Serve \/ ServeDone
  PROVE  ServerInv'
<1> USE DEF ServerInv
<1>1. CASE Serve
  <2>1. acceptPc = "serve" /\ AsyncRead(current) /\ UNCHANGED serverVars
    BY <1>1 DEF Serve
  <2>2. current \in Conns /\ current \in connections_
    BY <2>1 DEF TypeOK, AcceptInv
  <2>3. ConnTypeOK' /\ ConnInv'
    BY <2>1, <2>2, ReadTypes, ReadInv
  <2>4. TypeOK'
    BY <2>1 DEF TypeOK, serverVars, admission, control, threads, started
  <2>5. peer' = peer
    BY <2>1 DEF AsyncRead, StartRead, RecvHeader, RecvBody, RecvEof, RecvError, Handle, HandleThrows,
                SendSome, SendFails, Finish, CloseSocket, peerVars
  <2>6. ArrivalInv' /\ LifeInv' /\ AdmissionBound'
    BY <2>1, <2>5 DEF ArrivalInv, LifeInv, Over, AdmissionBound, serverVars, admission, control,
                      threads, started
  <2>7. \A d \in Conns \ {current} : state_'[d] = state_[d] /\ step'[d] = step[d]
                                     /\ socket_'[d] = socket_[d]
    BY <2>1, <2>2, ReadFrame
  <2>8. state_'[current] # "NONE"
    BY <2>1, <2>2 DEF AcceptInv, AsyncRead, StartRead, RecvHeader, RecvBody, RecvEof, RecvError,
                      Handle, HandleThrows, SendSome, SendFails, Finish, CloseSocket, ConnTypeOK,
                      objVars
  <2>9. AcceptInv'
    BY <2>1, <2>2, <2>7, <2>8 DEF AcceptInv, TypeOK, serverVars, admission
  <2>10. SocketsOwned'
    BY <2>1, <2>7 DEF SocketsOwned, serverVars, admission
  <2> QED
    BY <2>3, <2>4, <2>6, <2>9, <2>10
<1>2. CASE ServeDone
  <2>1. /\ acceptPc = "serve" /\ acceptPc' = "test" /\ step[current] = "returned"
        /\ current' = NoConn
        /\ UNCHANGED <<connVars, control, threads, backlog, connections_, active_connections_, late>>
    BY <1>2 DEF ServeDone, Accepting, connVars, threads, started
  <2>2. ConnTypeOK' /\ ConnInv'
    BY <2>1, SameObjects DEF ConnTypeOK, connVars, peerVars
  <2>3. current \in connections_ /\ NoConn \notin Conns
    BY <2>1, ServerAssumption DEF AcceptInv
  <2>4. TypeOK'
    BY <2>1 DEF TypeOK, AcceptStates, control, threads, started
  <2>5. ArrivalInv' /\ AcceptInv'
    BY <2>1, <2>3 DEF ArrivalInv, AcceptInv, TypeOK, connVars, objVars, peerVars
  <2>6. LifeInv'
    BY <2>1 DEF LifeInv, Over, control, threads, started
  <2>7. AdmissionBound' /\ SocketsOwned'
    BY <2>1, <2>3 DEF AdmissionBound, SocketsOwned, connVars, objVars
  <2> QED
    BY <2>2, <2>4, <2>5, <2>6, <2>7
<1> QED
  BY <1>1, <1>2

------------------------------------------------------------------------------
\* Every step of stop leaves the accept thread's bookkeeping alone.
LEMMA StoppingFrame ==
  ASSUME ServerInv, NEW h \in Handlers, NEW from, NEW to, Stopping(h, from, to)
  PROVE  /\ AcceptInv' /\ AdmissionBound' /\ SocketsOwned'
         /\ handler[h] = from /\ handler' = [handler EXCEPT ![h] = to]
         /\ UNCHANGED <<acceptPc, mainPc, started, exited, late, connections_, current>>
BY DEF ServerInv, Stopping, AcceptInv, AdmissionBound, SocketsOwned, objVars

\* stop begins, and clears the flag.
LEMMA StopBegins ==
  ASSUME ServerInv, NEW h \in Handlers, CtrlC(h) \/ ClearRunning(h)
  PROVE  ServerInv'
<1> USE DEF ServerInv
<1>1. AcceptInv' /\ AdmissionBound' /\ SocketsOwned'
  BY StoppingFrame DEF CtrlC, ClearRunning
<1>2. UNCHANGED <<connVars, backlog, connections_, active_connections_, acceptPc, current, late,
                  mainPc, threads, listening, toJoin, hasty>>
  BY DEF CtrlC, ClearRunning, Stopping, connVars, peerVars, threads, started
<1>3. ConnTypeOK' /\ ConnInv'
  BY <1>2, SameObjects DEF ConnTypeOK, connVars, peerVars
<1>4. ArrivalInv'
  BY <1>2 DEF ArrivalInv, connVars, peerVars
<1>5. CASE CtrlC(h)
  <2>1. /\ running_' = running_ /\ handler[h] = "ready"
        /\ handler' = [handler EXCEPT ![h] = IF running_ THEN "clear" ELSE "ignored"]
    BY <1>5 DEF CtrlC, Stopping
  <2>2. TypeOK'
    BY <1>2, <2>1 DEF TypeOK, HandlerStates, threads, started
  <2>3. LifeInv'
    BY <1>2, <2>1 DEF LifeInv, Over, TypeOK, threads, started
  <2> QED
    BY <1>1, <1>3, <1>4, <2>2, <2>3
<1>6. CASE ClearRunning(h)
  <2>1. /\ running_' = FALSE /\ handler[h] = "clear"
        /\ handler' = [handler EXCEPT ![h] = "close"]
    BY <1>6 DEF ClearRunning, Stopping
  <2>2. TypeOK'
    <3>1. handler' \in [Handlers -> HandlerStates] /\ running_' \in BOOLEAN
      BY <2>1 DEF TypeOK, HandlerStates
    <3> QED
      BY <1>2, <3>1 DEF TypeOK, threads, started
  <2>3. LifeInv'
    BY <1>2, <2>1 DEF LifeInv, Over, TypeOK, threads, started
  <2> QED
    BY <1>1, <1>3, <1>4, <2>2, <2>3
<1> QED
  BY <1>5, <1>6

\* stop closes the listening socket; the clients that waited are refused.
LEMMA CloseListeningStep ==
  ASSUME ServerInv, NEW h \in Handlers, CloseListening(h)
  PROVE  ServerInv'
<1> USE DEF ServerInv
<1>1. AcceptInv' /\ AdmissionBound' /\ SocketsOwned'
  BY StoppingFrame DEF CloseListening
<1>2. /\ handler[h] = "close" /\ handler' = [handler EXCEPT ![h] = "workers"]
      /\ listening' = FALSE /\ backlog' = <<>>
      /\ \E new \in SUBSET stored : toJoin' = [toJoin EXCEPT ![h] = new]
      /\ hasty' \in {hasty, hasty \cup {h}}
      /\ UNCHANGED <<objVars, request, sent, unread, winsock, process, connections_,
                     active_connections_, acceptPc, current, late, mainPc, threads, running_>>
  BY DEF CloseListening, Look, Stopping, threads, started
<1>3. peer' \in [Conns -> {"none", "open", "fin", "reset", "refused"}]
  BY DEF CloseListening, ConnTypeOK
<1>4. \A c \in Conns : peer'[c] = "none" => peer[c] = "none"
  BY DEF CloseListening
<1>5. ConnTypeOK' /\ ConnInv'
  BY <1>2, <1>3, SameObjects DEF ConnTypeOK
<1>6. ArrivalInv'
  BY <1>2, <1>4 DEF ArrivalInv
<1>7. TypeOK'
  <2>1. handler' \in [Handlers -> HandlerStates] /\ toJoin' \in [Handlers -> SUBSET stored]
    BY <1>2 DEF TypeOK, HandlerStates
  <2>2. backlog' \in Seq(Conns) /\ Len(backlog') = 0
    BY <1>2
  <2>3. listening' \in BOOLEAN
    BY <1>2
  <2> QED
    BY <1>2, <2>1, <2>2, <2>3 DEF TypeOK, threads, started
<1>8. LifeInv'
  BY <1>2 DEF LifeInv, Over, TypeOK, threads, started
<1> QED
  BY <1>1, <1>5, <1>6, <1>7, <1>8

\* A join returns only when the thread has: the next stage may rely on it.
LEMMA JoinDoneStep ==
  ASSUME ServerInv, NEW h \in Handlers, JoinDone(h)
  PROVE  ServerInv'
<1> USE DEF ServerInv
<1> DEFINE next == AfterJoin(handler[h])
<1>0. /\ handler[h] \in {"workers", "iocp", "accept"} /\ toJoin[h] \subseteq exited
      /\ Stopping(h, handler[h], next[1])
      /\ joined' = joined \cup toJoin[h]
      /\ Look(h, next[2])
  BY DEF JoinDone, JoinsReturn
<1>l. /\ \E new \in SUBSET stored : /\ toJoin' = [toJoin EXCEPT ![h] = new]
                                    /\ next[2] \subseteq stored => new = next[2] \ joined'
      /\ hasty' = IF next[2] \subseteq stored THEN hasty ELSE hasty \cup {h}
  BY <1>0 DEF Look
<1>1. AcceptInv' /\ AdmissionBound' /\ SocketsOwned'
  BY <1>0, StoppingFrame
<1>2. /\ handler' = [handler EXCEPT ![h] = next[1]]
      /\ UNCHANGED <<connVars, backlog, connections_, active_connections_, acceptPc, current, late,
                     mainPc, started, exited, running_, listening>>
  BY <1>0 DEF JoinDone, Stopping, connVars, peerVars
<1>3. ConnTypeOK' /\ ConnInv'
  BY <1>2, SameObjects DEF ConnTypeOK, connVars, peerVars
<1>4. ArrivalInv'
  BY <1>2 DEF ArrivalInv, connVars, peerVars
<1>5. \/ handler[h] = "workers" /\ next[1] = "iocp" /\ next[2] = {Iocp}
      \/ handler[h] = "iocp" /\ next[1] = "accept" /\ next[2] = {Acceptor}
      \/ handler[h] = "accept" /\ next[1] = "stopped" /\ next[2] = {}
  BY <1>0 DEF AfterJoin
<1> HIDE DEF next
<1>6. TypeOK'
  <2>1. handler' \in [Handlers -> HandlerStates] /\ toJoin' \in [Handlers -> SUBSET stored]
        /\ hasty' \subseteq Handlers
    BY <1>2, <1>5, <1>l DEF TypeOK, HandlerStates
  <2>2. joined' \subseteq exited
    BY <1>0 DEF TypeOK
  <2> QED
    BY <1>2, <2>1, <2>2 DEF TypeOK, started
<1>7. LifeInv'
  <2>1. ~running_ /\ mainPc # "start"
    BY <1>0 DEF LifeInv
  <2>2. Acceptor \in joined' => Over
    BY <1>0, <2>1 DEF LifeInv, Over, TypeOK
  <2>3. h \notin hasty' /\ handler'[h] = "accept" => Acceptor \in toJoin'[h] \/ Over
    BY <1>2, <1>5, <1>l, <2>2 DEF TypeOK
  <2>4. h \notin hasty' /\ handler'[h] = "stopped" => Over
    BY <1>0, <1>2, <1>5, <1>l, <2>1 DEF LifeInv, Over, TypeOK
  <2>5. Over' = Over
    BY <1>2 DEF Over
  <2>6. ASSUME NEW g \in Handlers, g # h
        PROVE  handler'[g] = handler[g] /\ toJoin'[g] = toJoin[g] /\ (g \notin hasty' => g \notin hasty)
    <3>1. handler'[g] = handler[g]
      BY <1>2, <2>6 DEF TypeOK
    <3>2. toJoin'[g] = toJoin[g]
      BY <1>l, <2>6 DEF TypeOK
    <3>3. g \notin hasty' => g \notin hasty
      BY <1>l, <2>6
    <3> QED
      BY <3>1, <3>2, <3>3
  <2>7. ASSUME NEW g \in Handlers, g \notin hasty'
        PROVE  /\ handler'[g] = "accept" => Acceptor \in toJoin'[g] \/ Over
               /\ handler'[g] = "stopped" => Over
    BY <2>3, <2>4, <2>6, <2>7 DEF LifeInv
  <2>8. ~running_' /\ mainPc' # "start" /\ UNCHANGED <<spawned, late, exited, acceptPc>>
    BY <1>2, <2>1 DEF started
  <2> QED
    BY <2>5, <2>7, <2>8 DEF LifeInv
<1> QED
  BY <1>1, <1>3, <1>4, <1>6, <1>7

\* The end of the process by a race of joins changes nothing else.
LEMMA JoinRaceStep ==
  ASSUME ServerInv, NEW h \in Handlers, JoinRace(h)
  PROVE  ServerInv'
<1>1. process' = "terminated" /\ UNCHANGED <<objVars, peerVars, winsock, serverVars>>
  BY DEF JoinRace
<1>2. ConnTypeOK' /\ ConnInv'
  BY <1>1, SameObjects DEF ServerInv, ConnTypeOK, peerVars
<1>3. TypeOK' /\ LifeInv' /\ AdmissionBound'
  BY <1>1 DEF ServerInv, TypeOK, LifeInv, Over, AdmissionBound, serverVars, admission, control,
              threads, started
<1>4. ArrivalInv' /\ AcceptInv' /\ SocketsOwned'
  BY <1>1 DEF ServerInv, ArrivalInv, AcceptInv, SocketsOwned, serverVars, admission, objVars, peerVars
<1> QED
  BY <1>2, <1>3, <1>4 DEF ServerInv

------------------------------------------------------------------------------
\* main never touches a connection; it starts threads, joins one, and ends the process.
LEMMA MainSteps ==
  ASSUME ServerInv, Main
  PROVE  ServerInv'
<1> USE DEF ServerInv
<1>1. /\ UNCHANGED <<objVars, peerVars, admission, handler, toJoin, hasty, exited>>
      /\ winsock' \in BOOLEAN /\ process' \in {"up", "exited", "terminated"}
  BY DEF Main, StartFails, Listen, Spawn, Store, ThreadFails, Watch, JoinStats, Cleanup, Destroy, MainStep, ConnTypeOK
<1>2. ConnTypeOK' /\ ConnInv'
  BY <1>1, SameObjects DEF ConnTypeOK, peerVars
<1>3. ArrivalInv' /\ AcceptInv' /\ AdmissionBound' /\ SocketsOwned'
  BY <1>1 DEF ArrivalInv, AcceptInv, AdmissionBound, SocketsOwned, admission, objVars, peerVars
<1>4. CASE Listen
  <2>1. running_' = TRUE /\ listening' = TRUE /\ mainPc = "start" /\ mainPc' = "spawn"
        /\ UNCHANGED <<started, joined>>
    BY <1>4 DEF Listen, MainStep
  <2>2. running_' \in BOOLEAN /\ listening' \in BOOLEAN
    BY <2>1
  <2>3. TypeOK'
    BY <1>1, <2>1, <2>2 DEF TypeOK, MainStates, admission, started
  <2>4. late = {} /\ \A h \in Handlers : handler[h] \in {"ready", "ignored"}
    BY <2>1 DEF LifeInv
  <2>5. LifeInv'
    BY <1>1, <2>1, <2>4 DEF LifeInv, Over, admission, started
  <2> QED
    BY <1>2, <1>3, <2>3, <2>5
<1>5. ASSUME NEW t \in Threads, Spawn(t) \/ Store(t)
      PROVE  ServerInv'
  <2>1. /\ mainPc = "spawn" /\ mainPc' \in {"watch", "spawn"}
        /\ spawned' \in {spawned, spawned \cup {t}}
        /\ stored \subseteq stored' /\ stored' \subseteq spawned'
        /\ UNCHANGED <<running_, listening, joined>>
    BY <1>5 DEF Spawn, Store, MainStep, TypeOK
  <2>2. toJoin \in [Handlers -> SUBSET (stored')]
    BY <2>1 DEF TypeOK
  <2>3. TypeOK'
    BY <1>1, <2>1, <2>2 DEF TypeOK, MainStates, admission
  <2>4. LifeInv'
    BY <1>1, <2>1 DEF LifeInv, Over, admission
  <2> QED
    BY <1>2, <1>3, <2>3, <2>4
<1>6. CASE StartFails \/ ThreadFails \/ Watch \/ JoinStats \/ Cleanup \/ Destroy
  <2>1. /\ mainPc' \in MainStates \ {"start"}
        /\ UNCHANGED <<running_, listening, started>>
        /\ joined' = joined \/ (Stats \in exited /\ joined' = joined \cup {Stats})
    BY <1>6 DEF StartFails, ThreadFails, Watch, JoinStats, Cleanup, Destroy, MainStep, MainStates
  <2>2. TypeOK'
    BY <1>1, <2>1 DEF TypeOK, admission, started
  <2>3. LifeInv'
    BY <1>1, <2>1 DEF LifeInv, Over, admission, started
  <2> QED
    BY <1>2, <1>3, <2>2, <2>3
<1> QED
  BY <1>4, <1>5, <1>6 DEF Main

------------------------------------------------------------------------------
\* The three single threads are three.
LEMMA ThreadsDiffer == Iocp # Acceptor /\ Stats # Acceptor
<1>1. ASSUME Iocp = Acceptor \/ Stats = Acceptor
      PROVE  FALSE
  <2>1. PICK x : {Iocp, Acceptor, Stats} = {Acceptor, x}
    BY <1>1
  <2>2. Cardinality({Acceptor, x}) <= 2
    <3>1. IsFiniteSet({x}) /\ Cardinality({x}) = 1
      BY FS_Singleton
    <3>2. {Acceptor, x} = {x} \cup {Acceptor}
      OBVIOUS
    <3> QED
      BY <3>1, <3>2, FS_AddElement
  <2> QED
    BY <2>1, <2>2, ServerAssumption
<1> QED
  BY <1>1

LEMMA ServerStep == ServerInv /\ [Next]_vars => ServerInv'
<1> SUFFICES ASSUME ServerInv, [Next]_vars
             PROVE  ServerInv'
  OBVIOUS
<1>1. ASSUME NEW c \in Conns, Connect(c) \/ Deliver(c) \/ Abandon(c)
      PROVE  ServerInv'
  BY <1>1, ClientsSteps
<1>2. CASE AcceptThread
  BY <1>2, AcceptMoves, AcceptClientStep, TurnAwayStep, RegisterStep, ServeSteps DEF AcceptThread
<1>3. ASSUME NEW w \in Workers, WorkerLoop(w) \/ WorkerPoll(w) \/ WorkerWakes(w)
      PROVE  ServerInv'
  <2>1. w \in spawned \ {Acceptor}
    BY <1>3, ServerAssumption DEF WorkerLoop, WorkerPoll, WorkerWakes, Alive
  <2>2. /\ UNCHANGED <<connVars, admission, control, started, joined>>
        /\ exited' = exited \/ exited' = exited \cup {w}
    BY <1>3 DEF WorkerLoop, WorkerPoll, WorkerWakes, Exit, serverVars, threads, started
  <2> QED
    BY <2>1, <2>2, OtherThreadSteps
<1>4. ASSUME NEW t \in {Iocp, Stats}, PollingThread(t)
      PROVE  ServerInv'
  <2>1. t # Acceptor
    BY ThreadsDiffer
  <2>2. /\ t \in spawned /\ exited' = exited \cup {t}
        /\ UNCHANGED <<connVars, admission, control, started, joined>>
    BY <1>4 DEF PollingThread, Alive, Exit
  <2> QED
    BY <2>1, <2>2, OtherThreadSteps
<1>5. ASSUME NEW h \in Handlers, CtrlC(h) \/ Stop(h) \/ JoinRace(h)
      PROVE  ServerInv'
  BY <1>5, StopBegins, CloseListeningStep, JoinDoneStep, JoinRaceStep DEF Stop
<1>6. CASE Main
  BY <1>6, MainSteps
<1>7. CASE UNCHANGED vars
  <2>1. UNCHANGED <<objVars, peerVars, winsock, process, serverVars>>
    BY <1>7 DEF vars, connVars
  <2>2. ConnTypeOK' /\ ConnInv'
    BY <2>1, SameObjects DEF ServerInv, ConnTypeOK, peerVars
  <2>3. TypeOK' /\ LifeInv' /\ AdmissionBound'
    BY <2>1 DEF ServerInv, TypeOK, LifeInv, Over, AdmissionBound, serverVars, admission, control,
                threads, started
  <2>4. ArrivalInv' /\ AcceptInv' /\ SocketsOwned'
    BY <2>1 DEF ServerInv, ArrivalInv, AcceptInv, SocketsOwned, serverVars, admission, objVars,
                peerVars
  <2> QED
    BY <2>2, <2>3, <2>4 DEF ServerInv
<1> QED
  BY <1>1, <1>2, <1>3, <1>4, <1>5, <1>6, <1>7 DEF Next

\* The strengthening that is inductive.
THEOREM ServerInvariant == SafeSpec => []ServerInv
BY InitServer, ServerStep, PTL DEF SafeSpec

\* The types of the server's own state, and that no thread is joined before it has
\* returned, returns before it was started, or waits twice in the backlog.
THEOREM TypeCorrect == SafeSpec => []TypeOK
<1>1. ServerInv => TypeOK
  BY DEF ServerInv
<1> QED
  BY <1>1, ServerInvariant, PTL

\* The counter equals the size of the list and never passes the limit, for every limit.
THEOREM AdmissionBoundHolds == SafeSpec => []AdmissionBound
<1>1. ServerInv => AdmissionBound
  BY DEF ServerInv
<1> QED
  BY <1>1, ServerInvariant, PTL

\* No error path of the accept loop loses an open socket.
THEOREM SocketsOwnedHolds == SafeSpec => []SocketsOwned
<1>1. ServerInv => SocketsOwned
  BY DEF ServerInv
<1> QED
  BY <1>1, ServerInvariant, PTL

\* At any time at most one connection is in service, the current one.
THEOREM SerialServiceHolds == SafeSpec => []SerialService
<1>1. ServerInv => SerialService
  BY DEF ServerInv, AcceptInv, SerialService, InService
<1> QED
  BY <1>1, ServerInvariant, PTL

\* When a stop has returned that found every thread it looked for, nothing is in service:
\* however many handlers ran it, and whatever start was doing meanwhile.
THEOREM StopMeansQuietHolds == SafeSpec => []StopMeansQuiet
<1>1. ServerInv => StopMeansQuiet
  BY DEF ServerInv, AcceptInv, LifeInv, Over, StopMeansQuiet, InService
<1> QED
  BY <1>1, ServerInvariant, PTL

\* The objects keep their promise under the server's threads and its shutdown:
\* requests are handled whole, and CLOSED means answered.
THEOREM ServedConnections == SafeSpec => [](HandledWhole /\ ClosedMeansAnswered)
<1>1. ServerInv => HandledWhole /\ ClosedMeansAnswered
  BY DEF ServerInv, ConnTypeOK, ConnInv, StepInv, Whole, HandledWhole, ClosedMeansAnswered, Steps
<1> QED
  BY <1>1, ServerInvariant, PTL

------------------------------------------------------------------------------
\* A connection registered after running_ was cleared is the last one.
LateInv == /\ Cardinality(late) <= 1
           /\ IsFiniteSet(late)

\* Two clients are never both admitted after stop has begun.
THEOREM AtMostOneLateHolds == SafeSpec => []AtMostOneLate
<1>1. Init => LateInv
  BY FS_EmptySet DEF Init, LateInv
<1>2. ServerInv /\ LateInv /\ [Next]_vars => LateInv'
  <2> SUFFICES ASSUME ServerInv, LateInv, [Next]_vars
               PROVE  LateInv'
    OBVIOUS
  <2>1. CASE late' = late
    BY <2>1 DEF LateInv
  <2>2. CASE Register
    <3>1. acceptPc = "register" /\ late' \in {late, late \cup {current}}
      BY <2>2 DEF Register
    <3>2. late = {}
      BY <3>1 DEF ServerInv, LifeInv
    <3>3. IsFiniteSet({current}) /\ Cardinality({current}) = 1
      BY FS_Singleton
    <3>4. late' = late \/ late' = {current}
      BY <3>1, <3>2
    <3> QED
      BY <3>3, <3>4 DEF LateInv
  <2>3. late' = late \/ Register
    BY DEF Next, vars, serverVars, admission, Connect, Deliver, Abandon, AcceptThread, AcceptLoop,
           AcceptClient, AcceptFails, Reject, WithinLimit, AssociateFails, TurnAway, Serve, ServeDone,
           WorkerLoop, WorkerPoll, WorkerWakes, PollingThread, CtrlC, Stop, ClearRunning,
           CloseListening, JoinDone, Stopping, JoinRace, Main, StartFails, Listen, Spawn, Store, ThreadFails, Watch,
           JoinStats, Cleanup, Destroy, MainStep
  <2> QED
    BY <2>1, <2>2, <2>3
<1>3. LateInv => AtMostOneLate
  BY DEF LateInv, AtMostOneLate
<1> QED
  BY <1>1, <1>2, <1>3, ServerInvariant, PTL DEF SafeSpec

------------------------------------------------------------------------------
\* What a step does to the queue: a worker that is alive calls pop while the server runs,
\* or goes on inside pop; nobody else touches it.
LEMMA QueueSteps ==
  ASSUME [Next]_vars
  PROVE  \/ UNCHANGED queueVars
         \/ /\ \E w \in Workers : /\ Alive(w)
                                  /\ (running_ /\ CallPop(w)) \/ Poll(w) \/ SpuriousWake(w)
            /\ UNCHANGED <<admission, control, threads>>
BY DEF Next, vars, serverVars, threads, started, Connect, Deliver, Abandon, AcceptThread, Accepting,
       AcceptLoop, AcceptClient, AcceptFails, Reject, WithinLimit, AssociateFails, Register, Serve,
       ServeDone, WorkerLoop, WorkerPoll, WorkerWakes, PollingThread, CtrlC, Stop, ClearRunning,
       CloseListening, JoinDone, Stopping, JoinRace, Main, StartFails, Listen, Spawn, Store, ThreadFails, Watch,
       JoinStats, Cleanup, Destroy, MainStep

\* The server uses the queue as its class allows, so every theorem about TaskQueue holds
\* of the queue inside the server: whatever main, stop and the clients do meanwhile.
THEOREM ServerUsesQueue == SafeSpec => QueueSafeSpec
<1>1. Init => QueueInit
  BY DEF Init
<1>2. [Next]_vars => [QueueNext]_queueVars
  BY QueueSteps DEF QueueNext
<1> QED
  BY <1>1, <1>2, PTL DEF SafeSpec, QueueSafeSpec

\* Who is inside pop has been started and has not returned; stop, while it joins the workers,
\* waits for everyone who is inside, if it has found all of them.
WorkersInv ==
  /\ \A w \in Workers : popper[w] # "out" => w \in spawned \ exited
  /\ \A h \in Handlers \ hasty : handler[h] = "workers"
       => \A w \in Workers : popper[w] # "out" => w \in toJoin[h]
  /\ NobodyLeftInPop

\* A step that leaves the queue alone: only stop moves on, and a thread that returns is
\* not inside pop.
LEMMA OutsideThreads ==
  ASSUME ServerInv, [Next]_vars, UNCHANGED queueVars
  PROVE  /\ spawned \subseteq spawned'
         /\ \A t \in exited' \ exited : t \in Workers => popper[t] = "out"
         /\ \/ UNCHANGED <<handler, toJoin, hasty>>
            \/ \E h \in Handlers : CtrlC(h) \/ Stop(h)
<1> USE DEF vars, serverVars, admission, control, threads, started, Accepting
<1>1. Acceptor \notin Workers /\ Iocp \notin Workers /\ Stats \notin Workers
  BY ServerAssumption
<1>2. ASSUME NEW c \in Conns, Connect(c) \/ Deliver(c) \/ Abandon(c)
      PROVE  UNCHANGED <<handler, toJoin, hasty, spawned, exited>>
  BY <1>2 DEF Connect, Deliver, Abandon
<1>3. CASE AcceptThread
  <2>1. UNCHANGED <<handler, toJoin, hasty, spawned>> /\ exited' \subseteq exited \cup {Acceptor}
    BY <1>3 DEF AcceptThread, AcceptLoop, AcceptClient, AcceptFails, Reject, WithinLimit,
                AssociateFails, TurnAway, Register, Serve, ServeDone, Exit
  <2> QED
    BY <1>1, <2>1
<1>4. ASSUME NEW w \in Workers, WorkerLoop(w) \/ WorkerPoll(w) \/ WorkerWakes(w)
      PROVE  /\ UNCHANGED <<handler, toJoin, hasty, spawned>>
             /\ exited' = exited \/ (exited' = exited \cup {w} /\ popper[w] = "out")
  BY <1>4 DEF WorkerLoop, WorkerPoll, WorkerWakes, Exit
<1>5. ASSUME NEW t \in {Iocp, Stats}, PollingThread(t)
      PROVE  UNCHANGED <<handler, toJoin, hasty, spawned>> /\ exited' = exited \cup {t} /\ t \notin Workers
  BY <1>1, <1>5 DEF PollingThread, Exit
<1>6. ASSUME NEW h \in Handlers, CtrlC(h) \/ Stop(h) \/ JoinRace(h)
      PROVE  /\ UNCHANGED <<spawned, exited>>
             /\ UNCHANGED <<handler, toJoin, hasty>> \/ CtrlC(h) \/ Stop(h)
  BY <1>6 DEF CtrlC, Stop, ClearRunning, CloseListening, JoinDone, Stopping, JoinRace
<1>7. CASE Main
  BY <1>7 DEF Main, StartFails, Listen, Spawn, Store, ThreadFails, Watch, JoinStats, Cleanup, Destroy, MainStep
<1>8. CASE UNCHANGED vars
  BY <1>8
<1> QED
  BY <1>2, <1>3, <1>4, <1>5, <1>6, <1>7, <1>8 DEF Next

\* A stop that has found all workers never goes past them while one of them is inside pop,
\* however many handlers run it and however workers are woken.
THEOREM NobodyLeftInPopHolds == SafeSpec => []NobodyLeftInPop
<1>1. Init => WorkersInv
  BY DEF Init, QueueInit, WorkersInv, NobodyLeftInPop
<1>2. ServerInv /\ QueueTypeOK /\ WorkersInv /\ [Next]_vars => WorkersInv'
  <2> SUFFICES ASSUME ServerInv, QueueTypeOK, WorkersInv, [Next]_vars
               PROVE  WorkersInv'
    OBVIOUS
  <2>0. /\ popper \in [Workers -> PopStates] /\ handler \in [Handlers -> HandlerStates]
        /\ toJoin \in [Handlers -> SUBSET stored] /\ joined \subseteq exited
    BY DEF ServerInv, TypeOK, QueueTypeOK
  <2>1. ASSUME NEW w \in Workers, Alive(w), running_, CallPop(w),
               UNCHANGED <<admission, control, threads>>
        PROVE  WorkersInv'
    <3>1. \A h \in Handlers : handler[h] \in {"ready", "ignored", "clear"}
      BY <2>1 DEF ServerInv, LifeInv
    <3> QED
      BY <2>0, <2>1, <3>1 DEF CallPop, Alive, WorkersInv, NobodyLeftInPop, control, threads, started
  <2>2. ASSUME NEW w \in Workers, Alive(w), Poll(w) \/ SpuriousWake(w),
               UNCHANGED <<admission, control, threads>>
        PROVE  WorkersInv'
    <3>1. \A v \in Workers : popper'[v] # "out" => popper[v] # "out"
      BY <2>0, <2>2 DEF Poll, SpuriousWake
    <3> QED
      BY <2>2, <3>1 DEF WorkersInv, NobodyLeftInPop, control, threads, started
  <2>3. CASE UNCHANGED queueVars
    <3>1. /\ UNCHANGED popper /\ spawned \subseteq spawned'
          /\ \A t \in exited' \ exited : t \in Workers => popper[t] = "out"
      BY <2>3, OutsideThreads DEF queueVars
    <3>2. \A w \in Workers : popper'[w] # "out" => w \in spawned' \ exited'
      BY <3>1 DEF WorkersInv
    <3>3. CASE UNCHANGED <<handler, toJoin, hasty>>
      BY <3>1, <3>2, <3>3 DEF WorkersInv, NobodyLeftInPop
    <3>4. ASSUME NEW h \in Handlers, CtrlC(h) \/ ClearRunning(h)
          PROVE  WorkersInv'
      <4>1. /\ handler' = [handler EXCEPT ![h] = handler'[h]] /\ UNCHANGED <<toJoin, hasty>>
            /\ handler'[h] \in {"clear", "ignored", "close"}
        BY <2>0, <3>4 DEF CtrlC, ClearRunning, Stopping
      <4> QED
        BY <2>0, <3>1, <3>2, <4>1 DEF WorkersInv, NobodyLeftInPop
    <3>5. ASSUME NEW h \in Handlers, CloseListening(h)
          PROVE  WorkersInv'
      <4>1. /\ handler' = [handler EXCEPT ![h] = "workers"]
            /\ toJoin' = [toJoin EXCEPT ![h] = toJoin'[h]]
            /\ \A g \in Handlers \ {h} : g \in hasty' <=> g \in hasty
        BY <2>0, <3>5 DEF CloseListening, Look, Stopping
      <4>2. h \notin hasty' => toJoin'[h] = Workers \ joined
        BY <2>0, <3>5 DEF CloseListening, Look
      <4>3. \A w \in Workers : popper[w] # "out" => w \in Workers \ joined
        BY <2>0 DEF WorkersInv
      <4> QED
        BY <2>0, <3>1, <3>2, <4>1, <4>2, <4>3 DEF WorkersInv, NobodyLeftInPop
    <3>6. ASSUME NEW h \in Handlers, JoinDone(h)
          PROVE  WorkersInv'
      <4>1. /\ \E s \in {"iocp", "accept", "stopped"} : handler' = [handler EXCEPT ![h] = s]
            /\ toJoin' = [toJoin EXCEPT ![h] = toJoin'[h]]
            /\ hasty' \in {hasty, hasty \cup {h}}
        BY <2>0, <3>6 DEF JoinDone, JoinsReturn, Look, Stopping, AfterJoin
      <4>2. toJoin[h] \subseteq exited /\ handler[h] \in {"workers", "iocp", "accept"}
        BY <3>6 DEF JoinDone, JoinsReturn
      <4>3. h \notin hasty => \A w \in Workers : popper[w] = "out"
        BY <4>2 DEF WorkersInv, NobodyLeftInPop
      <4> QED
        BY <2>0, <3>1, <3>2, <4>1, <4>3 DEF WorkersInv, NobodyLeftInPop
    <3> QED
      BY <2>3, <3>3, <3>4, <3>5, <3>6, OutsideThreads DEF Stop
  <2> QED
    BY <2>1, <2>2, <2>3, QueueSteps
<1>3. WorkersInv => NobodyLeftInPop
  BY DEF WorkersInv
<1> QED
  BY <1>1, <1>2, <1>3, ServerInvariant, ServerUsesQueue, QueueTypeCorrect, PTL DEF SafeSpec

------------------------------------------------------------------------------
\* What the refinement needs to know of the door: the flag, the listening socket, the
\* backlog and what stop has begun to join agree on how far the shutdown is.
DoorInv ==
  /\ running_ => listening
  /\ mainPc = "start" => ~listening
  /\ mainPc \in {"stats", "cleanup", "destroy"} => ~running_
  /\ ~listening => backlog = <<>>
  /\ \A h \in Handlers :
       IF handler[h] \in {"ready", "ignored", "clear", "close"} THEN toJoin[h] = {} ELSE ~listening

LEMMA DoorFrame ==
  ASSUME DoorInv, UNCHANGED control,
         backlog' = backlog \/ backlog # <<>> \/ listening
  PROVE  DoorInv'
BY DEF DoorInv, control

LEMMA DoorStep ==
  ASSUME ServerInv, DoorInv, [Next]_vars
  PROVE  DoorInv'
<1>1. ASSUME NEW c \in Conns, Connect(c) \/ Deliver(c) \/ Abandon(c)
      PROVE  DoorInv'
  BY <1>1, DoorFrame DEF Connect, Deliver, Abandon, serverVars, admission
<1>2. CASE AcceptThread
  <2>1. UNCHANGED control
    BY <1>2 DEF AcceptThread, AcceptLoop, AcceptClient, AcceptFails, Reject, WithinLimit, AssociateFails,
                Register, Serve, ServeDone, Accepting, serverVars
  <2>2. backlog' = backlog \/ backlog # <<>>
    BY <1>2 DEF AcceptThread, AcceptLoop, AcceptClient, AcceptFails, Reject, WithinLimit, AssociateFails,
                TurnAway, Register, Serve, ServeDone, serverVars, admission
  <2> QED
    BY <2>1, <2>2, DoorFrame
<1>3. ASSUME NEW w \in Workers, WorkerLoop(w) \/ WorkerPoll(w) \/ WorkerWakes(w)
      PROVE  DoorInv'
  BY <1>3, DoorFrame DEF WorkerLoop, WorkerPoll, WorkerWakes, serverVars, admission
<1>4. ASSUME NEW t \in {Iocp, Stats}, PollingThread(t)
      PROVE  DoorInv'
  BY <1>4, DoorFrame DEF PollingThread, admission
<1>5. ASSUME NEW h \in Handlers, CtrlC(h) \/ Stop(h) \/ JoinRace(h)
      PROVE  DoorInv'
  <2>0. /\ handler \in [Handlers -> HandlerStates] /\ toJoin \in [Handlers -> SUBSET stored]
    BY DEF ServerInv, TypeOK
  <2>1. CASE CtrlC(h)
    <3>1. /\ handler[h] = "ready" /\ UNCHANGED <<running_, listening, backlog, mainPc, toJoin>>
          /\ handler' = [handler EXCEPT ![h] = IF running_ THEN "clear" ELSE "ignored"]
      BY <2>1 DEF CtrlC, Stopping
    <3> QED
      BY <2>0, <3>1 DEF DoorInv
  <2>2. CASE ClearRunning(h)
    <3>1. /\ handler[h] = "clear" /\ running_' = FALSE
          /\ UNCHANGED <<listening, backlog, mainPc, toJoin>>
          /\ handler' = [handler EXCEPT ![h] = "close"]
      BY <2>2 DEF ClearRunning, Stopping
    <3> QED
      BY <2>0, <3>1 DEF DoorInv
  <2>3. CASE CloseListening(h)
    <3>1. /\ handler[h] = "close" /\ listening' = FALSE /\ backlog' = <<>>
          /\ UNCHANGED <<running_, mainPc>>
          /\ handler' = [handler EXCEPT ![h] = "workers"]
          /\ \A g \in Handlers \ {h} : toJoin'[g] = toJoin[g]
      BY <2>0, <2>3 DEF CloseListening, Look, Stopping
    <3>2. ~running_
      BY <3>1 DEF ServerInv, LifeInv
    <3> QED
      BY <2>0, <3>1, <3>2 DEF DoorInv
  <2>4. CASE JoinDone(h)
    <3>1. /\ handler[h] \in {"workers", "iocp", "accept"}
          /\ UNCHANGED <<running_, listening, backlog, mainPc>>
          /\ handler' = [handler EXCEPT ![h] = AfterJoin(handler[h])[1]]
          /\ \A g \in Handlers \ {h} : toJoin'[g] = toJoin[g]
      BY <2>0, <2>4 DEF JoinDone, JoinsReturn, Look, Stopping
    <3>2. AfterJoin(handler[h])[1] \in {"iocp", "accept", "stopped"}
      BY <3>1 DEF AfterJoin
    <3> QED
      BY <2>0, <3>1, <3>2 DEF DoorInv
  <2>5. CASE JoinRace(h)
    BY <2>5, DoorFrame DEF JoinRace, serverVars, admission
  <2> QED
    BY <1>5, <2>1, <2>2, <2>3, <2>4, <2>5 DEF Stop
<1>6. CASE Main
  <2>1. UNCHANGED <<backlog, handler, toJoin>>
    BY <1>6 DEF Main, StartFails, Listen, Spawn, Store, ThreadFails, Watch, JoinStats, Cleanup, Destroy, MainStep, admission
  <2>2. CASE Listen
    <3>1. mainPc = "start" /\ mainPc' = "spawn" /\ listening' = TRUE /\ running_' = TRUE
      BY <2>2 DEF Listen, MainStep
    <3>2. \A h \in Handlers : handler[h] \in {"ready", "ignored"}
      BY <3>1 DEF ServerInv, LifeInv
    <3> QED
      BY <2>1, <3>1, <3>2 DEF DoorInv
  <2>3. CASE ~Listen
    <3>1. UNCHANGED <<running_, listening>> /\ mainPc' # "start"
          /\ (mainPc' \in {"stats", "cleanup", "destroy"}
                => ~running_ \/ mainPc \in {"stats", "cleanup", "destroy"})
      BY <1>6, <2>3 DEF Main, StartFails, Spawn, Store, ThreadFails, Watch, JoinStats, Cleanup, Destroy, MainStep
    <3> QED
      BY <2>1, <3>1 DEF DoorInv
  <2> QED
    BY <2>2, <2>3
<1>7. CASE UNCHANGED vars
  BY <1>7, DoorFrame DEF vars, serverVars, admission
<1> QED
  BY <1>1, <1>2, <1>3, <1>4, <1>5, <1>6, <1>7 DEF Next

LEMMA PendingStep ==
  ASSUME ServerInv, PendingInv, [Next]_vars
  PROVE  PendingInv'
<1>1. CASE Serve
  <2>1. current \in Conns /\ AsyncRead(current)
    BY <1>1 DEF Serve, ServerInv, TypeOK, AcceptInv
  <2> QED
    BY <2>1, PendingRead DEF ServerInv
<1>2. CASE ~Serve
  <2>1. UNCHANGED <<step, got, response, out, request>>
    BY <1>2 DEF Next, vars, connVars, objVars, peerVars, Connect, Deliver, Abandon, SendUnit, TakeAnswer, HangUp,
                AcceptThread, AcceptLoop, AcceptClient, AcceptFails, Accepting, Reject, WithinLimit,
                AssociateFails, TurnAway, Register, Construct, ServeDone, WorkerLoop, WorkerPoll,
                WorkerWakes, PollingThread, CtrlC, Stop, ClearRunning, CloseListening, JoinDone,
                Stopping, JoinRace, Main, StartFails, Listen, Spawn, Store, ThreadFails, Watch, JoinStats, Cleanup,
                Destroy, MainStep
  <2>2. process' = "up" => process = "up"
    BY <1>2 DEF Next, vars, connVars, Connect, Deliver, Abandon, SendUnit, TakeAnswer, HangUp,
                AcceptThread, AcceptLoop, AcceptClient, AcceptFails, Accepting, Reject, WithinLimit,
                AssociateFails, Register, Construct, ServeDone, WorkerLoop, WorkerPoll,
                WorkerWakes, PollingThread, CtrlC, Stop, ClearRunning, CloseListening, JoinDone,
                Stopping, JoinRace, Main, StartFails, Listen, Spawn, Store, ThreadFails, Watch, JoinStats, Cleanup,
                Destroy, MainStep
  <2> QED
    BY <2>1, <2>2, PendingFrame
<1> QED
  BY <1>1, <1>2

\* All that the refinement rests on.
LobbyInv == ServerInv /\ DoorInv /\ PendingInv

LEMMA LobbyInvariant == SafeSpec => []LobbyInv
<1>1. Init => DoorInv /\ PendingInv
  BY InitPending DEF Init, DoorInv
<1>2. ServerInv /\ DoorInv /\ PendingInv /\ [Next]_vars => DoorInv' /\ PendingInv'
  BY DoorStep, PendingStep
<1> QED
  BY <1>1, <1>2, ServerInvariant, PTL DEF SafeSpec, LobbyInv

------------------------------------------------------------------------------
\* The parts of the mapping that a step leaves alone.
LEMMA SameExchange ==
  ASSUME UNCHANGED <<state_, step, response, out, peerVars, winsock, process>>
  PROVE  UNCHANGED Lobby!exchange
BY DEF Lobby!exchange, Presence, Asked, Needed, Phase, Due, Up, peerVars

LEMMA SameReception ==
  ASSUME UNCHANGED <<control, backlog, current, connections_, late>>
  PROVE  UNCHANGED Lobby!reception /\ UNCHANGED <<Door, Last, Quiet>>
BY DEF Lobby!reception, Door, Last, Quiet, control

LEMMA Stutter ==
  ASSUME UNCHANGED <<state_, step, response, out, peerVars, winsock, process,
                     control, backlog, current, connections_, late>>
  PROVE  UNCHANGED Lobby!all
BY SameExchange, SameReception DEF Lobby!all

\* Clients come, speak and leave.
LEMMA ClientsRefine ==
  ASSUME LobbyInv, NEW c \in Conns, Connect(c) \/ Deliver(c) \/ Abandon(c)
  PROVE  Lobby!Next \/ UNCHANGED Lobby!all
<1> USE DEF LobbyInv
<1>1. CASE Connect(c)
  <2>1. /\ process = "up" /\ listening /\ peer[c] = "none" /\ backlog' = Append(backlog, c)
        /\ peer' = [peer EXCEPT ![c] = "open"]
        /\ UNCHANGED <<objVars, request, sent, winsock, process, control, connections_, current, late>>
    BY <1>1 DEF Connect
  <2>2. Presence[c] = "away" /\ Presence' = [Presence EXCEPT ![c] = "here"]
    BY <2>1 DEF Presence, ServerInv, ConnTypeOK
  <2>3. UNCHANGED <<Asked, Phase, Due, Up, winsock>>
    BY <2>1 DEF Asked, Needed, Phase, Due, Up, objVars
  <2>4. UNCHANGED <<Door, Last, Quiet>> /\ Door \in {"opening", "open", "closing"} /\ Up
    BY <2>1 DEF Door, Last, Quiet, Up, DoorInv, control
  <2>5. Lobby!Arrive(c)
    BY <2>1, <2>2, <2>3, <2>4 DEF Lobby!Arrive, Lobby!Door
  <2> QED
    BY <2>5 DEF Lobby!Next
<1>2. CASE Deliver(c) \/ Abandon(c)
  <2>1. OneShot!Ask(c) \/ OneShot!Leave(c) \/ UNCHANGED OneShot!exchange
    BY <1>2, ClientRefines DEF Deliver, Abandon, ServerInv
  <2>2. UNCHANGED Lobby!reception
    BY <1>2, SameReception DEF Deliver, Abandon, serverVars, admission
  <2>3. Lobby!Ask(c) \/ Lobby!Leave(c) \/ UNCHANGED Lobby!exchange
    BY <2>1 DEF OneShot!Ask, OneShot!Leave, OneShot!exchange, Lobby!Ask, Lobby!Leave, Lobby!exchange
  <2> QED
    BY <2>2, <2>3 DEF Lobby!Next, Lobby!all
<1> QED
  BY <1>1, <1>2

\* The reception counts with its own instance of Cardinality.
LEMMA SameCardinality == \A S : Lobby!Cardinality(S) = Cardinality(S)
BY DEF Lobby!Cardinality, Cardinality

\* The accept thread calls the next client, passes one over or turns one away.
LEMMA AcceptRefines ==
  ASSUME LobbyInv,
         AcceptLoop \/ AcceptClient \/ AcceptFails \/ Reject \/ WithinLimit \/ AssociateFails
  PROVE  Lobby!Next \/ UNCHANGED Lobby!all
<1> USE DEF LobbyInv
<1>0. UNCHANGED <<control, peerVars, winsock, process, state_, step, response, out, connections_, late>>
      /\ Up
  BY DEF AcceptLoop, AcceptClient, AcceptFails, Reject, WithinLimit, AssociateFails, TurnAway,
         Accepting, objVars, Alive, Up
<1>1. UNCHANGED Lobby!exchange /\ UNCHANGED <<Door, Last, Quiet>>
  BY <1>0, SameExchange DEF Door, Last, Quiet, control
<1>2. CASE AcceptLoop \/ WithinLimit
  BY <1>0, <1>2, Stutter DEF AcceptLoop, WithinLimit
<1>3. CASE AcceptClient
  <2>1. /\ acceptPc = "accept" /\ backlog # <<>> /\ current' = Head(backlog)
        /\ backlog' = Tail(backlog)
    BY <1>3 DEF AcceptClient, Accepting
  <2>2. current = NoConn
    BY <2>1 DEF ServerInv, TypeOK
  <2>3. ~Quiet
    BY <2>1 DEF ServerInv, LifeInv, Over, Quiet
  <2>4. Lobby!CallNext
    BY <1>0, <1>1, <2>1, <2>2, <2>3 DEF Lobby!CallNext
  <2> QED
    BY <2>4 DEF Lobby!Next
<1>4. CASE AcceptFails
  <2>1. acceptPc = "accept" /\ current' = current
    BY <1>4 DEF AcceptFails, Accepting
  <2>2. current = NoConn
    BY <2>1 DEF ServerInv, TypeOK
  <2>3. CASE backlog' = backlog
    BY <1>0, <2>1, <2>3, Stutter
  <2>4. CASE backlog # <<>> /\ peer[Head(backlog)] = "reset" /\ backlog' = Tail(backlog)
    <3>1. Head(backlog) \in Conns
      BY <2>4 DEF ServerInv, TypeOK
    <3>2. Presence[Head(backlog)] = "left"
      BY <2>4, <3>1 DEF Presence
    <3>3. Lobby!Skip
      BY <1>0, <1>1, <2>1, <2>2, <2>4, <3>2 DEF Lobby!Skip
    <3> QED
      BY <3>3 DEF Lobby!Next
  <2> QED
    BY <1>4, <2>3, <2>4 DEF AcceptFails
<1>5. CASE Reject \/ AssociateFails
  <2>1. /\ acceptPc \in {"limit", "register"} /\ current' = NoConn /\ backlog' = backlog
        /\ LimitReached \/ "associate" \in Faults
    BY <1>5 DEF Reject, AssociateFails, Accepting, TurnAway
  <2>2. current # NoConn /\ current \notin connections_
    BY <2>1 DEF ServerInv, TypeOK, AcceptInv
  <2>3. LimitReached => Cardinality(connections_) >= MaxConnections
    BY DEF LimitReached, ServerInv, AdmissionBound
  <2>4. Lobby!TurnAway
    BY <1>0, <1>1, <2>1, <2>2, <2>3, SameCardinality DEF Lobby!TurnAway, Lobby!Newcomer
  <2> QED
    BY <2>4 DEF Lobby!Next
<1> QED
  BY <1>2, <1>3, <1>4, <1>5

\* It registers a client, serves it and is done with it.
LEMMA ServeRefines ==
  ASSUME LobbyInv, Register \/ Serve \/ ServeDone
  PROVE  Lobby!Next \/ UNCHANGED Lobby!all
<1> USE DEF LobbyInv
<1>1. CASE Register
  <2>1. /\ Alive(Acceptor) /\ acceptPc = "register" /\ Construct(current)
        /\ connections_' = connections_ \cup {current}
        /\ late' = IF running_ THEN late ELSE late \cup {current}
        /\ UNCHANGED <<control, backlog, current>>
    BY <1>1 DEF Register
  <2>2. current \in Conns /\ current # NoConn /\ current \notin connections_
    BY <2>1, ServerAssumption DEF ServerInv, TypeOK, AcceptInv
  <2>3. UNCHANGED Lobby!exchange
    BY <2>1, <2>2, ConstructRefines DEF ServerInv, Lobby!exchange, OneShot!exchange
  <2>4. Cardinality(connections_) < MaxConnections
    BY <2>1 DEF ServerInv, AcceptInv, AdmissionBound
  <2>5. late = {} /\ mainPc # "start"
    BY <2>1 DEF ServerInv, LifeInv, Alive
  <2>6. UNCHANGED <<Door, Quiet>> /\ Up
    BY <2>1 DEF Door, Quiet, Up, control, Alive
  <2>7. ~Last /\ Last' = (Door \notin {"opening", "open"})
    BY <2>1, <2>5 DEF Last, Door
  <2>8. Lobby!Admit
    BY <2>1, <2>2, <2>3, <2>4, <2>6, <2>7, SameCardinality
    DEF Lobby!Admit, Lobby!Newcomer, Lobby!Inviting
  <2> QED
    BY <2>8 DEF Lobby!Next
<1>2. CASE Serve
  <2>1. acceptPc = "serve" /\ AsyncRead(current) /\ UNCHANGED serverVars
    BY <1>2 DEF Serve
  <2>2. current \in Conns /\ current \in connections_ /\ peer[current] # "none"
    BY <2>1 DEF ServerInv, TypeOK, AcceptInv, ArrivalInv
  <2>3. OneShot!Service(current) \/ UNCHANGED OneShot!exchange
    BY <2>1, <2>2, ReadRefines DEF ServerInv
  <2>4. Lobby!Service(current) \/ UNCHANGED Lobby!exchange
    BY <2>3 DEF OneShot!Service, OneShot!Begin, OneShot!Tell, OneShot!Conclude, OneShot!Drop,
                OneShot!Break, OneShot!exchange, Lobby!Service, Lobby!Begin, Lobby!Tell,
                Lobby!Conclude, Lobby!Drop, Lobby!Break, Lobby!exchange
  <2>5. UNCHANGED Lobby!reception
    BY <2>1, SameReception DEF serverVars, admission
  <2> QED
    BY <2>2, <2>4, <2>5 DEF Lobby!Serve, Lobby!Next, Lobby!all
<1>3. CASE ServeDone
  <2>1. /\ acceptPc = "serve" /\ step[current] = "returned" /\ current' = NoConn /\ process = "up"
        /\ UNCHANGED <<control, peerVars, winsock, process, objVars, backlog, connections_, late>>
    BY <1>3 DEF ServeDone, Accepting, Alive
  <2>2. current \in Conns /\ current \in connections_
    BY <2>1 DEF ServerInv, TypeOK, AcceptInv
  <2>3. Phase[current] \in {"answered", "dropped"} /\ Up
    BY <2>1, <2>2 DEF Phase, Up
  <2>4. UNCHANGED Lobby!exchange
    BY <2>1, SameExchange DEF objVars
  <2>5. UNCHANGED <<Door, Last, Quiet>>
    BY <2>1 DEF Door, Last, Quiet, control
  <2>6. Lobby!Dismiss
    BY <2>1, <2>2, <2>3, <2>4, <2>5 DEF Lobby!Dismiss
  <2> QED
    BY <2>6 DEF Lobby!Next
<1> QED
  BY <1>1, <1>2, <1>3

\* stop closes the door in two steps, sends the line home and waits for the desk.
LEMMA StopRefines ==
  ASSUME LobbyInv, NEW h \in Handlers, CtrlC(h) \/ Stop(h) \/ JoinRace(h)
  PROVE  Lobby!Next \/ UNCHANGED Lobby!all
<1> USE DEF LobbyInv
<1>0. handler \in [Handlers -> HandlerStates] /\ Up
  BY DEF ServerInv, TypeOK, CtrlC, Stop, ClearRunning, CloseListening, JoinDone, Stopping, JoinRace, Up
<1>1. CASE CtrlC(h)
  <2>1. /\ handler[h] = "ready" /\ UNCHANGED <<running_, listening, mainPc, hasty, peerVars, winsock, process>>
        /\ UNCHANGED <<objVars, backlog, current, connections_, late>>
        /\ handler' = [handler EXCEPT ![h] = IF running_ THEN "clear" ELSE "ignored"]
    BY <1>1 DEF CtrlC, Stopping, peerVars
  <2>2. UNCHANGED <<Door, Last>> /\ Quiet' = Quiet
    BY <1>0, <2>1 DEF Door, Last, Quiet
  <2>3. UNCHANGED Lobby!exchange
    BY <2>1, SameExchange DEF objVars
  <2> QED
    BY <2>1, <2>2, <2>3 DEF Lobby!all, Lobby!reception
<1>2. CASE ClearRunning(h)
  <2>1. /\ handler[h] = "clear" /\ UNCHANGED <<listening, mainPc, hasty, peerVars, winsock, process>>
        /\ running_' = FALSE
        /\ UNCHANGED <<objVars, backlog, current, connections_, late>>
        /\ handler' = [handler EXCEPT ![h] = "close"]
    BY <1>2 DEF ClearRunning, Stopping, peerVars
  <2>2. UNCHANGED Last /\ Quiet' = Quiet
    BY <1>0, <2>1 DEF Last, Quiet
  <2>3. UNCHANGED Lobby!exchange
    BY <2>1, SameExchange DEF objVars
  <2>4. mainPc # "start" /\ running_ \in BOOLEAN /\ listening \in BOOLEAN
    BY <2>1 DEF ServerInv, LifeInv, TypeOK
  <2>5. CASE running_
    <3>1. Door \in {"opening", "open"} /\ Door' = "closing"
      BY <2>1, <2>4, <2>5 DEF Door, DoorInv
    <3>2. Lobby!StartToClose
      BY <1>0, <2>1, <2>2, <2>3, <3>1 DEF Lobby!StartToClose, Lobby!Door
    <3> QED
      BY <3>2 DEF Lobby!Next
  <2>6. CASE ~running_
    <3>1. Door' = Door
      BY <2>1, <2>4, <2>6 DEF Door
    <3> QED
      BY <2>1, <2>2, <2>3, <3>1 DEF Lobby!all, Lobby!reception
  <2> QED
    BY <2>5, <2>6
<1>3. CASE CloseListening(h)
  <2>1. /\ handler[h] = "close" /\ UNCHANGED <<running_, mainPc, request, sent, winsock, process>>
        /\ listening' = FALSE /\ backlog' = <<>>
        /\ peer' = [c \in Conns |-> IF \E i \in 1..Len(backlog) : backlog[i] = c
                                    THEN "refused" ELSE peer[c]]
        /\ UNCHANGED <<objVars, current, connections_, late>>
        /\ handler' = [handler EXCEPT ![h] = "workers"]
        /\ hasty' \in {hasty, hasty \cup {h}}
    BY <1>3 DEF CloseListening, Look, Stopping
  <2>2. UNCHANGED Last /\ Quiet' = Quiet
    BY <1>0, <2>1 DEF Last, Quiet
  <2>3. ~running_ /\ mainPc # "start"
    BY <2>1 DEF ServerInv, LifeInv
  <2>4. UNCHANGED <<Asked, Phase, Due, Up, winsock>>
    BY <2>1 DEF Asked, Needed, Phase, Due, Up, objVars
  <2>5. Presence' = [c \in Conns |-> IF \E i \in 1..Len(backlog) : backlog[i] = c
                                     THEN "left" ELSE Presence[c]]
    BY <2>1 DEF Presence
  <2>6. CASE listening
    <3>1. Door = "closing" /\ Door' = "shut"
      BY <2>1, <2>3, <2>6 DEF Door
    <3>2. Lobby!Shut
      BY <1>0, <2>1, <2>2, <2>4, <2>5, <3>1 DEF Lobby!Shut, Lobby!Door
    <3> QED
      BY <3>2 DEF Lobby!Next
  <2>7. CASE ~listening
    <3>1. backlog = <<>> /\ Door' = Door
      BY <2>1, <2>3, <2>7 DEF Door, DoorInv
    <3>2. Presence' = Presence
      BY <2>5, <3>1 DEF Presence
    <3> QED
      BY <2>1, <2>2, <2>4, <3>1, <3>2 DEF Lobby!all, Lobby!reception, Lobby!exchange
  <2> QED
    BY <2>6, <2>7
<1>4. CASE JoinDone(h)
  <2>1. /\ handler[h] \in {"workers", "iocp", "accept"} /\ toJoin[h] \subseteq exited
        /\ UNCHANGED <<running_, listening, mainPc, peerVars, winsock, process>>
        /\ UNCHANGED <<objVars, backlog, current, connections_, late>>
        /\ handler' = [handler EXCEPT ![h] = AfterJoin(handler[h])[1]]
        /\ hasty' \in {hasty, hasty \cup {h}}
        /\ handler[h] = "accept" => hasty' = hasty
    BY <1>4 DEF JoinDone, JoinsReturn, Look, AfterJoin, Stopping, peerVars
  <2>2. UNCHANGED Last /\ Door' = Door /\ UNCHANGED Lobby!exchange
    BY <2>1, SameExchange DEF Last, Door, objVars
  <2>3. CASE handler[h] # "accept"
    <3>1. AfterJoin(handler[h])[1] \in {"iocp", "accept"}
      BY <2>1, <2>3 DEF AfterJoin
    <3>2. Quiet' = Quiet
      BY <1>0, <2>1, <3>1 DEF Quiet
    <3> QED
      BY <2>1, <2>2, <3>2 DEF Lobby!all, Lobby!reception
  <2>4. CASE handler[h] = "accept"
    <3>1. handler'[h] = "stopped" /\ hasty' = hasty
      BY <1>0, <2>1, <2>4 DEF AfterJoin
    <3>2. CASE h \in hasty
      <4>1. Quiet' = Quiet
        BY <1>0, <2>1, <3>1, <3>2 DEF Quiet
      <4> QED
        BY <2>1, <2>2, <4>1 DEF Lobby!all, Lobby!reception
    <3>3. CASE h \notin hasty
      <4>1. Quiet' = TRUE
        BY <3>1, <3>3 DEF Quiet
      <4>2. ~running_ /\ mainPc # "start" /\ ~listening
        BY <2>4 DEF ServerInv, LifeInv, DoorInv
      <4>3. acceptPc = "test"
        BY <2>1, <2>4, <3>3 DEF ServerInv, LifeInv, Over
      <4>4. current = NoConn /\ Door = "shut"
        BY <4>2, <4>3 DEF ServerInv, TypeOK, Door
      <4>5. Lobby!BeQuiet
        BY <1>0, <2>1, <2>2, <4>1, <4>4 DEF Lobby!BeQuiet, Lobby!Door
      <4> QED
        BY <4>5 DEF Lobby!Next
    <3> QED
      BY <3>2, <3>3
  <2> QED
    BY <2>3, <2>4
<1>5. CASE JoinRace(h)
  <2>1. /\ process' = "terminated" /\ UNCHANGED <<objVars, peerVars, winsock, serverVars>>
        /\ toJoin[h] # {} \/ handler[h] \in {"workers", "iocp", "accept"}
    BY <1>5 DEF JoinRace, JoinsReturn
  <2>2. handler[h] \notin {"ready", "ignored", "clear", "close"}
    BY <2>1 DEF DoorInv
  <2>3. Door = "shut"
    BY <2>2 DEF ServerInv, LifeInv, DoorInv, Door
  <2>4. UNCHANGED <<Presence, Asked, Phase, Due, winsock>> /\ Up' = FALSE
    BY <2>1 DEF Presence, Asked, Needed, Phase, Due, Up, objVars, peerVars
  <2>5. UNCHANGED Lobby!reception
    BY <2>1, SameReception DEF serverVars, admission
  <2>6. Lobby!End
    BY <1>0, <2>3, <2>4, <2>5 DEF Lobby!End, Lobby!Door, Lobby!reception
  <2> QED
    BY <2>6 DEF Lobby!Next
<1> QED
  BY <1>1, <1>2, <1>3, <1>4, <1>5 DEF Stop

\* main opens the door; it gives the network back and ends the process when it is closed.
LEMMA MainRefines ==
  ASSUME LobbyInv, Main
  PROVE  Lobby!Next \/ UNCHANGED Lobby!all
<1> USE DEF LobbyInv
<1>0. /\ UNCHANGED <<objVars, peerVars, backlog, current, connections_, late, handler, hasty>>
      /\ process = "up"
  BY DEF Main, StartFails, Listen, Spawn, Store, ThreadFails, Watch, JoinStats, Cleanup, Destroy, MainStep, admission
<1>1. UNCHANGED <<Presence, Asked, Phase, Due, Last, Quiet>> /\ Up
  BY <1>0 DEF Presence, Asked, Needed, Phase, Due, Last, Quiet, Up, objVars, peerVars
<1>2. CASE Listen
  <2>1. Door = "new" /\ Door' = "opening" /\ UNCHANGED <<winsock, process>>
    BY <1>2 DEF Listen, MainStep, Door
  <2>2. Lobby!Open
    BY <1>0, <1>1, <2>1 DEF Lobby!Open, Lobby!Door, Lobby!exchange, Up
  <2> QED
    BY <2>2 DEF Lobby!Next
<1>3. CASE StartFails
  <2>1. /\ mainPc = "start" /\ mainPc' = "done" /\ process' = "exited"
        /\ UNCHANGED <<running_, listening, winsock>>
    BY <1>3 DEF StartFails, MainStep
  <2>2. Door = "new" /\ Door' = "shut"
    BY <2>1 DEF Door, DoorInv, ServerInv, LifeInv
  <2>3. Lobby!End
    BY <1>0, <1>1, <2>1, <2>2 DEF Lobby!End, Lobby!Door, Up
  <2> QED
    BY <2>3 DEF Lobby!Next
<1>4. CASE (\E t \in Threads : Spawn(t) \/ Store(t)) \/ Watch \/ JoinStats
  <2>1. /\ mainPc # "start" /\ mainPc' # "start"
        /\ UNCHANGED <<running_, listening, winsock, process>>
        /\ mainPc' = mainPc \/ mainPc = "spawn" \/ ~running_
    BY <1>4 DEF Spawn, Store, Watch, JoinStats, MainStep, DoorInv
  <2>2. Door' = Door \/ (Door = "opening" /\ Door' = "open")
    BY <2>1 DEF Door
  <2>3. CASE Door' = Door
    BY <1>0, <1>1, <2>1, <2>3 DEF Lobby!all, Lobby!exchange, Lobby!reception, Up
  <2>4. CASE Door = "opening" /\ Door' = "open"
    <3>1. Lobby!Open
      BY <1>0, <1>1, <2>1, <2>4 DEF Lobby!Open, Lobby!Door, Lobby!exchange, Up
    <3> QED
      BY <3>1 DEF Lobby!Next
  <2> QED
    BY <2>2, <2>3, <2>4
<1>t. CASE ThreadFails
  <2>1. /\ mainPc = "spawn" /\ mainPc' = "spawn" /\ process' = "terminated"
        /\ UNCHANGED <<running_, listening, winsock>>
    BY <1>t DEF ThreadFails, MainStep
  <2>2. Door' = Door /\ Door \in {"opening", "closing", "shut"}
    BY <2>1 DEF Door
  <2>3. Lobby!End
    BY <1>0, <1>1, <2>1, <2>2 DEF Lobby!End, Lobby!Door, Up
  <2> QED
    BY <2>3 DEF Lobby!Next
<1>5. CASE Cleanup \/ Destroy
  <2>1. /\ mainPc \in {"cleanup", "destroy"} /\ mainPc' # "start" /\ UNCHANGED <<running_, listening>>
    BY <1>5 DEF Cleanup, Destroy, MainStep
  <2>2. Door \in {"closing", "shut"} /\ Door' = Door
    BY <2>1 DEF Door, DoorInv
  <2>3. CASE Cleanup
    <3>1. winsock' = FALSE /\ process' = process
      BY <2>3 DEF Cleanup
    <3>2. Lobby!Unplug
      BY <1>0, <1>1, <2>2, <3>1 DEF Lobby!Unplug, Lobby!Door, Up
    <3> QED
      BY <3>2 DEF Lobby!Next
  <2>4. CASE Destroy
    <3>1. winsock' = winsock /\ process' \in {"exited", "terminated"}
      BY <2>4 DEF Destroy
    <3>2. Lobby!End
      BY <1>0, <1>1, <2>2, <3>1 DEF Lobby!End, Lobby!Door, Up
    <3> QED
      BY <3>2 DEF Lobby!Next
  <2> QED
    BY <1>5, <2>3, <2>4
<1> QED
  BY <1>2, <1>3, <1>4, <1>5, <1>t DEF Main

\* The server implements the reception, for every number of clients, threads and
\* console handlers, whatever fails and whenever it is stopped.
THEOREM ServerImplementsReception == SafeSpec => ReceptionSpec
<1>1. Init => Lobby!Init
  <2> SUFFICES ASSUME Init PROVE Lobby!Init
    OBVIOUS
  <2>1. Fresh("none", "none")
    BY DEF Init
  <2>2. Presence = [c \in Conns |-> "away"]
    BY <2>1 DEF Fresh, Presence
  <2>3. Door = "new" /\ Last = FALSE /\ Quiet = FALSE
    BY DEF Init, Door, Last, Quiet
  <2>4. backlog = <<>> /\ current = NoConn /\ connections_ = {}
    BY DEF Init
  <2> QED
    BY <2>1, <2>2, <2>3, <2>4, InitSilence DEF Lobby!Init, Lobby!Silence
<1>2. LobbyInv /\ [Next]_vars => [Lobby!Next]_(Lobby!all)
  <2> SUFFICES ASSUME LobbyInv, [Next]_vars
               PROVE  Lobby!Next \/ UNCHANGED Lobby!all
    OBVIOUS
  <2>1. ASSUME NEW c \in Conns, Connect(c) \/ Deliver(c) \/ Abandon(c)
        PROVE  Lobby!Next \/ UNCHANGED Lobby!all
    BY <2>1, ClientsRefine
  <2>2. CASE AcceptThread
    BY <2>2, AcceptRefines, ServeRefines DEF AcceptThread
  <2>3. ASSUME NEW w \in Workers, WorkerLoop(w) \/ WorkerPoll(w) \/ WorkerWakes(w)
        PROVE  UNCHANGED Lobby!all
    BY <2>3, Stutter DEF WorkerLoop, WorkerPoll, WorkerWakes, connVars, objVars, serverVars, admission
  <2>4. ASSUME NEW t \in {Iocp, Stats}, PollingThread(t)
        PROVE  UNCHANGED Lobby!all
    BY <2>4, Stutter DEF PollingThread, connVars, objVars, admission
  <2>5. CASE UNCHANGED vars
    BY <2>5, Stutter DEF vars, connVars, objVars, serverVars, admission
  <2> QED
    BY <2>1, <2>2, <2>3, <2>4, <2>5, StopRefines, MainRefines DEF Next
<1> QED
  BY <1>1, <1>2, LobbyInvariant, PTL DEF SafeSpec, ReceptionSpec, Lobby!Spec
=============================================================================
