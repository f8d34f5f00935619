-------------------------------- MODULE Server --------------------------------
(***************************************************************************)
(* Class Server of src/src/server.cpp with the threads that use it: main,  *)
(* the statistics thread and the console handler of src/src/main.cpp.      *)
(*                                                                         *)
(* One accept thread admits clients and serves each of them to the end     *)
(* (module Connection). The workers call TaskQueue::pop (module TaskQueue);*)
(* no code calls push, so Tasks is instantiated with the empty set, and    *)
(* what worker_thread_loop does after pop (handle_async_task,              *)
(* cleanup_expired_connections) is never reached. A console handler runs   *)
(* stop on a thread of its own; main never calls stop before ~Server.      *)
(* Faults may also hold "start", "associate" and "thread", system calls    *)
(* that fail.                                                              *)
(***************************************************************************)
EXTENDS Connection, TaskQueue

CONSTANTS MaxConnections,  \* max_connections_
          Handlers,        \* threads Windows starts for Ctrl-C
          Iocp, Acceptor, Stats,  \* the other threads
          NoConn,          \* "no connection"
          Prompt           \* clients that deliver their request and read the answer

Threads == Workers \cup {Iocp, Acceptor, Stats}

ASSUME ServerAssumption == /\ MaxConnections \in Nat
                           /\ IsFiniteSet(Conns)
                           /\ NoConn \notin Conns
                           /\ Prompt \subseteq Conns
                           /\ Faults \subseteq {"fin", "reset", "storage", "start", "associate", "thread"}
                           /\ Workers \cap {Iocp, Acceptor, Stats} = {}
                           /\ Cardinality({Iocp, Acceptor, Stats}) = 3

VARIABLES
  running_,             \* atomic flag
  listening,            \* server_socket_ is open
  backlog,              \* connections the system has queued for accept
  connections_,         \* registered Connection objects
  active_connections_,
  acceptPc, current,    \* position of the accept thread, and the client it has
  spawned, stored,      \* threads that run, and those a std::thread of the server holds
  exited, joined,       \* threads that have returned, and have been joined
  mainPc,               \* position of main
  handler, toJoin,      \* position of stop in each handler; the threads it is joining
  late,                 \* history: connections registered after running_ was cleared
  hasty                 \* history: handlers whose stop looked for a thread not stored yet

admission == <<backlog, connections_, active_connections_, acceptPc, current, late>>
control == <<running_, listening, mainPc, handler, toJoin, hasty>>
started == <<spawned, stored>>
threads == <<started, exited, joined>>
serverVars == <<admission, control, threads>>
vars == <<connVars, queueVars, serverVars>>

AcceptStates == {"test", "accept", "limit", "register", "serve"}
MainStates == {"start", "spawn", "watch", "stats", "cleanup", "destroy", "done"}
HandlerStates == {"ready", "ignored", "clear", "close", "workers", "iocp", "accept", "stopped"}

Init == /\ Fresh("none", "none")
        /\ QueueInit
        /\ running_ = FALSE
        /\ listening = FALSE
        /\ backlog = <<>>
        /\ connections_ = {}
        /\ active_connections_ = 0
        /\ acceptPc = "test"
        /\ current = NoConn
        /\ spawned = {}
        /\ stored = {}
        /\ exited = {}
        /\ joined = {}
        /\ mainPc = "start"
        /\ handler = [h \in Handlers |-> "ready"]
        /\ toJoin = [h \in Handlers |-> {}]
        /\ late = {}
        /\ hasty = {}

Alive(t) == process = "up" /\ t \in spawned /\ t \notin exited

\* The function of thread t returns.
Exit(t) == exited' = exited \cup {t}

------------------------------------------------------------------------------
\* Clients and the system's queue of connections.

\* A connection is completed by the system and waits for accept. (Beyond the
\* backlog given to listen it is refused: as if the client had not come.)
Connect(c) == /\ process = "up"
              /\ listening
              /\ peer[c] = "none"
              /\ Len(backlog) < MaxConnections
              /\ peer' = [peer EXCEPT ![c] = "open"]
              /\ backlog' = Append(backlog, c)
              /\ UNCHANGED <<objVars, request, sent, unread, winsock, process, queueVars, control,
                             threads, connections_, active_connections_, acceptPc, current, late>>

\* The rest of the request is sent, the answer is read.
Deliver(c) == (SendUnit(c) \/ TakeAnswer(c)) /\ UNCHANGED <<queueVars, serverVars>>

Abandon(c) == /\ \E how \in Faults \cap {"fin", "reset"} : HangUp(c, how)
              /\ UNCHANGED <<queueVars, serverVars>>

------------------------------------------------------------------------------
\* accept_connections.

Accepting(from, to) == /\ Alive(Acceptor)
                       /\ acceptPc = from
                       /\ acceptPc' = to
                       /\ UNCHANGED <<queueVars, control, peerVars, winsock, process,
                                      started, joined>>

\* Mutation: the loop condition is gone.
AcceptLoopUnchecked == /\ Accepting("test", "accept")
                       /\ UNCHANGED <<objVars, exited, backlog, connections_,
                                      active_connections_, current, late>>

\* while (running_)
AcceptLoop == /\ \/ running_ /\ Accepting("test", "accept") /\ UNCHANGED exited
                 \/ ~running_ /\ Accepting("test", "test") /\ Exit(Acceptor)
              /\ UNCHANGED <<objVars, backlog, connections_, active_connections_, current, late>>

\* accept returns the oldest waiting client.
AcceptClient == /\ Accepting("accept", "limit")
                /\ winsock
                /\ backlog # <<>>
                /\ current' = Head(backlog)
                /\ backlog' = Tail(backlog)
                /\ socket_' = [socket_ EXCEPT ![Head(backlog)] = "open"]
                /\ UNCHANGED <<state_, step, got, response, out, exited, connections_,
                               active_connections_, late>>

\* accept fails: there is no listening socket any more, or the client has reset
\* the connection while it waited. The loop goes on.
AcceptFails == /\ Accepting("accept", "test")
               /\ \/ /\ ~listening \/ ~winsock
                     /\ UNCHANGED backlog
                  \/ /\ backlog # <<>>
                     /\ peer[Head(backlog)] = "reset"
                     /\ backlog' = Tail(backlog)
               /\ UNCHANGED <<objVars, exited, connections_, active_connections_, current, late>>

\* The client is turned away: its socket is closed before an object exists.
TurnAway == /\ socket_' = [socket_ EXCEPT ![current] = "closed"]
            /\ current' = NoConn
            /\ UNCHANGED <<state_, step, got, response, out, exited, backlog, connections_,
                           active_connections_, late>>

\* Mutation: one connection more than the limit is let in.
LimitReachedLate == active_connections_ > MaxConnections

\* The test of the connection limit.
LimitReached == active_connections_ >= MaxConnections

Reject == LimitReached /\ Accepting("limit", "test") /\ TurnAway

WithinLimit == /\ ~LimitReached
               /\ Accepting("limit", "register")
               /\ UNCHANGED <<objVars, exited, backlog, connections_, active_connections_,
                              current, late>>

\* Mutation: the error path forgets to close the socket.
AssociateFailsLeaky == /\ "associate" \in Faults
                       /\ Accepting("register", "test")
                       /\ current' = NoConn
                       /\ UNCHANGED <<objVars, exited, backlog, connections_,
                                      active_connections_, late>>

\* The socket cannot be associated with the completion port.
AssociateFails == "associate" \in Faults /\ Accepting("register", "test") /\ TurnAway

\* The object is built and registered: Connection(...), add_connection.
Register == /\ Alive(Acceptor)
            /\ acceptPc = "register"
            /\ Construct(current)
            /\ connections_' = connections_ \cup {current}
            /\ active_connections_' = active_connections_ + 1
            /\ late' = IF running_ THEN late ELSE late \cup {current}
            /\ acceptPc' = "serve"
            /\ UNCHANGED <<queueVars, control, threads, backlog, current>>

\* connection->async_read(): the accept thread itself reads, handles and answers.
Serve == /\ Alive(Acceptor)
         /\ acceptPc = "serve"
         /\ AsyncRead(current)
         /\ UNCHANGED <<queueVars, serverVars>>

\* Mutation: async_read only starts the operation, as its name says.
ServeDoneEarly == /\ Accepting("serve", "test")
                  /\ step[current] # "idle"
                  /\ current' = NoConn
                  /\ UNCHANGED <<objVars, exited, backlog, connections_,
                                 active_connections_, late>>

\* async_read has returned.
ServeDone == /\ Accepting("serve", "test")
             /\ step[current] = "returned"
             /\ current' = NoConn
             /\ UNCHANGED <<objVars, exited, backlog, connections_, active_connections_, late>>

AcceptThread == \/ AcceptLoop \/ AcceptClient \/ AcceptFails
                \/ Reject \/ WithinLimit \/ AssociateFails \/ Register
                \/ Serve \/ ServeDone

------------------------------------------------------------------------------
\* The other server threads.

\* worker_thread_loop: while (running_) ... pop
WorkerLoop(w) == /\ Alive(w)
                 /\ popper[w] = "out"
                 /\ \/ running_ /\ CallPop(w) /\ UNCHANGED exited
                    \/ ~running_ /\ Exit(w) /\ UNCHANGED queueVars
                 /\ UNCHANGED <<connVars, admission, control, started, joined>>

WorkerPoll(w) == Alive(w) /\ Poll(w) /\ UNCHANGED <<connVars, serverVars>>

WorkerWakes(w) == Alive(w) /\ SpuriousWake(w) /\ UNCHANGED <<connVars, serverVars>>

\* handle_iocp_completion and the statistics thread poll running_; nothing starts
\* an overlapped operation, so no completion ever does anything but be logged.
PollingThread(t) == /\ Alive(t)
                    /\ ~running_
                    /\ Exit(t)
                    /\ UNCHANGED <<connVars, queueVars, admission, control, started, joined>>

------------------------------------------------------------------------------
\* stop, on the thread of a console handler.

Stopping(h, from, to) == /\ process = "up"
                         /\ handler[h] = from
                         /\ handler' = [handler EXCEPT ![h] = to]
                         /\ UNCHANGED <<objVars, request, sent, unread, winsock, process,
                                        queueVars, connections_, active_connections_, acceptPc,
                                        current, late, mainPc, started, exited>>

\* Ctrl-C: stop returns at once unless the server runs.
CtrlC(h) == /\ Stopping(h, "ready", IF running_ THEN "clear" ELSE "ignored")
            /\ UNCHANGED <<peer, backlog, running_, listening, joined, toJoin, hasty>>

\* running_ = false, some time after the test.
ClearRunning(h) == /\ Stopping(h, "clear", "close")
                   /\ running_' = FALSE
                   /\ UNCHANGED <<peer, backlog, listening, joined, toJoin, hasty>>

\* stop looks for the threads in `sought`: it joins those it finds joinable. start may not
\* have stored one yet, and then stop goes past it; while start still appends to the
\* vector worker_threads_, what the loop of stop finds in it is undefined.
Look(h, sought) ==
  /\ \E seen \in SUBSET (sought \cap stored) :
       /\ sought \subseteq stored => seen = sought
       /\ toJoin' = [toJoin EXCEPT ![h] = seen \ joined']
  /\ hasty' = IF sought \subseteq stored THEN hasty ELSE hasty \cup {h}

\* The listening socket is closed and its waiting clients with it; the loop over
\* worker_threads_ begins.
CloseListening(h) ==
  /\ Stopping(h, "close", "workers")
  /\ listening' = FALSE
  /\ backlog' = <<>>
  /\ peer' = [c \in Conns |-> IF \E i \in 1..Len(backlog) : backlog[i] = c
                              THEN "refused" ELSE peer[c]]
  /\ UNCHANGED <<running_, joined>>
  /\ Look(h, Workers)

\* Mutation: the accept thread is not joined.
AfterJoinNoAccept(stage) == CASE stage = "workers" -> <<"iocp", {Iocp}>>
                              [] stage = "iocp" -> <<"stopped", {}>>
                              [] stage = "accept" -> <<"stopped", {}>>

\* What stop joins after each stage, and the stage it then is in.
AfterJoin(stage) == CASE stage = "workers" -> <<"iocp", {Iocp}>>
                      [] stage = "iocp" -> <<"accept", {Acceptor}>>
                      [] stage = "accept" -> <<"stopped", {}>>

\* Mutation: the threads are given up instead of being waited for.
JoinDoneImpatient(h) ==
  /\ handler[h] \in {"workers", "iocp", "accept"}
  /\ LET next == AfterJoin(handler[h]) IN
       /\ Stopping(h, handler[h], next[1])
       /\ joined' = joined \cup toJoin[h]
       /\ Look(h, next[2])
  /\ UNCHANGED <<peer, backlog, running_, listening>>

\* Everything stop joins at this stage has returned.
JoinsReturn(h) == handler[h] \in {"workers", "iocp", "accept"} /\ toJoin[h] \subseteq exited

\* The joins of a stage return, and stop looks for the next thread.
JoinDone(h) ==
  /\ JoinsReturn(h)
  /\ LET next == AfterJoin(handler[h]) IN
       /\ Stopping(h, handler[h], next[1])
       /\ joined' = joined \cup toJoin[h]
       /\ Look(h, next[2])
  /\ UNCHANGED <<peer, backlog, running_, listening>>

\* Undefined behaviour that may end the process: another handler has joined the same
\* std::thread meanwhile, start still appends to worker_threads_, or stop looks at a
\* std::thread while start assigns it.
JoinRace(h) ==
  /\ process = "up"
  /\ \/ toJoin[h] \cap joined # {}
     \/ handler[h] = "workers" /\ ~(Workers \subseteq stored)
     \/ JoinsReturn(h) /\ AfterJoin(handler[h])[2] \cap (spawned \ stored) # {}
  /\ process' = "terminated"
  /\ UNCHANGED <<objVars, peerVars, winsock, queueVars, serverVars>>

Stop(h) == ClearRunning(h) \/ CloseListening(h) \/ JoinDone(h)

------------------------------------------------------------------------------
\* main.

MainStep(from, to) == /\ process = "up"
                      /\ mainPc = from
                      /\ mainPc' = to
                      /\ UNCHANGED <<objVars, peerVars, queueVars, admission, handler, toJoin,
                                     hasty, exited>>

\* A step of start fails: main returns, and ~Server finds nothing to stop.
StartFails == /\ "start" \in Faults
              /\ MainStep("start", "done")
              /\ process' = "exited"
              /\ UNCHANGED <<running_, listening, winsock, started, joined>>

\* start, up to running_ = true.
Listen == /\ MainStep("start", "spawn")
          /\ listening' = TRUE
          /\ running_' = TRUE
          /\ UNCHANGED <<winsock, process, started, joined>>

\* Threads are started one by one: workers, IOCP, accept, then the statistics.
StartedBefore(t) == CASE t \in Workers -> {}
                      [] t = Iocp -> Workers
                      [] t = Acceptor -> {Iocp}
                      [] t = Stats -> {Acceptor}

\* The constructor of std::thread has started t: it runs before the object is stored.
Spawn(t) == /\ t \notin spawned
            /\ spawned = stored
            /\ StartedBefore(t) \subseteq stored
            /\ MainStep("spawn", "spawn")
            /\ spawned' = spawned \cup {t}
            /\ UNCHANGED <<running_, listening, winsock, process, stored, joined>>

\* The object is in its place: emplace_back has appended it, the assignment has moved it.
Store(t) == /\ t \in spawned \ stored
            /\ MainStep("spawn", IF t = Stats THEN "watch" ELSE "spawn")
            /\ stored' = stored \cup {t}
            /\ UNCHANGED <<running_, listening, winsock, process, spawned, joined>>

\* There is no thread to be had: the constructor throws, and nobody catches it.
ThreadFails == /\ "thread" \in Faults
               /\ spawned = stored
               /\ MainStep("spawn", "spawn")
               /\ process' = "terminated"
               /\ UNCHANGED <<running_, listening, winsock, started, joined>>

\* Mutation: main waits until the handler that cleared the flag is through.
WatchUntilStopped == /\ \E h \in Handlers : handler[h] = "stopped"
                     /\ MainStep("watch", "stats")
                     /\ UNCHANGED <<running_, listening, winsock, process, started, joined>>

\* while (server.is_running()) sleep
Watch == /\ ~running_
         /\ MainStep("watch", "stats")
         /\ UNCHANGED <<running_, listening, winsock, process, started, joined>>

JoinStats == /\ Stats \in exited
             /\ MainStep("stats", "cleanup")
             /\ joined' = joined \cup {Stats}
             /\ UNCHANGED <<running_, listening, winsock, process, started>>

\* WSACleanup
Cleanup == /\ MainStep("cleanup", "destroy")
           /\ winsock' = FALSE
           /\ UNCHANGED <<running_, listening, process, started, joined>>

\* ~Server: its stop returns at once, and the destructor of a std::thread that is
\* still joinable calls std::terminate.
Destroy == /\ MainStep("destroy", "done")
           /\ process' = IF stored \subseteq joined THEN "exited" ELSE "terminated"
           /\ UNCHANGED <<running_, listening, winsock, started, joined>>

Main == StartFails \/ Listen \/ ThreadFails \/ (\E t \in Threads : Spawn(t) \/ Store(t))
        \/ Watch \/ JoinStats \/ Cleanup \/ Destroy

------------------------------------------------------------------------------

Next == \/ \E c \in Conns : Connect(c) \/ Deliver(c) \/ Abandon(c)
        \/ AcceptThread
        \/ \E w \in Workers : WorkerLoop(w) \/ WorkerPoll(w) \/ WorkerWakes(w)
        \/ \E t \in {Iocp, Stats} : PollingThread(t)
        \/ \E h \in Handlers : CtrlC(h) \/ Stop(h) \/ JoinRace(h)
        \/ Main

SafeSpec == Init /\ [][Next]_vars

\* Every thread is scheduled; main and stop never wait on a lock. Ctrl-C and new
\* clients need not come; a Prompt client delivers the rest of its request and reads
\* its answer.
Spec == /\ SafeSpec
        /\ WF_vars(AcceptThread)
        /\ WF_vars(Main)
        /\ \A w \in Workers : /\ WF_vars(WorkerLoop(w))
                             /\ WF_vars(WorkerPoll(w))
        /\ \A t \in {Iocp, Stats} : WF_vars(PollingThread(t))
        /\ \A h \in Handlers : WF_vars(Stop(h))
        /\ \A c \in Prompt : WF_vars(Deliver(c))

------------------------------------------------------------------------------
\* In async_read: begun and not yet returned.
InService(c) == step[c] \notin {"idle", "returned"}

\* Type invariant of the server's own state; connections wait once, only threads that
\* run return, and only threads that have returned are joined.
TypeOK == /\ running_ \in BOOLEAN /\ listening \in BOOLEAN
          /\ backlog \in Seq(Conns)
          /\ \A i, j \in 1..Len(backlog) : i # j => backlog[i] # backlog[j]
          /\ connections_ \subseteq Conns
          /\ active_connections_ \in Nat
          /\ acceptPc \in AcceptStates
          /\ current \in Conns \cup {NoConn}
          /\ acceptPc \in {"limit", "register", "serve"} <=> current # NoConn
          /\ spawned \subseteq Threads /\ stored \subseteq spawned /\ exited \subseteq spawned
          /\ mainPc \in MainStates
          /\ handler \in [Handlers -> HandlerStates]
          /\ toJoin \in [Handlers -> SUBSET stored]
          /\ joined \subseteq exited
          /\ late \subseteq connections_
          /\ hasty \subseteq Handlers

\* The counter and the list, written in two places, agree, and no more than
\* max_connections_ objects are ever registered.
AdmissionBound == /\ active_connections_ = Cardinality(connections_)
                  /\ active_connections_ <= MaxConnections

\* Every socket this process holds open is reachable: the accept thread has it in
\* hand, or a registered Connection owns it. (Each error path of accept_connections closes its socket.)
SocketsOwned == \A c \in Conns : socket_[c] = "open" => c \in connections_ \cup {current}

\* Clients are served one after the other: while one is in service, every other
\* registered connection is over. (async_read is called on the accept thread and only returns then.)
SerialService == \A c \in Conns : InService(c) =>
  /\ c = current
  /\ \A d \in connections_ \ {c} : step[d] = "returned"

\* However long stop takes, at most the one client already past the loop test is
\* still registered after running_ was cleared.
AtMostOneLate == Cardinality(late) <= 1

\* When a stop returns that found every thread it looked for, no request is being served any
\* more: it has waited for the accept thread. (A stop that overtakes start may find
\* accept_thread_ not assigned yet, and returns while that thread serves a client.)
StopMeansQuiet == (process = "up" /\ \E h \in Handlers \ hasty : handler[h] = "stopped")
                    => \A c \in Conns : ~InService(c)

\* A client that connects is answered or turned away, unless the server is stopped, or for ever
\* serves a client that does not send its request or does not read its answer. (There is
\* one accept thread, recv and send have no timeout, and the loop always comes back to accept.)
EveryClientServed == \A c \in Conns : [](peer[c] = "open" =>
  <>(socket_[c] = "closed" \/ ~running_ \/ [](\E d \in Conns \ Prompt : InService(d))))

\* Once running_ is cleared the process ends, whatever the other threads wait for:
\* main waits for the statistics thread only.
ShutdownEnds == (mainPc = "watch" /\ ~running_) ~> process # "up"

\* Once a stop that found all workers is past them, none of them is inside pop, on a queue
\* that goes with the server: a worker that waits there holds stop for ever, but is never
\* left behind. (A stop that overtakes start leaves behind a worker not stored yet.)
NobodyLeftInPop == \A h \in Handlers \ hasty : handler[h] \in {"iocp", "accept", "stopped"}
                     => \A w \in Workers : popper[w] = "out"

\* The server as module Reception sees it.
Door == IF mainPc = "start" THEN "new"
        ELSE IF running_ THEN IF mainPc = "spawn" THEN "opening" ELSE "open"
        ELSE IF listening THEN "closing" ELSE "shut"
Last == late # {}
Quiet == \E h \in Handlers \ hasty : handler[h] = "stopped"

Lobby == INSTANCE Reception WITH
           Clients <- Conns, MaxAnswer <- MaxResponse, presence <- Presence, asked <- Asked,
           phase <- Phase, due <- Due, up <- Up, net <- winsock,
           Limit <- MaxConnections, Nobody <- NoConn, DeskMayFail <- "associate" \in Faults,
           door <- Door, line <- backlog, desk <- current, admitted <- connections_,
           last <- Last, quiet <- Quiet

\* The server implements the reception: clients are called in the order they came, each has
\* one whole exchange with nobody in between, nobody is turned away without reason, and the
\* process ends by itself only while a request is read or handled, while start still starts
\* threads, or after a stop.
ReceptionSpec == Lobby!Spec

------------------------------------------------------------------------------
\* What comments, documents and messages of the repository say, and the code does not do.

\* max_connections_ bounds the connections that exist at the same time.
RejectedOnlyWhenFull ==
  [][\A c \in Conns : (socket_[c] = "open" /\ state_[c] = "NONE" /\ socket_'[c] = "closed")
       => Cardinality({d \in connections_ : socket_[d] = "open"}) >= MaxConnections]_vars

\* A client does not depend on what other clients do: each has a thread of its own.
IndependentService == \A c \in Prompt : peer[c] = "open" ~> socket_[c] = "closed"

\* When main has come to its end, it has returned 0.
CleanExit == mainPc = "done" => process = "exited"
==============================================================================
