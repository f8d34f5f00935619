---------------------------- MODULE SimpleServer ----------------------------
(***************************************************************************)
(* src/src/server_simple.cpp: main accepts clients and starts a detached   *)
(* thread for each; handle_client receives once, takes what has come for a *)
(* request, routes it to the handlers of module FileStore, sends the       *)
(* response and closes the socket.                                         *)
(*                                                                         *)
(* One recv returns any beginning of what the client sends (at most 4095   *)
(* bytes, and what is behind a NUL is ignored). `op` is the request that   *)
(* this beginning is read as. It is chosen with `ask`, what the client     *)
(* sends, since nothing depends on it before the recv.                     *)
(***************************************************************************)
EXTENDS FileStore

CONSTANTS Asks,         \* what each client may send
          Beginnings,   \* names that a beginning of a name is
          Prompt,       \* clients that send their request
          Backlog       \* clients that may wait for accept (5)

ASSUME SimpleAssumption == /\ Asks \in [Reqs -> SUBSET OpType]
                           /\ Beginnings \in [Names \cup BadNames -> SUBSET (Names \cup BadNames)]
                           /\ Prompt \subseteq Reqs
                           /\ Backlog \in Nat

VARIABLES ask,    \* what each client sends
          conn,   \* where its connection is
          main    \* where the main thread is

server == <<ask, conn, main>>
allVars == <<vars, server>>

ConnStates == {"away", "backlog", "recv", "serving", "closed"}

\* Request o is a beginning of request a: all of it; cut in the request line, so that no
\* handler or one for another name is found; cut in the header or the body of an upload, of
\* which the parts with a delimiter behind them remain.
ReadAs(a, o) == \/ o = a
                \/ o.kind = "other" /\ o.status \in {404, 405}
                \/ /\ a.kind = "upload" /\ o.kind = "upload"
                   /\ \E k \in 0..Len(a.parts) : o.parts = SubSeq(a.parts, 1, k)
                \/ /\ a.kind \in {"download", "delete"} /\ o.kind = a.kind
                   /\ o.name \in Beginnings[a.name]

SimpleInit == /\ Init
              /\ ask \in [Reqs -> UNION {Asks[r] : r \in Reqs}]
              /\ \A r \in Reqs : ask[r] \in Asks[r] /\ ReadAs(ask[r], op[r])
              /\ conn = [r \in Reqs |-> "away"]
              /\ main = "start"

\* The connection of r goes on from one state to the next.
Moves(r, from, to) == /\ process = "up"
                      /\ conn[r] = from
                      /\ conn' = [conn EXCEPT ![r] = to]
                      /\ UNCHANGED <<ask, main>>

------------------------------------------------------------------------------
\* main.

Listen == /\ process = "up"
          /\ main = "start"
          /\ main' = "accept"
          /\ UNCHANGED <<vars, ask, conn>>

\* Winsock or the listening socket cannot be had: main returns 1.
ListenFails == /\ "listen" \in Faults
               /\ main = "start"
               /\ ProcessEnds
               /\ UNCHANGED server

Connect(r) == /\ main = "accept"
              /\ Cardinality({q \in Reqs : conn[q] = "backlog"}) < Backlog
              /\ Moves(r, "away", "backlog")
              /\ UNCHANGED vars

\* Mutation: the thread is joined instead of being detached.
AcceptJoins(r) == /\ \A q \in Reqs : conn[q] \notin {"recv", "serving"}
                  /\ Moves(r, "backlog", "recv")
                  /\ UNCHANGED vars

\* accept, and a thread of its own for the client. A failing accept is tried again.
Accept(r) == /\ Moves(r, "backlog", "recv")
             /\ UNCHANGED vars

\* The system has no more threads: the constructor of std::thread throws in main.
ThreadFails(r) == /\ "thread" \in Faults
                  /\ conn[r] = "backlog"
                  /\ ProcessEnds
                  /\ UNCHANGED server

------------------------------------------------------------------------------
\* handle_client.

\* The only recv returns a beginning of the request, and its handling begins.
Recv(r) == Moves(r, "recv", "serving") /\ Begin(r)

\* recv returns 0 or an error: the client has gone, nothing is answered.
RecvNothing(r) == /\ Moves(r, "recv", "closed")
                  /\ UNCHANGED vars

Serve(r) == Handle(r) /\ UNCHANGED server

\* Mutation: the socket is closed while the handler still works.
FinishEarly(r) == /\ pc[r] # "new"
                  /\ Moves(r, "serving", "closed")
                  /\ UNCHANGED vars

\* send, whose result nobody looks at, and closesocket.
Finish(r) == /\ pc[r] = "done"
             /\ Moves(r, "serving", "closed")
             /\ UNCHANGED vars

HandleClient(r) == Serve(r) \/ Finish(r)

------------------------------------------------------------------------------
SimpleNext == \/ Listen \/ ListenFails
              \/ \E r \in Reqs : \/ Connect(r) \/ Accept(r) \/ ThreadFails(r)
                                 \/ Recv(r) \/ RecvNothing(r) \/ HandleClient(r)

SimpleSafeSpec == SimpleInit /\ [][SimpleNext]_allVars

\* Every thread is scheduled, accept hands out every client that waits, and a Prompt
\* client sends something; the others may stay silent for ever.
SimpleSpec == /\ SimpleSafeSpec
              /\ WF_allVars(Listen)
              /\ \A r \in Reqs : WF_allVars(Accept(r)) /\ WF_allVars(HandleClient(r))
              /\ \A r \in Prompt : WF_allVars(Recv(r))

------------------------------------------------------------------------------
\* Type invariant; a request is in the handlers exactly while its thread serves it.
SimpleTypeOK ==
  /\ \A r \in Reqs : ask[r] \in Asks[r]
  /\ conn \in [Reqs -> ConnStates]
  /\ main \in {"start", "accept"}
  /\ \A r \in Reqs : /\ conn[r] \in {"away", "backlog", "recv"} => pc[r] = "new"
                     /\ conn[r] = "serving" => pc[r] # "new"
                     /\ conn[r] = "closed" => pc[r] \in {"new", "done"}

\* Clients do not wait for each other: one that sends its request is answered, and its
\* socket closed, even if others stay silent for ever and whatever they do to its file,
\* unless the process ends. (src/README.md:12 promises a thread for each client. That a
\* client reads its answer is assumed: otherwise send waits, on that client's thread alone.)
EveryClientAnswered == \A r \in Reqs :
  (conn[r] = "serving" \/ (conn[r] = "backlog" /\ r \in Prompt))
    ~> (conn[r] = "closed" \/ process # "up")
==============================================================================
