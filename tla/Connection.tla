------------------------------ MODULE Connection ------------------------------
(***************************************************************************)
(* Class Connection of src/src/server.cpp, as the Windows build compiles   *)
(* it: async_read is a chain of blocking recv calls that ends in the       *)
(* handling of the request, blocking send calls and the closing of the     *)
(* socket, all on the thread that called it. The other branch of the       *)
(* #ifdef is not modelled: the translation unit does not compile without   *)
(* the Windows socket names it uses unconditionally.                       *)
(*                                                                         *)
(* Bytes are counted in units: HeaderLen units up to the blank line that   *)
(* ends the header, then the body. One recv or send moves any positive     *)
(* number of the units it may move.                                        *)
(***************************************************************************)
EXTENDS Integers

CONSTANTS Conns,        \* accepted clients, each with its Connection object
          Requests,     \* what a client may send
          HeaderLen,    \* units of a request header
          MaxResponse,  \* bound: units of the longest response
          Faults        \* what may go wrong: "fin", "reset" (clients hang up), "storage"

\* header: what "Content-Length:" is followed by ("none": it does not occur);
\* length: its value; body: units of body the client will really send.
RequestType == [header : {"none", "number", "bad"}, length : Nat, body : Nat]

ASSUME ConnAssumption == /\ HeaderLen \in Nat \ {0}
                         /\ MaxResponse \in Nat \ {0}
                         /\ Requests \subseteq RequestType

VARIABLES
  \* the Connection object and the position of the thread that serves it
  state_,     \* ConnectionState; "NONE" before the constructor
  socket_,    \* the client's socket: "none", "open" or "closed" on this side
  step,       \* where async_read stands
  got,        \* units received so far (full_request)
  response,   \* units of the response, 0 until the request is handled
  out,        \* units of the response given to send
  \* the client
  request,    \* the request it sends
  sent,       \* units of it that have reached this host
  peer,       \* "none", "open", "fin" (it closed), "reset" (it aborted) or "refused"
  unread,     \* clients that must read before send can go on: the buffers are full
  \* the process
  winsock,    \* Winsock is usable (WSACleanup not called)
  process     \* "up", "exited" (main returned) or "terminated" (abnormal end)

objVars == <<state_, socket_, step, got, response, out>>
peerVars == <<request, sent, peer, unread>>
connVars == <<objVars, peerVars, winsock, process>>

ConnStates == {"NONE", "CONNECTING", "READING", "WRITING", "CLOSING", "CLOSED"}
Steps == {"idle", "header", "body", "handle", "send", "finish", "close", "returned"}

\* No connection has done anything; every socket and every client is as given.
Fresh(socket, client) == /\ state_ = [c \in Conns |-> "NONE"]
                         /\ socket_ = [c \in Conns |-> socket]
                         /\ step = [c \in Conns |-> "idle"]
                         /\ got = [c \in Conns |-> 0]
                         /\ response = [c \in Conns |-> 0]
                         /\ out = [c \in Conns |-> 0]
                         /\ request \in [Conns -> Requests]
                         /\ sent = [c \in Conns |-> 0]
                         /\ peer = [c \in Conns |-> client]
                         /\ unread = {}
                         /\ winsock = TRUE
                         /\ process = "up"

\* Right after accept: the socket is open, the object is not built yet.
ConnInit == Fresh("open", "open")

------------------------------------------------------------------------------
\* The client.

\* One more unit of the request arrives.
SendUnit(c) == /\ peer[c] = "open"
               /\ sent[c] < HeaderLen + request[c].body
               /\ sent' = [sent EXCEPT ![c] = @ + 1]
               /\ UNCHANGED <<objVars, request, peer, unread, winsock, process>>

\* The client closes its side, or aborts the connection.
HangUp(c, how) == /\ peer[c] = "open"
                  /\ peer' = [peer EXCEPT ![c] = how]
                  /\ UNCHANGED <<objVars, request, sent, unread, winsock, process>>

\* The client reads what is on its way to it.
TakeAnswer(c) == /\ c \in unread
                 /\ peer[c] \in {"open", "fin"}
                 /\ unread' = unread \ {c}
                 /\ UNCHANGED <<objVars, request, sent, peer, winsock, process>>

------------------------------------------------------------------------------
\* The thread inside async_read.

Construct(c) == /\ socket_[c] = "open"
                /\ state_[c] = "NONE"
                /\ state_' = [state_ EXCEPT ![c] = "CONNECTING"]
                /\ UNCHANGED <<socket_, step, got, response, out, peerVars, winsock, process>>

StartRead(c) == /\ step[c] = "idle"
                /\ state_[c] = "CONNECTING"
                /\ state_' = [state_ EXCEPT ![c] = "READING"]
                /\ step' = [step EXCEPT ![c] = "header"]
                /\ UNCHANGED <<socket_, got, response, out, peerVars, winsock, process>>

\* Mutation: one body unit more than announced is waited for.
MissingOneMore(c, total) == request[c].length - (total - HeaderLen) + 1

\* Body units announced and not yet received, after `total` units; negative when
\* the client sent more than it announced.
Missing(c, total) == request[c].length - (total - HeaderLen)

\* Mutation: the body is not waited for.
AfterHeaderEager(c, total) == "handle"

\* Mutation: a recv is started although nothing is missing.
AfterHeaderOffByOne(c, total) ==
  IF request[c].header = "number" /\ Missing(c, total) >= 0 THEN "body" ELSE "handle"

\* Where async_read goes once the header is complete.
AfterHeader(c, total) ==
  IF request[c].header = "number" /\ Missing(c, total) > 0 THEN "body" ELSE "handle"

\* recv returns part of the stream; once it holds the blank line the length is
\* parsed, and std::stoi throws on what is no int: nobody catches it.
RecvHeader(c) ==
  /\ step[c] = "header"
  /\ winsock
  /\ \E n \in 1..(sent[c] - got[c]) :
       LET total == got[c] + n IN
       /\ got' = [got EXCEPT ![c] = total]
       /\ \/ /\ total < HeaderLen
             /\ UNCHANGED <<step, process>>
          \/ /\ total >= HeaderLen
             /\ request[c].header # "bad"
             /\ step' = [step EXCEPT ![c] = AfterHeader(c, total)]
             /\ UNCHANGED process
          \/ /\ total >= HeaderLen
             /\ request[c].header = "bad"
             /\ process' = "terminated"
             /\ UNCHANGED step
  /\ UNCHANGED <<state_, socket_, response, out, peerVars, winsock>>

\* recv of the rest of the body, never asking for more than is missing.
RecvBody(c) ==
  /\ step[c] = "body"
  /\ winsock
  /\ \E n \in 1..(sent[c] - got[c]) :
       /\ n <= Missing(c, got[c])
       /\ got' = [got EXCEPT ![c] = @ + n]
       /\ step' = [step EXCEPT ![c] = IF n = Missing(c, got[c]) THEN "handle" ELSE "body"]
  /\ UNCHANGED <<state_, socket_, response, out, peerVars, winsock, process>>

\* recv returns 0: the client closed and everything it sent has been read.
RecvEof(c) == /\ step[c] \in {"header", "body"}
              /\ winsock
              /\ peer[c] = "fin"
              /\ sent[c] = got[c]
              /\ state_' = [state_ EXCEPT ![c] = "CLOSING"]
              /\ step' = [step EXCEPT ![c] = "returned"]
              /\ UNCHANGED <<socket_, got, response, out, peerVars, winsock, process>>

\* recv returns SOCKET_ERROR. Stored in a DWORD it is 2^32-1, so it counts as data
\* received and that many bytes are appended from a 64 KB buffer: the process dies,
\* of an access violation or of the exception of append. The branch that handles
\* the error is never taken.
RecvError(c) == /\ step[c] \in {"header", "body"}
                /\ peer[c] = "reset" \/ ~winsock
                /\ process' = "terminated"
                /\ UNCHANGED <<objVars, peerVars, winsock>>

\* async_write goes on: all has been given to send, or the buffers of the two hosts have
\* room for more, or they are full.
Given(c, all) ==
  IF all THEN step' = [step EXCEPT ![c] = "finish"] /\ UNCHANGED unread
  ELSE step' = [step EXCEPT ![c] = "send"] /\ unread' \in {unread, unread \cup {c}}

\* handle_read_completion: the request is routed and handled, and async_write begins.
Handle(c) == /\ step[c] = "handle"
             /\ \E n \in 1..MaxResponse : response' = [response EXCEPT ![c] = n]
             /\ state_' = [state_ EXCEPT ![c] = "WRITING"]
             /\ Given(c, FALSE)
             /\ UNCHANGED <<socket_, got, out, request, sent, peer, winsock, process>>

\* Mutation: the unsent rest is reckoned without what was sent before.
SendSomeAgain(c) == /\ step[c] = "send"
                    /\ winsock
                    /\ c \notin unread
                    /\ \E n \in 1..response[c] :
                         /\ out' = [out EXCEPT ![c] = @ + n]
                         /\ Given(c, n = response[c])
                    /\ UNCHANGED <<state_, socket_, got, response, request, sent, peer,
                                   winsock, process>>

\* The upload directory cannot be created: the constructor of FileManager throws in
\* handle_upload, outside its try blocks, and nobody catches it.
HandleThrows(c) == /\ "storage" \in Faults
                   /\ step[c] = "handle"
                   /\ process' = "terminated"
                   /\ UNCHANGED <<objVars, peerVars, winsock>>

\* send, which blocks and has no timeout, accepts part of what remains, once there is
\* room for it: until the client reads, or its connection breaks, it waits.
SendSome(c) == /\ step[c] = "send"
               /\ winsock
               /\ c \notin unread
               /\ \E n \in 1..(response[c] - out[c]) :
                    /\ out' = [out EXCEPT ![c] = @ + n]
                    /\ Given(c, n = response[c] - out[c])
               /\ UNCHANGED <<state_, socket_, got, response, request, sent, peer, winsock,
                              process>>

SendBroken(c) == step[c] = "send" /\ (peer[c] # "open" \/ ~winsock)

\* Mutation: an incomplete response is completed like a full one.
SendFailsUnchecked(c) == /\ SendBroken(c)
                         /\ step' = [step EXCEPT ![c] = "finish"]
                         /\ UNCHANGED <<state_, socket_, got, response, out, peerVars, winsock, process>>

\* send fails; the response stays incomplete and async_read returns.
SendFails(c) == /\ SendBroken(c)
                /\ state_' = [state_ EXCEPT ![c] = "CLOSING"]
                /\ step' = [step EXCEPT ![c] = "returned"]
                /\ UNCHANGED <<socket_, got, response, out, peerVars, winsock, process>>

\* Mutation: the connection is kept for another request.
FinishKeepAlive(c) == /\ step[c] = "finish"
                      /\ state_' = [state_ EXCEPT ![c] = "READING"]
                      /\ step' = [step EXCEPT ![c] = "header"]
                      /\ UNCHANGED <<socket_, got, response, out, peerVars, winsock, process>>

\* handle_write_completion, after its sleep.
Finish(c) == /\ step[c] = "finish"
             /\ state_' = [state_ EXCEPT ![c] = "CLOSING"]
             /\ step' = [step EXCEPT ![c] = "close"]
             /\ UNCHANGED <<socket_, got, response, out, peerVars, winsock, process>>

\* shutdown, close the socket, CLOSED.
CloseSocket(c) == /\ step[c] = "close"
                  /\ socket_' = [socket_ EXCEPT ![c] = "closed"]
                  /\ state_' = [state_ EXCEPT ![c] = "CLOSED"]
                  /\ step' = [step EXCEPT ![c] = "returned"]
                  /\ UNCHANGED <<got, response, out, peerVars, winsock, process>>

AsyncRead(c) == /\ process = "up"
                /\ \/ StartRead(c)
                   \/ RecvHeader(c) \/ RecvBody(c) \/ RecvEof(c) \/ RecvError(c)
                   \/ Handle(c) \/ HandleThrows(c)
                   \/ SendSome(c) \/ SendFails(c)
                   \/ Finish(c) \/ CloseSocket(c)

------------------------------------------------------------------------------
\* Connections on their own, each served by some thread.

Client(c) == SendUnit(c) \/ TakeAnswer(c) \/ \E how \in Faults \cap {"fin", "reset"} : HangUp(c, how)

ConnNext == \E c \in Conns : \/ process = "up" /\ Construct(c)
                             \/ AsyncRead(c)
                             \/ Client(c)

ConnSafeSpec == ConnInit /\ [][ConnNext]_connVars

\* The serving thread is scheduled, and a client that does not hang up delivers
\* what it set out to send and reads its answer.
ConnSpec == /\ ConnSafeSpec
            /\ \A c \in Conns : /\ WF_connVars(process = "up" /\ Construct(c))
                                /\ WF_connVars(AsyncRead(c))
                                /\ WF_connVars(SendUnit(c))
                                /\ WF_connVars(TakeAnswer(c))

------------------------------------------------------------------------------
\* Type invariant; no unit is received or sent that does not exist.
ConnTypeOK == /\ state_ \in [Conns -> ConnStates]
              /\ socket_ \in [Conns -> {"none", "open", "closed"}]
              /\ step \in [Conns -> Steps]
              /\ request \in [Conns -> Requests]
              /\ sent \in [Conns -> Nat]
              /\ got \in [Conns -> Nat]
              /\ response \in [Conns -> 0..MaxResponse]
              /\ out \in [Conns -> 0..MaxResponse]
              /\ peer \in [Conns -> {"none", "open", "fin", "reset", "refused"}]
              /\ unread \subseteq Conns
              /\ winsock \in BOOLEAN
              /\ process \in {"up", "exited", "terminated"}
              /\ \A c \in Conns : got[c] <= sent[c] /\ out[c] <= response[c]

\* A request whose header announces a body is handed to HttpHandler only with all
\* of that body, however the stream was cut into recv calls.
HandledWhole == \A c \in Conns :
  response[c] > 0 =>
    /\ got[c] >= HeaderLen
    /\ request[c].header = "number" => got[c] >= HeaderLen + request[c].length

\* CLOSED means answered: the object gets there only with its whole response sent
\* and with its socket closed. (A connection given up stays in CLOSING.)
ClosedMeansAnswered == \A c \in Conns :
  state_[c] = "CLOSED" => /\ socket_[c] = "closed"
                          /\ response[c] > 0
                          /\ out[c] = response[c]

\* The header "Connection: close" of every response is kept: once a connection has
\* a response it receives nothing more and handles nothing more.
AnswerIsLast == \A c \in Conns : response[c] > 0 => /\ got'[c] = got[c]
                                                     /\ response'[c] = response[c]
OneRequestPerConnection == [][AnswerIsLast]_connVars

\* The client will send all that the header announces.
Satisfiable(c) == \/ request[c].header = "none"
                  \/ request[c].header = "number" /\ request[c].body >= request[c].length

\* A client that sends its whole request, reads what it is sent and does not hang up gets
\* its whole response, unless another connection takes the process down.
WholeRequestAnswered ==
  \A c \in Conns : Satisfiable(c) ~> \/ state_[c] = "CLOSED"
                                     \/ peer[c] # "open"
                                     \/ process # "up"

\* The connection as module Exchange sees it: the positions of async_read make three
\* phases, and the two counters of units make one.
Needed(c) == HeaderLen + (IF request[c].header = "number" THEN request[c].length ELSE 0)

Presence == [c \in Conns |-> IF peer[c] = "none" THEN "away"
                             ELSE IF peer[c] = "open" THEN "here" ELSE "left"]
Asked == {c \in Conns : sent[c] >= Needed(c)}
Phase == [c \in Conns |-> IF step[c] \in {"send", "finish", "close"} THEN "answering"
                          ELSE IF step[c] # "returned" THEN "waiting"
                          ELSE IF state_[c] = "CLOSED" THEN "answered" ELSE "dropped"]
Due == [c \in Conns |-> response[c] - out[c]]
Up == process = "up"

OneShot == INSTANCE Exchange WITH Clients <- Conns, MaxAnswer <- MaxResponse,
                                  presence <- Presence, asked <- Asked, phase <- Phase,
                                  due <- Due, up <- Up, net <- winsock

\* A connection implements the exchange: a client that has sent its whole request is answered
\* even if it then closes its side, and what breaks off an answer is never the process.
OneShotSpec == OneShot!ExchangeSpec

\* What the error branches of async_read say: a failed recv ends that connection
\* (CLOSING) and not the process. All headers are well formed in the run of this.
ReadErrorEndsOneConnection == process # "terminated"
==============================================================================
