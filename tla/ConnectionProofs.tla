-------------------------- MODULE ConnectionProofs --------------------------
(***************************************************************************)
(* Theorems about Connection for every set of clients, every set of        *)
(* requests, every header length and every response length. The lemmas are *)
(* stated per group of actions, for any module that composes them.         *)
(***************************************************************************)
EXTENDS Connection, TLAPS

\* The request has arrived as far as its header announces it.
Whole(c) == /\ got[c] >= HeaderLen
            /\ request[c].header = "number" => got[c] >= HeaderLen + request[c].length

\* What each position of the serving thread knows about the object: the inductive
\* invariant behind HandledWhole, ClosedMeansAnswered and OneRequestPerConnection.
StepInv(c) ==
  /\ step[c] = "idle" => state_[c] \in {"NONE", "CONNECTING"} /\ response[c] = 0 /\ out[c] = 0
  /\ step[c] = "header" => state_[c] = "READING" /\ response[c] = 0 /\ out[c] = 0
  /\ step[c] = "body" => /\ state_[c] = "READING" /\ response[c] = 0 /\ out[c] = 0
                         /\ request[c].header = "number"
                         /\ got[c] >= HeaderLen
  /\ step[c] = "handle" => state_[c] = "READING" /\ response[c] = 0 /\ out[c] = 0 /\ Whole(c)
  /\ step[c] = "send" => state_[c] = "WRITING" /\ response[c] > 0 /\ Whole(c)
  /\ step[c] = "finish" => /\ state_[c] = "WRITING" /\ response[c] > 0 /\ Whole(c)
                           /\ out[c] = response[c]
  /\ step[c] = "close" => /\ state_[c] = "CLOSING" /\ response[c] > 0 /\ Whole(c)
                          /\ out[c] = response[c]
  /\ step[c] = "returned" => /\ state_[c] \in {"CLOSING", "CLOSED"}
                             /\ response[c] > 0 => Whole(c)
  /\ state_[c] = "CLOSED" => /\ step[c] = "returned" /\ socket_[c] = "closed"
                             /\ response[c] > 0 /\ out[c] = response[c]

ConnInv == \A c \in Conns : StepInv(c)

------------------------------------------------------------------------------
LEMMA InitConn ==
  ASSUME NEW s \in {"none", "open", "closed"},
         NEW p \in {"none", "open", "fin", "reset", "refused"},
         Fresh(s, p)
  PROVE  ConnTypeOK /\ ConnInv
BY ConnAssumption DEF Fresh, ConnTypeOK, ConnInv, StepInv, ConnStates, Steps

LEMMA RequestTypes ==
  ASSUME ConnTypeOK, NEW c \in Conns
  PROVE  request[c].length \in Nat /\ request[c].body \in Nat
BY ConnAssumption DEF ConnTypeOK, RequestType

LEMMA ClientSteps ==
  ASSUME ConnTypeOK, ConnInv, NEW c \in Conns,
         SendUnit(c) \/ TakeAnswer(c) \/ \E how \in {"fin", "reset"} : HangUp(c, how)
  PROVE  ConnTypeOK' /\ ConnInv'
<1>1. UNCHANGED <<objVars, request, winsock, process>>
  BY DEF SendUnit, TakeAnswer, HangUp
<1>2. ConnInv'
  BY <1>1 DEF ConnInv, StepInv, Whole, objVars
<1>3. CASE SendUnit(c)
  BY <1>1, <1>2, <1>3, RequestTypes, ConnAssumption DEF SendUnit, ConnTypeOK, objVars
<1>4. CASE \E how \in {"fin", "reset"} : HangUp(c, how)
  BY <1>1, <1>2, <1>4 DEF HangUp, ConnTypeOK, objVars
<1>5. CASE TakeAnswer(c)
  BY <1>1, <1>2, <1>5 DEF TakeAnswer, ConnTypeOK, objVars
<1> QED
  BY <1>3, <1>4, <1>5

LEMMA ConstructStep ==
  ASSUME ConnTypeOK, ConnInv, NEW c \in Conns, Construct(c), step[c] = "idle"
  PROVE  ConnTypeOK' /\ ConnInv'
BY DEF Construct, ConnTypeOK, ConnInv, StepInv, Whole, ConnStates, peerVars

\* async_read preserves the types: what is received has arrived, what is sent exists.
LEMMA ReadTypes ==
  ASSUME ConnTypeOK, ConnInv, NEW c \in Conns, AsyncRead(c)
  PROVE  ConnTypeOK'
<1> USE ConnAssumption DEF ConnTypeOK, ConnStates, Steps, peerVars, objVars
<1>0. request[c].length \in Nat
  BY RequestTypes
<1>1. CASE StartRead(c)
  BY <1>1 DEF StartRead
<1>2. CASE RecvHeader(c)
  <2>1. PICK n \in 1..(sent[c] - got[c]) :
          /\ got' = [got EXCEPT ![c] = got[c] + n]
          /\ step' = step \/ step' = [step EXCEPT ![c] = AfterHeader(c, got[c] + n)]
          /\ process' = process \/ process' = "terminated"
    BY <1>2 DEF RecvHeader
  <2>2. AfterHeader(c, got[c] + n) \in Steps
    BY DEF AfterHeader
  <2>3. got' \in [Conns -> Nat] /\ \A d \in Conns : got'[d] <= sent[d]
    BY <2>1
  <2> QED
    BY <1>2, <2>1, <2>2, <2>3 DEF RecvHeader
<1>3. CASE RecvBody(c)
  <2>1. PICK n \in 1..(sent[c] - got[c]) :
          /\ got' = [got EXCEPT ![c] = got[c] + n]
          /\ step' = [step EXCEPT ![c] = IF n = Missing(c, got[c]) THEN "handle" ELSE "body"]
    BY <1>3 DEF RecvBody
  <2>2. step' \in [Conns -> Steps]
    BY <2>1
  <2>3. got' \in [Conns -> Nat] /\ \A d \in Conns : got'[d] <= sent[d]
    BY <2>1
  <2>4. UNCHANGED <<state_, socket_, response, out, request, sent, peer, unread, winsock, process>>
    BY <1>3 DEF RecvBody
  <2> QED
    BY <2>2, <2>3, <2>4
<1>4. CASE RecvEof(c)
  BY <1>4 DEF RecvEof
<1>5. CASE RecvError(c)
  BY <1>5 DEF RecvError
<1>6. CASE Handle(c)
  <2>1. out[c] = 0
    BY <1>6 DEF Handle, ConnInv, StepInv
  <2>2. PICK n \in 1..MaxResponse : response' = [response EXCEPT ![c] = n]
    BY <1>6 DEF Handle
  <2>3. UNCHANGED <<socket_, got, out, request, sent, peer, winsock, process>>
    BY <1>6 DEF Handle
  <2>4. state_' \in [Conns -> ConnStates] /\ step' \in [Conns -> Steps] /\ unread' \subseteq Conns
    BY <1>6 DEF Handle, Given
  <2>5. response' \in [Conns -> 0..MaxResponse] /\ \A d \in Conns : out[d] <= response'[d]
    BY <2>1, <2>2
  <2> QED
    BY <2>3, <2>4, <2>5
<1>7. CASE HandleThrows(c)
  BY <1>7 DEF HandleThrows
<1>8. CASE SendSome(c)
  <2>1. PICK n \in 1..(response[c] - out[c]) :
          /\ out' = [out EXCEPT ![c] = out[c] + n]
          /\ step' = [step EXCEPT ![c] = IF n = response[c] - out[c] THEN "finish" ELSE "send"]
    BY <1>8 DEF SendSome, Given
  <2>2. unread' \subseteq Conns
    BY <1>8 DEF SendSome, Given
  <2> QED
    BY <1>8, <2>1, <2>2 DEF SendSome
<1>9. CASE SendFails(c)
  BY <1>9 DEF SendFails
<1>10. CASE Finish(c)
  BY <1>10 DEF Finish
<1>11. CASE CloseSocket(c)
  BY <1>11 DEF CloseSocket
<1> QED
  BY <1>1, <1>2, <1>3, <1>4, <1>5, <1>6, <1>7, <1>8, <1>9, <1>10, <1>11 DEF AsyncRead

\* async_read on one connection leaves the objects of the others alone.
LEMMA ReadFrame ==
  ASSUME ConnTypeOK, NEW c \in Conns, AsyncRead(c), NEW d \in Conns, d # c
  PROVE  /\ state_'[d] = state_[d] /\ socket_'[d] = socket_[d] /\ step'[d] = step[d]
         /\ got'[d] = got[d] /\ response'[d] = response[d] /\ out'[d] = out[d]
BY DEF AsyncRead, StartRead, RecvHeader, RecvBody, RecvEof, RecvError, Handle, HandleThrows,
       Given, SendSome, SendFails, Finish, CloseSocket, ConnTypeOK, objVars

\* async_read preserves what each of its positions knows.
LEMMA ReadInv ==
  ASSUME ConnTypeOK, ConnInv, NEW c \in Conns, AsyncRead(c)
  PROVE  ConnInv'
<1>0. /\ request[c].length \in Nat /\ got[c] \in Nat /\ sent[c] \in Nat /\ HeaderLen \in Nat
      /\ response[c] \in Nat /\ out[c] \in Nat
      /\ c \in DOMAIN state_ /\ c \in DOMAIN step /\ c \in DOMAIN got /\ c \in DOMAIN response
      /\ c \in DOMAIN out /\ c \in DOMAIN socket_
  BY RequestTypes, ConnAssumption DEF ConnTypeOK
<1>r. request' = request
  BY DEF AsyncRead, StartRead, RecvHeader, RecvBody, RecvEof, RecvError, Handle, HandleThrows,
         SendSome, SendFails, Finish, CloseSocket, peerVars
<1>i. StepInv(c)
  BY DEF ConnInv
<1>a. StepInv(c)'
  <2>1. CASE StartRead(c)
    BY <1>0, <1>i, <2>1 DEF StartRead, StepInv, Whole, peerVars
  <2>2. CASE RecvHeader(c)
    <3>1. PICK n \in 1..(sent[c] - got[c]) :
            /\ got' = [got EXCEPT ![c] = got[c] + n]
            /\ \/ step' = step
               \/ /\ got[c] + n >= HeaderLen
                  /\ step' = [step EXCEPT ![c] = AfterHeader(c, got[c] + n)]
      BY <2>2 DEF RecvHeader
    <3>2. step[c] = "header" /\ UNCHANGED <<state_, socket_, response, out, request>>
      BY <2>2 DEF RecvHeader, peerVars
    <3>3. CASE step' = step
      BY <1>0, <1>i, <3>2, <3>3 DEF StepInv
    <3>4. CASE got[c] + n >= HeaderLen /\ AfterHeader(c, got[c] + n) = "body"
               /\ step' = [step EXCEPT ![c] = AfterHeader(c, got[c] + n)]
      <4>1. request[c].header = "number"
        BY <3>4 DEF AfterHeader
      <4> QED
        BY <1>0, <1>i, <3>1, <3>2, <3>4, <4>1 DEF StepInv
    <3>5. CASE got[c] + n >= HeaderLen /\ AfterHeader(c, got[c] + n) = "handle"
               /\ step' = [step EXCEPT ![c] = AfterHeader(c, got[c] + n)]
      <4>1. request[c].header = "number" => got[c] + n >= HeaderLen + request[c].length
        BY <1>0, <3>1, <3>5 DEF AfterHeader, Missing
      <4>2. Whole(c)'
        BY <1>0, <3>1, <3>2, <3>5, <4>1 DEF Whole
      <4> QED
        BY <1>0, <1>i, <3>2, <3>5, <4>2 DEF StepInv
    <3>6. AfterHeader(c, got[c] + n) \in {"body", "handle"}
      BY DEF AfterHeader
    <3> QED
      BY <3>1, <3>3, <3>4, <3>5, <3>6
  <2>3. CASE RecvBody(c)
    <3>1. PICK n \in 1..(sent[c] - got[c]) :
            /\ got' = [got EXCEPT ![c] = got[c] + n]
            /\ step' = [step EXCEPT ![c] = IF n = Missing(c, got[c]) THEN "handle" ELSE "body"]
      BY <2>3 DEF RecvBody
    <3>2. step[c] = "body" /\ UNCHANGED <<state_, socket_, response, out, request>>
      BY <2>3 DEF RecvBody, peerVars
    <3>3. CASE n = Missing(c, got[c])
      <4>1. Whole(c)'
        BY <1>0, <1>i, <3>1, <3>2, <3>3 DEF Whole, StepInv, Missing
      <4> QED
        BY <1>0, <1>i, <3>1, <3>2, <3>3, <4>1 DEF StepInv
    <3>4. CASE n # Missing(c, got[c])
      BY <1>0, <1>i, <3>1, <3>2, <3>4 DEF StepInv
    <3> QED
      BY <3>3, <3>4
  <2>4. CASE RecvEof(c)
    BY <1>0, <1>i, <2>4 DEF RecvEof, StepInv, Whole, peerVars
  <2>5. CASE RecvError(c)
    BY <1>i, <2>5 DEF RecvError, StepInv, Whole, objVars, peerVars
  <2>6. CASE Handle(c)
    <3>1. PICK n \in 1..MaxResponse : response' = [response EXCEPT ![c] = n]
      BY <2>6 DEF Handle
    <3>2. response'[c] > 0 /\ Whole(c)'
      BY <1>0, <1>i, <2>6, <3>1, ConnAssumption DEF Handle, Given, StepInv, Whole, peerVars
    <3> QED
      BY <1>0, <1>i, <2>6, <3>2 DEF Handle, Given, StepInv, peerVars
  <2>7. CASE HandleThrows(c)
    BY <1>i, <2>7 DEF HandleThrows, StepInv, Whole, objVars, peerVars
  <2>8. CASE SendSome(c)
    <3>1. PICK n \in 1..(response[c] - out[c]) :
            /\ out' = [out EXCEPT ![c] = out[c] + n]
            /\ step' = [step EXCEPT ![c] = IF n = response[c] - out[c] THEN "finish" ELSE "send"]
      BY <2>8 DEF SendSome, Given
    <3>2. step[c] = "send" /\ UNCHANGED <<state_, socket_, got, response, request>>
      BY <2>8 DEF SendSome, peerVars
    <3>3. Whole(c)'
      BY <1>i, <3>2 DEF StepInv, Whole
    <3> QED
      BY <1>0, <1>i, <3>1, <3>2, <3>3 DEF StepInv
  <2>9. CASE SendFails(c)
    BY <1>0, <1>i, <2>9 DEF SendFails, SendBroken, StepInv, Whole, peerVars
  <2>10. CASE Finish(c)
    BY <1>0, <1>i, <2>10 DEF Finish, StepInv, Whole, peerVars
  <2>11. CASE CloseSocket(c)
    BY <1>0, <1>i, <2>11 DEF CloseSocket, StepInv, Whole, peerVars
  <2> QED
    BY <2>1, <2>2, <2>3, <2>4, <2>5, <2>6, <2>7, <2>8, <2>9, <2>10, <2>11 DEF AsyncRead
<1>b. ASSUME NEW d \in Conns, d # c
      PROVE  StepInv(d)'
  BY <1>r, <1>b, ReadFrame DEF ConnInv, StepInv, Whole
<1> QED
  BY <1>a, <1>b DEF ConnInv

------------------------------------------------------------------------------
LEMMA ConnStep == ConnTypeOK /\ ConnInv /\ [ConnNext]_connVars => ConnTypeOK' /\ ConnInv'
<1> SUFFICES ASSUME ConnTypeOK, ConnInv, [ConnNext]_connVars
             PROVE  ConnTypeOK' /\ ConnInv'
  OBVIOUS
<1>1. ASSUME NEW c \in Conns, Construct(c)
      PROVE  ConnTypeOK' /\ ConnInv'
  <2>1. step[c] = "idle"
    BY <1>1 DEF Construct, ConnInv, StepInv, ConnTypeOK, Steps
  <2> QED
    BY <1>1, <2>1, ConstructStep
<1>2. ASSUME NEW c \in Conns, AsyncRead(c)
      PROVE  ConnTypeOK' /\ ConnInv'
  BY <1>2, ReadTypes, ReadInv
<1>3. ASSUME NEW c \in Conns, Client(c)
      PROVE  ConnTypeOK' /\ ConnInv'
  BY <1>3, ClientSteps DEF Client
<1>4. CASE UNCHANGED connVars
  BY <1>4 DEF connVars, objVars, peerVars, ConnTypeOK, ConnInv, StepInv, Whole
<1> QED
  BY <1>1, <1>2, <1>3, <1>4 DEF ConnNext

\* The types, and the two bounds got <= sent and out <= response.
THEOREM ConnTypeCorrect == ConnSafeSpec => []ConnTypeOK
<1>1. ConnInit => ConnTypeOK /\ ConnInv
  BY InitConn DEF ConnInit
<1> QED
  BY <1>1, ConnStep, PTL DEF ConnSafeSpec

\* Each position of async_read knows what it assumes.
LEMMA ConnInvHolds == ConnSafeSpec => [](ConnTypeOK /\ ConnInv)
<1>1. ConnInit => ConnTypeOK /\ ConnInv
  BY InitConn DEF ConnInit
<1> QED
  BY <1>1, ConnStep, PTL DEF ConnSafeSpec

\* However the stream is cut, no request is handled before its announced body is there.
THEOREM HandledWholeHolds == ConnSafeSpec => []HandledWhole
<1>1. ConnTypeOK /\ ConnInv => HandledWhole
  BY DEF ConnTypeOK, ConnInv, StepInv, Whole, HandledWhole, Steps
<1> QED
  BY <1>1, ConnInvHolds, PTL

\* An object in state CLOSED has sent its whole response and closed its socket.
THEOREM ClosedMeansAnsweredHolds == ConnSafeSpec => []ClosedMeansAnswered
<1>1. ConnInv => ClosedMeansAnswered
  BY DEF ConnInv, StepInv, ClosedMeansAnswered
<1> QED
  BY <1>1, ConnInvHolds, PTL

\* A connection that has a response neither reads nor handles again.
THEOREM OneRequestHolds == ConnSafeSpec => OneRequestPerConnection
<1>1. ConnTypeOK /\ ConnInv /\ [ConnNext]_connVars
        => [AnswerIsLast]_connVars
  <2> SUFFICES ASSUME ConnTypeOK, ConnInv, ConnNext, NEW d \in Conns, response[d] > 0
               PROVE  got'[d] = got[d] /\ response'[d] = response[d]
    BY DEF AnswerIsLast
  <2>0. step[d] \notin {"idle", "header", "body", "handle"}
    BY DEF ConnInv, StepInv
  <2>1. ASSUME NEW c \in Conns, Construct(c) \/ Client(c)
        PROVE  got' = got /\ response' = response
    BY <2>1 DEF Construct, Client, SendUnit, TakeAnswer, HangUp, objVars
  <2>2. ASSUME NEW c \in Conns, AsyncRead(c)
        PROVE  got'[d] = got[d] /\ response'[d] = response[d]
    <3>1. CASE c # d
      BY <2>2, <3>1, ReadFrame
    <3>2. CASE c = d
      BY <2>0, <2>2, <3>2 DEF AsyncRead, StartRead, RecvHeader, RecvBody, RecvEof, RecvError, Handle,
         HandleThrows, SendSome, SendFails, SendBroken, Finish, CloseSocket, objVars
    <3> QED
      BY <3>1, <3>2
  <2> QED
    BY <2>1, <2>2 DEF ConnNext
<1> QED
  BY <1>1, ConnInvHolds, PTL DEF ConnSafeSpec, OneRequestPerConnection

------------------------------------------------------------------------------
\* What the positions know beyond ConnInv, for the exchange: async_read waits only for
\* what is missing, and a response being sent is not yet sent. (A header that is
\* complete and of no use leaves the position as it is, but ends the process.)
PendingInv == \A c \in Conns :
  /\ step[c] = "idle" => got[c] = 0
  /\ step[c] = "header" /\ process = "up" => got[c] < HeaderLen
  /\ step[c] = "body" => got[c] < HeaderLen + request[c].length
  /\ step[c] = "send" => out[c] < response[c]

LEMMA InitPending ==
  ASSUME NEW s, NEW p, Fresh(s, p)
  PROVE  PendingInv
BY DEF Fresh, PendingInv

\* Steps that leave the objects and the requests alone.
LEMMA PendingFrame ==
  ASSUME PendingInv, UNCHANGED <<step, got, response, out, request>>,
         process' = "up" => process = "up"
  PROVE  PendingInv'
BY DEF PendingInv

LEMMA PendingRead ==
  ASSUME ConnTypeOK, ConnInv, PendingInv, NEW c \in Conns, AsyncRead(c)
  PROVE  PendingInv'
<1> DEFINE P(d) == /\ step[d] = "idle" => got[d] = 0
                   /\ step[d] = "header" /\ process = "up" => got[d] < HeaderLen
                   /\ step[d] = "body" => got[d] < HeaderLen + request[d].length
                   /\ step[d] = "send" => out[d] < response[d]
<1>0. /\ request[c].length \in Nat /\ got[c] \in Nat /\ sent[c] \in Nat /\ HeaderLen \in Nat \ {0}
      /\ response[c] \in Nat /\ out[c] \in Nat
      /\ c \in DOMAIN step /\ c \in DOMAIN got /\ c \in DOMAIN response /\ c \in DOMAIN out
  BY RequestTypes, ConnAssumption DEF ConnTypeOK
<1>1. request' = request /\ process = "up"
  BY DEF AsyncRead, StartRead, RecvHeader, RecvBody, RecvEof, RecvError, Handle, HandleThrows,
         SendSome, SendFails, Finish, CloseSocket, peerVars
<1>2. P(c) /\ StepInv(c)
  BY DEF PendingInv, ConnInv
<1>3. P(c)'
  <2>1. CASE StartRead(c)
    BY <1>0, <1>1, <1>2, <2>1 DEF StartRead
  <2>2. CASE RecvHeader(c)
    <3>1. PICK n \in 1..(sent[c] - got[c]) :
            /\ got' = [got EXCEPT ![c] = got[c] + n]
            /\ \/ got[c] + n < HeaderLen /\ step' = step
               \/ process' = "terminated" /\ step' = step
               \/ /\ got[c] + n >= HeaderLen
                  /\ step' = [step EXCEPT ![c] = AfterHeader(c, got[c] + n)]
      BY <2>2 DEF RecvHeader
    <3>2. step[c] = "header"
      BY <2>2 DEF RecvHeader
    <3>3. CASE step' = step /\ (got[c] + n < HeaderLen \/ process' = "terminated")
      BY <1>0, <3>1, <3>2, <3>3
    <3>4. CASE step' = [step EXCEPT ![c] = AfterHeader(c, got[c] + n)]
      BY <1>0, <1>1, <3>1, <3>4 DEF AfterHeader, Missing
    <3> QED
      BY <3>1, <3>3, <3>4
  <2>3. CASE RecvBody(c)
    <3>1. PICK n \in 1..(sent[c] - got[c]) :
            /\ n <= Missing(c, got[c])
            /\ got' = [got EXCEPT ![c] = got[c] + n]
            /\ step' = [step EXCEPT ![c] = IF n = Missing(c, got[c]) THEN "handle" ELSE "body"]
      BY <2>3 DEF RecvBody
    <3> QED
      BY <1>0, <1>1, <3>1 DEF Missing
  <2>4. CASE Handle(c)
    BY <1>0, <1>2, <2>4 DEF Handle, Given, StepInv
  <2>5. CASE SendSome(c)
    <3>1. PICK n \in 1..(response[c] - out[c]) :
            /\ out' = [out EXCEPT ![c] = out[c] + n]
            /\ step' = [step EXCEPT ![c] = IF n = response[c] - out[c] THEN "finish" ELSE "send"]
      BY <2>5 DEF SendSome, Given
    <3>2. response' = response
      BY <2>5 DEF SendSome
    <3> QED
      BY <1>0, <3>1, <3>2
  <2>6. CASE RecvError(c) \/ HandleThrows(c)
    BY <1>1, <1>2, <2>6 DEF RecvError, HandleThrows, objVars
  <2>7. CASE RecvEof(c) \/ SendFails(c) \/ Finish(c) \/ CloseSocket(c)
    BY <1>0, <2>7 DEF RecvEof, SendFails, Finish, CloseSocket
  <2> QED
    BY <2>1, <2>2, <2>3, <2>4, <2>5, <2>6, <2>7 DEF AsyncRead
<1>4. ASSUME NEW d \in Conns, d # c
      PROVE  P(d)'
  BY <1>1, <1>4, ReadFrame DEF PendingInv
<1> QED
  BY <1>3, <1>4 DEF PendingInv

\* How much a request needs, as a number.
LEMMA NeededIs ==
  ASSUME NEW c \in Conns, request[c].length \in Nat
  PROVE  /\ Needed(c) \in Nat
         /\ request[c].header = "number" => Needed(c) = HeaderLen + request[c].length
         /\ request[c].header # "number" => Needed(c) = HeaderLen
         /\ Needed(c) >= HeaderLen
<1>1. CASE request[c].header = "number"
  BY <1>1, ConnAssumption DEF Needed
<1>2. CASE request[c].header # "number"
  BY <1>2, ConnAssumption DEF Needed
<1> QED
  BY <1>1, <1>2

\* Steps of a client, seen from the exchange.
LEMMA ClientRefines ==
  ASSUME ConnTypeOK, NEW c \in Conns,
         SendUnit(c) \/ TakeAnswer(c) \/ \E how \in {"fin", "reset"} : HangUp(c, how)
  PROVE  OneShot!Ask(c) \/ OneShot!Leave(c) \/ UNCHANGED OneShot!exchange
<1>1. UNCHANGED <<Phase, Due, Up, winsock>>
  BY DEF SendUnit, TakeAnswer, HangUp, objVars, Phase, Due, Up
<1>2. CASE SendUnit(c)
  <2>1. peer[c] = "open" /\ peer' = peer /\ request' = request
        /\ sent' = [sent EXCEPT ![c] = @ + 1] /\ sent \in [Conns -> Nat]
    BY <1>2 DEF SendUnit, ConnTypeOK
  <2>2. Presence' = Presence /\ Presence[c] = "here"
    BY <2>1 DEF Presence
  <2>3. Needed(c)' = Needed(c) /\ Needed(c) \in Nat
    BY <2>1, RequestTypes, NeededIs DEF Needed
  <2>4. \A d \in Conns \ {c} : d \in Asked' <=> d \in Asked
    BY <2>1 DEF Asked, Needed
  <2>5. c \in Asked => c \in Asked'
    BY <2>1, <2>3 DEF Asked
  <2>6. Asked' = Asked \/ Asked' = Asked \cup {c}
    <3>1. Asked \subseteq Conns /\ Asked' \subseteq Conns
      BY DEF Asked
    <3> QED
      BY <2>4, <2>5, <3>1
  <2> QED
    BY <1>1, <2>2, <2>6 DEF OneShot!Ask, OneShot!exchange
<1>3. CASE \E how \in {"fin", "reset"} : HangUp(c, how)
  <2>1. peer[c] = "open" /\ UNCHANGED <<sent, request>>
        /\ \E how \in {"fin", "reset"} : peer' = [peer EXCEPT ![c] = how]
    BY <1>3 DEF HangUp
  <2>2. Asked' = Asked
    BY <2>1 DEF Asked, Needed
  <2>3. Presence[c] = "here" /\ Presence' = [Presence EXCEPT ![c] = "left"]
    BY <2>1 DEF Presence, ConnTypeOK
  <2> QED
    BY <1>1, <2>2, <2>3 DEF OneShot!Leave
<1>4. CASE TakeAnswer(c)
  <2>1. UNCHANGED <<Presence, Asked>>
    BY <1>4 DEF TakeAnswer, Presence, Asked, Needed
  <2> QED
    BY <1>1, <2>1 DEF OneShot!exchange
<1> QED
  BY <1>2, <1>3, <1>4

\* The constructor is nothing to the exchange.
LEMMA ConstructRefines ==
  ASSUME ConnTypeOK, ConnInv, NEW c \in Conns, Construct(c)
  PROVE  UNCHANGED OneShot!exchange
<1>1. UNCHANGED <<step, socket_, got, response, out, peerVars, winsock, process>>
      /\ state_[c] = "NONE" /\ state_' = [state_ EXCEPT ![c] = "CONNECTING"]
  BY DEF Construct
<1>2. Phase' = Phase
  BY <1>1 DEF Phase, ConnTypeOK
<1> QED
  BY <1>1, <1>2 DEF OneShot!exchange, Presence, Asked, Needed, Due, Up, peerVars

\* Every step of async_read is one of the exchange, or none.
LEMMA ReadRefines ==
  ASSUME ConnTypeOK, ConnInv, PendingInv, NEW c \in Conns, AsyncRead(c), peer[c] # "none"
  PROVE  OneShot!Service(c) \/ UNCHANGED OneShot!exchange
<1>0. /\ request[c].length \in Nat /\ got[c] \in Nat /\ sent[c] \in Nat /\ HeaderLen \in Nat
      /\ response[c] \in Nat /\ out[c] \in Nat /\ got[c] <= sent[c]
      /\ c \in DOMAIN state_ /\ c \in DOMAIN step /\ c \in DOMAIN response /\ c \in DOMAIN out
      /\ DOMAIN state_ = Conns /\ DOMAIN step = Conns
  BY RequestTypes, ConnAssumption DEF ConnTypeOK
<1>i. StepInv(c) /\ Up
  BY DEF ConnInv, AsyncRead, Up
<1>p. /\ step[c] = "header" => got[c] < HeaderLen
      /\ step[c] = "body" => got[c] < HeaderLen + request[c].length
      /\ step[c] = "send" => out[c] < response[c]
  BY <1>i DEF PendingInv, Up
<1>r. UNCHANGED <<request, sent, peer, winsock>>
  BY DEF AsyncRead, StartRead, RecvHeader, RecvBody, RecvEof, RecvError, Handle, HandleThrows,
         SendSome, SendFails, Finish, CloseSocket, peerVars
<1>e. Presence' = Presence /\ Asked' = Asked
  BY <1>r DEF Presence, Asked, Needed
<1>1. CASE StartRead(c)
  <2>1. UNCHANGED <<response, out, process>> /\ step[c] = "idle"
        /\ step' = [step EXCEPT ![c] = "header"] /\ state_' = [state_ EXCEPT ![c] = "READING"]
    BY <1>1 DEF StartRead
  <2>2. Phase' = Phase
    BY <1>0, <2>1 DEF Phase
  <2> QED
    BY <1>r, <1>e, <2>1, <2>2 DEF Due, Up, OneShot!exchange
<1>2. CASE RecvHeader(c) \/ RecvBody(c)
  <2>1. /\ step[c] \in {"header", "body"} /\ UNCHANGED <<state_, response, out>>
        /\ \E to \in {"header", "body", "handle"} : step' = step \/ step' = [step EXCEPT ![c] = to]
        /\ process' \in {process, "terminated"}
    BY <1>2 DEF RecvHeader, RecvBody, AfterHeader
  <2>2. Phase' = Phase
    BY <1>0, <2>1 DEF Phase
  <2>3. Due' = Due /\ Phase[c] = "waiting"
    BY <2>1 DEF Due, Phase
  <2>4. CASE process' = process
    BY <1>r, <1>e, <2>2, <2>3, <2>4 DEF Up, OneShot!exchange
  <2>5. CASE process' = "terminated"
    BY <1>i, <1>r, <1>e, <2>2, <2>3, <2>5 DEF Up, OneShot!Service, OneShot!Break
  <2> QED
    BY <2>1, <2>4, <2>5
<1>3. CASE RecvEof(c)
  <2>1. /\ step[c] \in {"header", "body"} /\ peer[c] = "fin" /\ sent[c] = got[c]
        /\ step' = [step EXCEPT ![c] = "returned"] /\ state_' = [state_ EXCEPT ![c] = "CLOSING"]
        /\ UNCHANGED <<response, out, process>>
    BY <1>3 DEF RecvEof
  <2>2. c \notin Asked
    <3>1. ~(sent[c] >= Needed(c))
      BY <1>0, <1>i, <1>p, <2>1, NeededIs DEF StepInv
    <3> QED
      BY <3>1 DEF Asked
  <2>3. Presence[c] = "left" /\ Phase[c] = "waiting"
    BY <2>1 DEF Presence, Phase
  <2>4. Phase' = [Phase EXCEPT ![c] = "dropped"]
    BY <1>0, <2>1 DEF Phase
  <2> QED
    BY <1>i, <1>r, <1>e, <2>1, <2>2, <2>3, <2>4 DEF Due, Up, OneShot!Service, OneShot!Drop
<1>4. CASE RecvError(c) \/ HandleThrows(c)
  <2>1. step[c] \in {"header", "body", "handle"} /\ process' = "terminated" /\ UNCHANGED objVars
    BY <1>4 DEF RecvError, HandleThrows
  <2>2. Phase[c] = "waiting" /\ UNCHANGED <<Phase, Due>> /\ Up' = FALSE
    BY <2>1 DEF Phase, Due, Up, objVars
  <2> QED
    BY <1>i, <1>r, <1>e, <2>2 DEF OneShot!Service, OneShot!Break
<1>5. CASE Handle(c)
  <2>1. /\ step[c] = "handle" /\ step' = [step EXCEPT ![c] = "send"]
        /\ state_' = [state_ EXCEPT ![c] = "WRITING"] /\ UNCHANGED <<out, process>>
    BY <1>5 DEF Handle, Given
  <2>2. PICK n \in 1..MaxResponse : response' = [response EXCEPT ![c] = n]
    BY <1>5 DEF Handle
  <2>3. c \in Asked /\ Phase[c] = "waiting"
    <3>1. sent[c] >= Needed(c)
      BY <1>0, <1>i, <2>1, NeededIs DEF StepInv, Whole
    <3> QED
      BY <2>1, <3>1 DEF Asked, Phase
  <2>4. Phase' = [Phase EXCEPT ![c] = "answering"]
    BY <1>0, <2>1 DEF Phase
  <2>5. Due' = [Due EXCEPT ![c] = n]
    <3>1. out[c] = 0
      BY <1>i, <2>1 DEF StepInv
    <3>2. \A d \in Conns : Due'[d] = IF d = c THEN n ELSE Due[d]
      BY <2>1, <2>2, <3>1, ConnAssumption DEF Due, ConnTypeOK
    <3> QED
      BY <3>2 DEF Due
  <2> QED
    BY <1>i, <1>r, <1>e, <2>1, <2>3, <2>4, <2>5 DEF Up, OneShot!Service, OneShot!Begin
<1>6. CASE SendSome(c)
  <2>1. PICK n \in 1..(response[c] - out[c]) :
          /\ out' = [out EXCEPT ![c] = out[c] + n]
          /\ step' = [step EXCEPT ![c] = IF n = response[c] - out[c] THEN "finish" ELSE "send"]
    BY <1>6 DEF SendSome, Given
  <2>2. step[c] = "send" /\ UNCHANGED <<state_, response, process>>
    BY <1>6 DEF SendSome
  <2>3. Phase[c] = "answering" /\ Phase' = Phase
    BY <1>0, <2>1, <2>2 DEF Phase
  <2>4. n \in 1..Due[c] /\ Due' = [Due EXCEPT ![c] = Due[c] - n]
    <3>1. \A d \in Conns : Due'[d] = IF d = c THEN Due[c] - n ELSE Due[d]
      BY <1>0, <2>1, <2>2 DEF Due
    <3> QED
      BY <2>1, <3>1 DEF Due
  <2> QED
    BY <1>i, <1>r, <1>e, <2>2, <2>3, <2>4 DEF Up, OneShot!Service, OneShot!Tell
<1>7. CASE SendFails(c)
  <2>1. /\ step[c] = "send" /\ (peer[c] # "open" \/ ~winsock)
        /\ step' = [step EXCEPT ![c] = "returned"] /\ state_' = [state_ EXCEPT ![c] = "CLOSING"]
        /\ UNCHANGED <<response, out, process>>
    BY <1>7 DEF SendFails, SendBroken
  <2>2. Phase[c] = "answering" /\ Phase' = [Phase EXCEPT ![c] = "dropped"]
    BY <1>0, <2>1 DEF Phase
  <2>3. Due[c] > 0 /\ Due' = Due
    BY <1>0, <1>p, <2>1 DEF Due
  <2> QED
    BY <1>i, <1>r, <1>e, <2>1, <2>2, <2>3 DEF Up, Presence, OneShot!Service, OneShot!Drop
<1>8. CASE Finish(c)
  <2>1. /\ step[c] = "finish" /\ step' = [step EXCEPT ![c] = "close"]
        /\ state_' = [state_ EXCEPT ![c] = "CLOSING"] /\ UNCHANGED <<response, out, process>>
    BY <1>8 DEF Finish
  <2>2. Phase' = Phase
    BY <1>0, <2>1 DEF Phase
  <2> QED
    BY <1>r, <1>e, <2>1, <2>2 DEF Due, Up, OneShot!exchange
<1>9. CASE CloseSocket(c)
  <2>1. /\ step[c] = "close" /\ step' = [step EXCEPT ![c] = "returned"]
        /\ state_' = [state_ EXCEPT ![c] = "CLOSED"] /\ UNCHANGED <<response, out, process>>
    BY <1>9 DEF CloseSocket
  <2>2. Phase[c] = "answering" /\ Phase' = [Phase EXCEPT ![c] = "answered"]
    BY <1>0, <2>1 DEF Phase
  <2>3. Due[c] = 0 /\ Due' = Due
    BY <1>0, <1>i, <2>1 DEF Due, StepInv
  <2> QED
    BY <1>i, <1>r, <1>e, <2>1, <2>2, <2>3 DEF Up, OneShot!Service, OneShot!Conclude
<1> QED
  BY <1>1, <1>2, <1>3, <1>4, <1>5, <1>6, <1>7, <1>8, <1>9 DEF AsyncRead

\* The exchange has not begun when nothing has.
LEMMA InitSilence ==
  ASSUME NEW s, NEW p, Fresh(s, p)
  PROVE  /\ Asked = {} /\ Phase = [c \in Conns |-> "waiting"]
         /\ Due = [c \in Conns |-> 0] /\ Up = TRUE /\ winsock = TRUE
<1>1. ASSUME NEW c \in Conns
      PROVE  ~(sent[c] >= Needed(c))
  <2>1. request[c].length \in Nat
    BY ConnAssumption DEF Fresh, RequestType
  <2>2. sent[c] = 0
    BY DEF Fresh
  <2> QED
    BY <2>1, <2>2, NeededIs, ConnAssumption
<1>2. Asked = {}
  BY <1>1 DEF Asked
<1>3. Phase = [c \in Conns |-> "waiting"] /\ Due = [c \in Conns |-> 0]
  BY DEF Fresh, Phase, Due
<1> QED
  BY <1>2, <1>3 DEF Fresh, Up

\* Every client has connected, as far as module Connection goes.
Known == \A c \in Conns : peer[c] # "none"

\* Connections implement the exchange: a request is answered once, when it is whole and
\* to the end, and is dropped only when its client left before.
THEOREM ConnectionImplementsExchange == ConnSafeSpec => OneShotSpec
<1>1. ConnInit => PendingInv
  BY InitPending DEF ConnInit
<1>2. ConnTypeOK /\ ConnInv /\ PendingInv /\ [ConnNext]_connVars => PendingInv'
  <2> SUFFICES ASSUME ConnTypeOK, ConnInv, PendingInv, [ConnNext]_connVars
               PROVE  PendingInv'
    OBVIOUS
  <2>1. ASSUME NEW c \in Conns, Construct(c) \/ Client(c)
        PROVE  PendingInv'
    BY <2>1, PendingFrame DEF Construct, Client, SendUnit, TakeAnswer, HangUp, objVars, peerVars
  <2>2. CASE UNCHANGED connVars
    BY <2>2, PendingFrame DEF connVars, objVars, peerVars
  <2> QED
    BY <2>1, <2>2, PendingRead DEF ConnNext
<1>3. ConnInit => OneShot!Silence("here") /\ Known
  <2> SUFFICES ASSUME ConnInit PROVE OneShot!Silence("here") /\ Known
    OBVIOUS
  <2>1. Presence = [c \in Conns |-> "here"] /\ Known
    BY DEF ConnInit, Fresh, Presence, Known
  <2>2. Fresh("open", "open")
    BY DEF ConnInit
  <2> QED
    BY <2>1, <2>2, InitSilence DEF OneShot!Silence
<1>k. ConnTypeOK /\ Known /\ [ConnNext]_connVars => Known'
  <2> SUFFICES ASSUME ConnTypeOK, Known, [ConnNext]_connVars
               PROVE  Known'
    OBVIOUS
  <2>1. peer' = peer \/ \E c \in Conns, how \in {"fin", "reset"} : peer' = [peer EXCEPT ![c] = how]
    BY DEF ConnNext, connVars, peerVars, Construct, Client, SendUnit, TakeAnswer, HangUp, AsyncRead, StartRead,
           RecvHeader, RecvBody, RecvEof, RecvError, Handle, HandleThrows, SendSome, SendFails,
           Finish, CloseSocket
  <2> QED
    BY <2>1 DEF Known, ConnTypeOK
<1>4. ConnTypeOK /\ ConnInv /\ PendingInv /\ Known /\ [ConnNext]_connVars
        => [OneShot!ExchangeNext]_(OneShot!exchange)
  <2> SUFFICES ASSUME ConnTypeOK, ConnInv, PendingInv, Known, [ConnNext]_connVars
               PROVE  OneShot!ExchangeNext \/ UNCHANGED OneShot!exchange
    OBVIOUS
  <2>1. ASSUME NEW c \in Conns, Client(c)
        PROVE  OneShot!ExchangeNext \/ UNCHANGED OneShot!exchange
    BY <2>1, ClientRefines DEF Client, OneShot!ExchangeNext
  <2>2. ASSUME NEW c \in Conns, AsyncRead(c)
        PROVE  OneShot!ExchangeNext \/ UNCHANGED OneShot!exchange
    BY <2>2, ReadRefines DEF Known, OneShot!ExchangeNext
  <2>3. CASE UNCHANGED connVars
    BY <2>3 DEF connVars, objVars, peerVars, OneShot!exchange, Presence, Asked, Needed, Phase,
                Due, Up
  <2> QED
    BY <2>1, <2>2, <2>3, ConstructRefines DEF ConnNext
<1> QED
  BY <1>1, <1>2, <1>3, <1>k, <1>4, ConnInvHolds, PTL
  DEF ConnSafeSpec, OneShotSpec, OneShot!ExchangeSpec
==============================================================================
