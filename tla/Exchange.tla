------------------------------- MODULE Exchange -------------------------------
(***************************************************************************)
(* What class Connection (src/src/server.cpp) promises a client, with no   *)
(* recv, no send and no ConnectionState in sight: one request, one answer, *)
(* the end. The answer begins only when the whole request has arrived, is  *)
(* given in pieces and once, and the exchange counts as answered only when *)
(* all of it has been given. It is dropped only for a reason.              *)
(***************************************************************************)
EXTENDS Naturals

CONSTANTS Clients,
          MaxAnswer   \* units of the longest answer

VARIABLES presence,   \* "away", "here", or "left": it closed or aborted its side
          asked,      \* the clients whose whole request has arrived
          phase,      \* "waiting", "answering", "answered" or "dropped"
          due,        \* units of the answer still to give
          up,         \* the process runs
          net         \* and can use the network

exchange == <<presence, asked, phase, due, up, net>>

\* Nothing has been said; the clients are all `first`.
Silence(first) == /\ presence = [c \in Clients |-> first]
                  /\ asked = {}
                  /\ phase = [c \in Clients |-> "waiting"]
                  /\ due = [c \in Clients |-> 0]
                  /\ up = TRUE
                  /\ net = TRUE

\* The rest of the request arrives.
Ask(c) == /\ presence[c] = "here"
          /\ asked' = asked \cup {c}
          /\ UNCHANGED <<presence, phase, due, up, net>>

Leave(c) == /\ presence[c] = "here"
            /\ presence' = [presence EXCEPT ![c] = "left"]
            /\ UNCHANGED <<asked, phase, due, up, net>>

Begin(c) == /\ phase[c] = "waiting"
            /\ c \in asked
            /\ phase' = [phase EXCEPT ![c] = "answering"]
            /\ \E n \in 1..MaxAnswer : due' = [due EXCEPT ![c] = n]
            /\ UNCHANGED <<presence, asked, up, net>>

Tell(c) == /\ phase[c] = "answering"
           /\ \E n \in 1..due[c] : due' = [due EXCEPT ![c] = @ - n]
           /\ UNCHANGED <<presence, asked, phase, up, net>>

Conclude(c) == /\ phase[c] = "answering"
               /\ due[c] = 0
               /\ phase' = [phase EXCEPT ![c] = "answered"]
               /\ UNCHANGED <<presence, asked, due, up, net>>

\* The client left before it had asked, or before it was told everything.
Drop(c) == /\ \/ phase[c] = "waiting" /\ c \notin asked /\ presence[c] = "left"
              \/ phase[c] = "answering" /\ due[c] > 0 /\ (presence[c] = "left" \/ ~net)
           /\ phase' = [phase EXCEPT ![c] = "dropped"]
           /\ UNCHANGED <<presence, asked, due, up, net>>

\* Reading or handling a request may end the process; answering it may not.
Break(c) == /\ phase[c] = "waiting"
            /\ up' = FALSE
            /\ UNCHANGED <<presence, asked, phase, due, net>>

\* What the process does for a client.
Service(c) == up /\ (Begin(c) \/ Tell(c) \/ Conclude(c) \/ Drop(c) \/ Break(c))

ExchangeNext == \E c \in Clients : Ask(c) \/ Leave(c) \/ Service(c)

ExchangeSpec == Silence("here") /\ [][ExchangeNext]_exchange
==============================================================================
