------------------------------ MODULE Reception ------------------------------
(***************************************************************************)
(* What class Server (src/src/server.cpp) promises as a whole, with no     *)
(* threads, flags or list of connections in sight: clients stand in line,  *)
(* one of them at a time is at the desk and has its exchange there, at     *)
(* most Limit of them are ever admitted, and after the door has closed at  *)
(* most one more. When the server is quiet it serves nobody any more.      *)
(***************************************************************************)
EXTENDS Exchange, Sequences, FiniteSets

CONSTANTS Limit,        \* clients admitted in the life of the server
          Nobody,       \* no client
          DeskMayFail   \* the desk may be unable to admit a client

VARIABLES door,       \* "new", "opening" (clients come already), "open",
                      \* "closing" (one more may be admitted) or "shut"
          line,       \* clients that wait, the first to come first
          desk,       \* the client at the desk
          admitted,   \* clients admitted to an exchange
          last,       \* somebody was admitted after the door began to close
          quiet       \* it is over: nobody will come to the desk again

reception == <<door, line, desk, admitted, last, quiet>>
all == <<exchange, reception>>

Init == /\ Silence("away")
        /\ door = "new" /\ line = <<>> /\ desk = Nobody /\ admitted = {}
        /\ last = FALSE /\ quiet = FALSE

\* The door only ever moves this way.
Door(from, to) == up /\ door \in from /\ door' = to

Open == /\ Door({"new"}, "opening") \/ Door({"opening"}, "open")
        /\ UNCHANGED <<exchange, line, desk, admitted, last, quiet>>

StartToClose == /\ Door({"opening", "open"}, "closing")
                /\ UNCHANGED <<exchange, line, desk, admitted, last, quiet>>

\* Whoever is still in line is sent home.
Shut == /\ Door({"closing"}, "shut")
        /\ line' = <<>>
        /\ presence' = [c \in Clients |-> IF \E i \in 1..Len(line) : line[i] = c
                                          THEN "left" ELSE presence[c]]
        /\ UNCHANGED <<asked, phase, due, up, net, desk, admitted, last, quiet>>

Arrive(c) == /\ Door({"opening", "open", "closing"}, door)
             /\ presence[c] = "away"
             /\ presence' = [presence EXCEPT ![c] = "here"]
             /\ line' = Append(line, c)
             /\ UNCHANGED <<asked, phase, due, up, net, desk, admitted, last, quiet>>

\* The first in line comes to the free desk.
CallNext == /\ up /\ ~quiet
            /\ desk = Nobody
            /\ line # <<>>
            /\ desk' = Head(line)
            /\ line' = Tail(line)
            /\ UNCHANGED <<exchange, door, admitted, last, quiet>>

\* The first in line has gone.
Skip == /\ up
        /\ desk = Nobody
        /\ line # <<>>
        /\ presence[Head(line)] = "left"
        /\ line' = Tail(line)
        /\ UNCHANGED <<exchange, door, desk, admitted, last, quiet>>

\* The client at the desk, not admitted so far.
Newcomer == up /\ desk # Nobody /\ desk \notin admitted

TurnAway == /\ Newcomer
            /\ Cardinality(admitted) >= Limit \/ DeskMayFail
            /\ desk' = Nobody
            /\ UNCHANGED <<exchange, door, line, admitted, last, quiet>>

Inviting == door \in {"opening", "open"}

Admit == /\ Newcomer
         /\ Cardinality(admitted) < Limit
         /\ Inviting \/ ~last
         /\ last' = ~Inviting
         /\ admitted' = admitted \cup {desk}
         /\ UNCHANGED <<exchange, door, line, desk, quiet>>

\* Only the exchange of the client at the desk goes on.
Serve == /\ desk \in admitted
         /\ Service(desk)
         /\ UNCHANGED reception

\* It leaves the desk when its exchange is over.
Dismiss == /\ up
           /\ desk \in admitted
           /\ phase[desk] \in {"answered", "dropped"}
           /\ desk' = Nobody
           /\ UNCHANGED <<exchange, door, line, admitted, last, quiet>>

BeQuiet == /\ Door({"shut"}, door)
           /\ desk = Nobody
           /\ quiet' = TRUE
           /\ UNCHANGED <<exchange, line, desk, admitted, last>>

\* The network is given back only with the door closed, and so does the process end, unless
\* the opening fails.
Unplug == /\ Door({"closing", "shut"}, door)
          /\ net' = FALSE
          /\ UNCHANGED <<presence, asked, phase, due, up, line, desk, admitted, last, quiet>>

End == /\ \/ Door({"opening", "closing", "shut"}, door)
          \/ Door({"new"}, "shut")
       /\ up' = FALSE
       /\ UNCHANGED <<presence, asked, phase, due, net, line, desk, admitted, last, quiet>>

Next == \/ Open \/ StartToClose \/ Shut
        \/ \E c \in Clients : Arrive(c) \/ ((Ask(c) \/ Leave(c)) /\ UNCHANGED reception)
        \/ CallNext \/ Skip \/ TurnAway \/ Admit \/ Serve \/ Dismiss
        \/ BeQuiet \/ Unplug \/ End

Spec == Init /\ [][Next]_all
==============================================================================
