----------------------------- MODULE TaskChannel -----------------------------
(***************************************************************************)
(* What class TaskQueue (src/src/server.cpp) promises its users, with no   *)
(* mutex and no condition variable in sight: a bounded first-in first-out  *)
(* channel from the callers of push to the callers of pop.                 *)
(***************************************************************************)
EXTENDS Naturals, Sequences

CONSTANTS Workers,   \* threads that call pop
          Tasks,     \* the AsyncTask values that callers may push
          MaxSize,   \* capacity (max_size_)
          NoTask     \* "this worker holds no task"

VARIABLES pending,   \* accepted and not yet taken, oldest first
          holder,    \* the task each worker is executing, or NoTask
          offered    \* tasks that some caller has already passed to push

vars == <<pending, holder, offered>>

Init == /\ pending = <<>>
        /\ holder = [w \in Workers |-> NoTask]
        /\ offered = {}

\* A caller offers a task. It is refused, silently, exactly when the channel is full.
Offer(t) == /\ t \notin offered
            /\ offered' = offered \cup {t}
            /\ pending' = IF Len(pending) < MaxSize THEN Append(pending, t) ELSE pending
            /\ UNCHANGED holder

\* A free worker gets the oldest pending task; nobody else gets it too.
Take(w) == /\ holder[w] = NoTask
           /\ pending # <<>>
           /\ holder' = [holder EXCEPT ![w] = Head(pending)]
           /\ pending' = Tail(pending)
           /\ UNCHANGED offered

\* A worker is done with its task.
Release(w) == /\ holder[w] # NoTask
              /\ holder' = [holder EXCEPT ![w] = NoTask]
              /\ UNCHANGED <<pending, offered>>

Next == \/ \E t \in Tasks : Offer(t)
        \/ \E w \in Workers : Take(w) \/ Release(w)

SafeSpec == Init /\ [][Next]_vars

\* No pending task is left alone while some worker stays free.
Spec == SafeSpec /\ WF_vars(\E w \in Workers : Take(w))
==============================================================================
