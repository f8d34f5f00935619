------------------------------ MODULE TaskQueue ------------------------------
(***************************************************************************)
(* Class TaskQueue of src/src/server.cpp: a std::queue guarded by mutex_,  *)
(* with the condition variable not_empty_. Every critical section is one   *)
(* action, because mutex_ is held from its first to its last access.       *)
(*                                                                         *)
(* The module models the class for any caller. In the server of this       *)
(* repository nothing calls push: module Server uses the pop side only.    *)
(***************************************************************************)
EXTENDS Naturals, Sequences, FiniteSets

CONSTANTS Workers,   \* threads that call pop
          Tasks,     \* the AsyncTask values that callers may push, each once
          MaxSize,   \* max_size_
          NoTask     \* a default-constructed AsyncTask

ASSUME QueueAssumption == /\ IsFiniteSet(Workers)
                          /\ MaxSize \in Nat
                          /\ NoTask \notin Tasks

VARIABLES tasks_,    \* the queue, oldest task first
          popper,    \* where each worker stands with respect to pop
          held,      \* the task pop has handed to each worker
          offered    \* tasks already passed to push (an environment bound)

queueVars == <<tasks_, popper, held, offered>>

\* "out"     : not inside pop
\* "polling" : inside pop, about to take mutex_ and evaluate the predicate
\* "waiting" : blocked in not_empty_.wait, mutex_ released
PopStates == {"out", "polling", "waiting"}

Waiting == {w \in Workers : popper[w] = "waiting"}
Polling == {w \in Workers : popper[w] = "polling"}

QueueInit == /\ tasks_ = <<>>
             /\ popper = [w \in Workers |-> "out"]
             /\ held = [w \in Workers |-> NoTask]
             /\ offered = {}

\* Mutation: the signal is forgotten.
NotifyNobody == UNCHANGED popper

\* Mutation: the pusher signals only when it finds the queue empty.
NotifyWhenEmpty == IF tasks_ # <<>> \/ Waiting = {} THEN UNCHANGED popper
                   ELSE \E w \in Waiting : popper' = [popper EXCEPT ![w] = "polling"]

\* notify_one: one waiting thread, if there is one, gets to evaluate the
\* predicate; with nobody waiting the signal is lost.
NotifyOne == IF Waiting = {} THEN UNCHANGED popper
             ELSE \E w \in Waiting : popper' = [popper EXCEPT ![w] = "polling"]

\* Mutation: one task too many is accepted.
PushBeyondLimit(t) == /\ t \notin offered
                      /\ offered' = offered \cup {t}
                      /\ Len(tasks_) <= MaxSize
                      /\ tasks_' = Append(tasks_, t)
                      /\ NotifyOne
                      /\ UNCHANGED held

\* push: a full queue drops the task and tells nobody.
Push(t) == /\ t \notin offered
           /\ offered' = offered \cup {t}
           /\ \/ /\ Len(tasks_) < MaxSize
                 /\ tasks_' = Append(tasks_, t)
                 /\ NotifyOne
              \/ /\ Len(tasks_) >= MaxSize
                 /\ UNCHANGED <<tasks_, popper>>
           /\ UNCHANGED held

\* A worker, done with its previous task, calls pop with a fresh AsyncTask.
CallPop(w) == /\ popper[w] = "out"
              /\ popper' = [popper EXCEPT ![w] = "polling"]
              /\ held' = [held EXCEPT ![w] = NoTask]
              /\ UNCHANGED <<tasks_, offered>>

\* Mutation: the front is copied out and stays in the queue.
PollKeepsFront(w) == /\ popper[w] = "polling"
                     /\ tasks_ # <<>>
                     /\ held' = [held EXCEPT ![w] = Head(tasks_)]
                     /\ popper' = [popper EXCEPT ![w] = "out"]
                     /\ UNCHANGED <<tasks_, offered>>

\* Mutation: the newest task is taken instead of the oldest.
PollNewest(w) == /\ popper[w] = "polling"
                 /\ \/ /\ tasks_ # <<>>
                       /\ held' = [held EXCEPT ![w] = tasks_[Len(tasks_)]]
                       /\ tasks_' = SubSeq(tasks_, 1, Len(tasks_) - 1)
                       /\ popper' = [popper EXCEPT ![w] = "out"]
                    \/ /\ tasks_ = <<>>
                       /\ popper' = [popper EXCEPT ![w] = "waiting"]
                       /\ UNCHANGED <<tasks_, held>>
                 /\ UNCHANGED offered

\* Under mutex_: take the oldest task, or go (back) to sleep on an empty queue.
Poll(w) == /\ popper[w] = "polling"
           /\ \/ /\ tasks_ # <<>>
                 /\ held' = [held EXCEPT ![w] = Head(tasks_)]
                 /\ tasks_' = Tail(tasks_)
                 /\ popper' = [popper EXCEPT ![w] = "out"]
              \/ /\ tasks_ = <<>>
                 /\ popper' = [popper EXCEPT ![w] = "waiting"]
                 /\ UNCHANGED <<tasks_, held>>
           /\ UNCHANGED offered

\* A condition variable may wake a thread nobody notified.
SpuriousWake(w) == /\ popper[w] = "waiting"
                   /\ popper' = [popper EXCEPT ![w] = "polling"]
                   /\ UNCHANGED <<tasks_, held, offered>>

QueueNext == \/ \E t \in Tasks : Push(t)
             \/ \E w \in Workers : CallPop(w) \/ Poll(w) \/ SpuriousWake(w)

QueueSafeSpec == QueueInit /\ [][QueueNext]_queueVars

\* The scheduler runs every worker: a held mutex_ is released after a few
\* instructions and a worker that is out of pop calls it again.
QueueSpec == /\ QueueSafeSpec
             /\ \A w \in Workers : WF_queueVars(CallPop(w)) /\ WF_queueVars(Poll(w))

------------------------------------------------------------------------------
\* Type invariant; the length bound is what the size test of push is for.
QueueTypeOK == /\ tasks_ \in Seq(Tasks)
               /\ Len(tasks_) <= MaxSize
               /\ popper \in [Workers -> PopStates]
               /\ held \in [Workers -> Tasks \cup {NoTask}]
               /\ offered \subseteq Tasks

\* No wake-up is lost: as long as a worker sleeps in wait, every queued task has
\* a worker of its own on its way to the predicate. (push signals once per task,
\* under the mutex; pop goes to sleep only on an empty queue.)
NoLostWakeup == Waiting # {} => Len(tasks_) <= Cardinality(Polling)

\* A task is in at most one place: no two workers run the same task, no worker
\* runs a task that is still queued, and none is queued twice. (pop moves the front out and removes it.)
HandedOutOnce ==
  /\ \A v, w \in Workers : v # w /\ held[v] # NoTask => held[v] # held[w]
  /\ \A w \in Workers, i \in 1..Len(tasks_) : held[w] # tasks_[i]
  /\ \A i, j \in 1..Len(tasks_) : i # j => tasks_[i] # tasks_[j]

\* Every task push has accepted is eventually taken by a worker.
EveryTaskTaken == \A t \in Tasks : (\E i \in 1..Len(tasks_) : tasks_[i] = t)
                                     ~> (\E w \in Workers : held[w] = t)

\* The queue implements the channel: same order, same refusals, and a free
\* worker is never left asleep beside a pending task.
Channel == INSTANCE TaskChannel WITH pending <- tasks_, holder <- held
ChannelSpec == Channel!Spec
==============================================================================
