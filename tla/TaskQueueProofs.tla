--------------------------- MODULE TaskQueueProofs ---------------------------
(***************************************************************************)
(* Theorems about TaskQueue for every set of workers, every set of tasks   *)
(* and every capacity.                                                     *)
(***************************************************************************)
EXTENDS TaskQueue, FiniteSetTheorems, TLAPS

\* The length bound and the types, for every step of every thread: push is the only
\* operation that lengthens the queue and it tests the size under the mutex.
THEOREM QueueTypeCorrect == QueueSafeSpec => []QueueTypeOK
<1>1. QueueInit => QueueTypeOK
  BY QueueAssumption DEF QueueInit, QueueTypeOK, PopStates
<1>2. QueueTypeOK /\ [QueueNext]_queueVars => QueueTypeOK'
  <2> SUFFICES ASSUME QueueTypeOK, [QueueNext]_queueVars
               PROVE  QueueTypeOK'
    OBVIOUS
  <2> USE QueueAssumption DEF QueueTypeOK, PopStates
  <2>1. ASSUME NEW t \in Tasks, Push(t)
        PROVE  QueueTypeOK'
    <3>1. popper' \in [Workers -> PopStates]
      BY <2>1 DEF Push, NotifyOne, Waiting
    <3>2. tasks_' \in Seq(Tasks) /\ Len(tasks_') <= MaxSize
      BY <2>1 DEF Push
    <3> QED
      BY <2>1, <3>1, <3>2 DEF Push
  <2>2. ASSUME NEW w \in Workers, CallPop(w)
        PROVE  QueueTypeOK'
    BY <2>2 DEF CallPop
  <2>3. ASSUME NEW w \in Workers, Poll(w)
        PROVE  QueueTypeOK'
    <3>1. popper' \in [Workers -> PopStates]
      BY <2>3 DEF Poll
    <3>2. CASE tasks_ = <<>>
      BY <2>3, <3>1, <3>2 DEF Poll
    <3>3. CASE tasks_ # <<>>
      <4>1. tasks_' = Tail(tasks_) /\ held' = [held EXCEPT ![w] = tasks_[1]] /\ tasks_[1] \in Tasks
        BY <2>3, <3>3 DEF Poll
      <4>2. tasks_' \in Seq(Tasks) /\ Len(tasks_') <= MaxSize
        BY <3>3, <4>1
      <4> QED
        BY <2>3, <3>1, <4>1, <4>2 DEF Poll
    <3> QED
      BY <3>2, <3>3
  <2>4. ASSUME NEW w \in Workers, SpuriousWake(w)
        PROVE  QueueTypeOK'
    BY <2>4 DEF SpuriousWake
  <2>5. CASE UNCHANGED queueVars
    BY <2>5 DEF queueVars
  <2> QED
    BY <2>1, <2>2, <2>3, <2>4, <2>5 DEF QueueNext
<1> QED
  BY <1>1, <1>2, PTL DEF QueueSafeSpec

------------------------------------------------------------------------------
\* The workers on their way to the predicate can be counted.
LEMMA PollingFinite == IsFiniteSet(Polling)
<1>1. IsFiniteSet(Workers)
  BY QueueAssumption
<1>2. Polling \subseteq Workers
  BY DEF Polling
<1> QED
  BY <1>1, <1>2, FS_Subset

\* One more worker polls: the count grows by one.
LEMMA OneMorePolls ==
  ASSUME NEW w \in Workers, popper \in [Workers -> PopStates], popper[w] # "polling",
         popper' = [popper EXCEPT ![w] = "polling"]
  PROVE  /\ Cardinality(Polling') = Cardinality(Polling) + 1
         /\ Cardinality(Polling) \in Nat
<1>1. Polling' = Polling \cup {w} /\ w \notin Polling
  BY DEF Polling
<1> QED
  BY <1>1, PollingFinite, FS_AddElement, FS_CardinalityType

\* One worker stops polling: the count falls by one.
LEMMA OneLessPolls ==
  ASSUME NEW w \in Workers, NEW s \in {"out", "waiting"},
         popper \in [Workers -> PopStates], popper[w] = "polling",
         popper' = [popper EXCEPT ![w] = s]
  PROVE  /\ Cardinality(Polling') = Cardinality(Polling) - 1
         /\ Cardinality(Polling) \in Nat
<1>1. Polling' = Polling \ {w} /\ w \in Polling
  BY DEF Polling
<1> QED
  BY <1>1, PollingFinite, FS_RemoveElement, FS_CardinalityType

\* No sleeping worker is forgotten beside a queued task, however signals, spurious
\* wake-ups and competing workers interleave.
THEOREM NoLostWakeupHolds == QueueSafeSpec => []NoLostWakeup
<1>1. QueueInit => NoLostWakeup
  BY DEF QueueInit, NoLostWakeup, Waiting
<1>2. QueueTypeOK /\ NoLostWakeup /\ [QueueNext]_queueVars => NoLostWakeup'
  <2> SUFFICES ASSUME QueueTypeOK, NoLostWakeup, [QueueNext]_queueVars,
                      Waiting' # {}
               PROVE  Len(tasks_') <= Cardinality(Polling')
    BY DEF NoLostWakeup
  <2>0. popper \in [Workers -> PopStates] /\ tasks_ \in Seq(Tasks) /\ Len(tasks_) \in Nat
    BY DEF QueueTypeOK
  <2>1. ASSUME NEW t \in Tasks, Push(t)
        PROVE  Len(tasks_') <= Cardinality(Polling')
    <3>1. CASE Len(tasks_) < MaxSize /\ tasks_' = Append(tasks_, t) /\ NotifyOne
      <4>1. Waiting # {}
        BY <3>1 DEF NotifyOne, Waiting
      <4>2. PICK w \in Waiting : popper' = [popper EXCEPT ![w] = "polling"]
        BY <3>1, <4>1 DEF NotifyOne
      <4>3. Cardinality(Polling') = Cardinality(Polling) + 1 /\ Cardinality(Polling) \in Nat
        BY <2>0, <4>2, OneMorePolls DEF Waiting
      <4>4. Len(tasks_) <= Cardinality(Polling)
        BY <4>1 DEF NoLostWakeup
      <4>5. Len(tasks_') = Len(tasks_) + 1
        BY <2>0, <3>1
      <4> QED
        BY <2>0, <4>3, <4>4, <4>5
    <3>2. CASE UNCHANGED <<tasks_, popper>>
      BY <3>2 DEF NoLostWakeup, Waiting, Polling
    <3> QED
      BY <2>1, <3>1, <3>2 DEF Push
  <2>2. ASSUME NEW w \in Workers, CallPop(w)
        PROVE  Len(tasks_') <= Cardinality(Polling')
    <3>1. Waiting # {}
      BY <2>0, <2>2 DEF CallPop, Waiting
    <3>2. Len(tasks_) <= Cardinality(Polling)
      BY <3>1 DEF NoLostWakeup
    <3>3. Cardinality(Polling') = Cardinality(Polling) + 1 /\ Cardinality(Polling) \in Nat
      BY <2>0, <2>2, OneMorePolls DEF CallPop
    <3> QED
      BY <2>0, <2>2, <3>2, <3>3 DEF CallPop
  <2>3. ASSUME NEW w \in Workers, Poll(w)
        PROVE  Len(tasks_') <= Cardinality(Polling')
    <3>1. CASE tasks_ # <<>> /\ tasks_' = Tail(tasks_) /\ popper' = [popper EXCEPT ![w] = "out"]
      <4>1. Waiting # {}
        BY <2>0, <3>1 DEF Waiting
      <4>2. Len(tasks_) <= Cardinality(Polling)
        BY <4>1 DEF NoLostWakeup
      <4>3. Cardinality(Polling') = Cardinality(Polling) - 1 /\ Cardinality(Polling) \in Nat
        BY <2>0, <2>3, <3>1, OneLessPolls DEF Poll
      <4>4. Len(tasks_') = Len(tasks_) - 1
        BY <2>0, <3>1
      <4> QED
        BY <2>0, <4>2, <4>3, <4>4
    <3>2. CASE tasks_ = <<>> /\ tasks_' = tasks_ /\ popper' = [popper EXCEPT ![w] = "waiting"]
      <4>1. Cardinality(Polling') = Cardinality(Polling) - 1 /\ Cardinality(Polling) \in Nat
        BY <2>0, <2>3, <3>2, OneLessPolls DEF Poll
      <4>2. w \in Polling
        BY <2>3 DEF Poll, Polling
      <4>3. Cardinality(Polling) # 0
        BY <4>2, PollingFinite, FS_EmptySet
      <4> QED
        BY <2>0, <3>2, <4>1, <4>3
    <3> QED
      BY <2>3, <3>1, <3>2 DEF Poll
  <2>4. ASSUME NEW w \in Workers, SpuriousWake(w)
        PROVE  Len(tasks_') <= Cardinality(Polling')
    <3>1. Len(tasks_) <= Cardinality(Polling)
      BY <2>4 DEF SpuriousWake, Waiting, NoLostWakeup
    <3>2. Cardinality(Polling') = Cardinality(Polling) + 1 /\ Cardinality(Polling) \in Nat
      BY <2>0, <2>4, OneMorePolls DEF SpuriousWake
    <3> QED
      BY <2>0, <2>4, <3>1, <3>2 DEF SpuriousWake
  <2>5. CASE UNCHANGED queueVars
    BY <2>5 DEF queueVars, NoLostWakeup, Waiting, Polling
  <2> QED
    BY <2>1, <2>2, <2>3, <2>4, <2>5 DEF QueueNext
<1> QED
  BY <1>1, <1>2, QueueTypeCorrect, PTL DEF QueueSafeSpec

------------------------------------------------------------------------------
\* Whatever is queued or held has been offered: the part that makes HandedOutOnce
\* inductive, for push offers each task once.
OfferedOnly == /\ \A i \in 1..Len(tasks_) : tasks_[i] \in offered
               /\ \A w \in Workers : held[w] \in offered \cup {NoTask}

\* No task is run twice, or run while it is still queued: for any number of
\* workers that poll, sleep and wake in any order.
THEOREM HandedOutOnceHolds == QueueSafeSpec => []HandedOutOnce
<1> DEFINE IInv == HandedOutOnce /\ OfferedOnly
<1>1. QueueInit => IInv
  BY DEF QueueInit, HandedOutOnce, OfferedOnly
<1>2. QueueTypeOK /\ IInv /\ [QueueNext]_queueVars => IInv'
  <2> SUFFICES ASSUME QueueTypeOK, IInv, [QueueNext]_queueVars
               PROVE  HandedOutOnce' /\ OfferedOnly'
    OBVIOUS
  <2>0. /\ tasks_ \in Seq(Tasks) /\ held \in [Workers -> Tasks \cup {NoTask}]
        /\ NoTask \notin Tasks
    BY QueueAssumption DEF QueueTypeOK
  <2>1. ASSUME NEW t \in Tasks, Push(t)
        PROVE  HandedOutOnce' /\ OfferedOnly'
    <3>1. t \notin offered /\ offered' = offered \cup {t} /\ held' = held
      BY <2>1 DEF Push
    <3>2. CASE tasks_' = Append(tasks_, t)
      <4>1. /\ Len(tasks_') = Len(tasks_) + 1
            /\ tasks_'[Len(tasks_) + 1] = t
            /\ \A i \in 1..Len(tasks_) : tasks_'[i] = tasks_[i]
        BY <2>0, <3>2
      <4>2. OfferedOnly'
        BY <2>0, <3>1, <4>1 DEF OfferedOnly
      <4>3. \A w \in Workers : held[w] # t
        BY <2>0, <3>1 DEF OfferedOnly
      <4>4. \A i \in 1..Len(tasks_) : tasks_[i] # t
        BY <3>1 DEF OfferedOnly
      <4> QED
        BY <2>0, <3>1, <4>1, <4>2, <4>3, <4>4 DEF HandedOutOnce
    <3>3. CASE tasks_' = tasks_
      BY <3>1, <3>3 DEF HandedOutOnce, OfferedOnly
    <3> QED
      BY <2>1, <3>2, <3>3 DEF Push
  <2>2. ASSUME NEW w \in Workers, CallPop(w)
        PROVE  HandedOutOnce' /\ OfferedOnly'
    BY <2>0, <2>2 DEF CallPop, HandedOutOnce, OfferedOnly
  <2>3. ASSUME NEW w \in Workers, Poll(w)
        PROVE  HandedOutOnce' /\ OfferedOnly'
    <3>1. CASE tasks_ # <<>> /\ tasks_' = Tail(tasks_) /\ held' = [held EXCEPT ![w] = Head(tasks_)]
      <4>1. /\ Len(tasks_') = Len(tasks_) - 1
            /\ \A i \in 1..Len(tasks_') : tasks_'[i] = tasks_[i + 1]
            /\ Head(tasks_) = tasks_[1]
            /\ Len(tasks_) \in Nat /\ Len(tasks_) > 0
        BY <2>0, <3>1
      <4>2. offered' = offered
        BY <2>3 DEF Poll
      <4>3. OfferedOnly'
        BY <2>0, <3>1, <4>1, <4>2 DEF OfferedOnly
      <4>4. held'[w] = tasks_[1] /\ \A v \in Workers : v # w => held'[v] = held[v]
        BY <2>0, <3>1, <4>1
      <4>5. \A v \in Workers, i \in 1..Len(tasks_') : held'[v] # tasks_'[i]
        BY <4>1, <4>4 DEF HandedOutOnce
      <4>6. \A u, v \in Workers : u # v /\ held'[u] # NoTask => held'[u] # held'[v]
        BY <4>1, <4>4 DEF HandedOutOnce
      <4>7. \A i, j \in 1..Len(tasks_') : i # j => tasks_'[i] # tasks_'[j]
        BY <4>1 DEF HandedOutOnce
      <4> QED
        BY <4>3, <4>5, <4>6, <4>7 DEF HandedOutOnce
    <3>2. CASE UNCHANGED <<tasks_, held>>
      BY <2>3, <3>2 DEF Poll, HandedOutOnce, OfferedOnly
    <3> QED
      BY <2>3, <3>1, <3>2 DEF Poll
  <2>4. ASSUME NEW w \in Workers, SpuriousWake(w)
        PROVE  HandedOutOnce' /\ OfferedOnly'
    BY <2>4 DEF SpuriousWake, HandedOutOnce, OfferedOnly
  <2>5. CASE UNCHANGED queueVars
    BY <2>5 DEF queueVars, HandedOutOnce, OfferedOnly
  <2> QED
    BY <2>1, <2>2, <2>3, <2>4, <2>5 DEF QueueNext
<1> QED
  BY <1>1, <1>2, QueueTypeCorrect, PTL DEF QueueSafeSpec

------------------------------------------------------------------------------
\* A worker inside pop runs no task.
FreeInPop == \A w \in Workers : popper[w] # "out" => held[w] = NoTask

LEMMA FreeInPopHolds == QueueSafeSpec => []FreeInPop
<1>1. QueueInit => FreeInPop
  BY DEF QueueInit, FreeInPop
<1>2. QueueTypeOK /\ FreeInPop /\ [QueueNext]_queueVars => FreeInPop'
  BY DEF QueueTypeOK, FreeInPop, QueueNext, queueVars, Push, NotifyOne, Waiting, CallPop, Poll,
         SpuriousWake
<1> QED
  BY <1>1, <1>2, QueueTypeCorrect, PTL DEF QueueSafeSpec

\* The mutex, the condition variable and the polling of the workers implement the
\* bounded channel: every step is a step of the channel or none.
THEOREM QueueImplementsChannel == QueueSafeSpec => Channel!SafeSpec
<1>1. QueueInit => Channel!Init
  BY DEF QueueInit, Channel!Init
<1>2. QueueTypeOK /\ FreeInPop /\ [QueueNext]_queueVars => [Channel!Next]_(Channel!vars)
  <2> SUFFICES ASSUME QueueTypeOK, FreeInPop, [QueueNext]_queueVars
               PROVE  Channel!Next \/ UNCHANGED Channel!vars
    OBVIOUS
  <2>0. /\ tasks_ \in Seq(Tasks) /\ Len(tasks_) \in Nat /\ MaxSize \in Nat
        /\ held \in [Workers -> Tasks \cup {NoTask}]
    BY QueueAssumption DEF QueueTypeOK
  <2>1. ASSUME NEW t \in Tasks, Push(t)
        PROVE  Channel!Next
    <3>1. Channel!Offer(t)
      BY <2>0, <2>1 DEF Push, Channel!Offer
    <3> QED
      BY <3>1 DEF Channel!Next
  <2>2. ASSUME NEW w \in Workers, CallPop(w)
        PROVE  Channel!Next \/ UNCHANGED Channel!vars
    <3>1. CASE held[w] = NoTask
      BY <2>0, <2>2, <3>1 DEF CallPop, Channel!vars
    <3>2. CASE held[w] # NoTask
      <4>1. Channel!Release(w)
        BY <2>2, <3>2 DEF CallPop, Channel!Release
      <4> QED
        BY <4>1 DEF Channel!Next
    <3> QED
      BY <3>1, <3>2
  <2>3. ASSUME NEW w \in Workers, Poll(w)
        PROVE  Channel!Next \/ UNCHANGED Channel!vars
    <3>1. CASE tasks_ # <<>>
      <4>1. held[w] = NoTask
        BY <2>3 DEF Poll, FreeInPop
      <4>2. Channel!Take(w)
        BY <2>3, <3>1, <4>1 DEF Poll, Channel!Take
      <4> QED
        BY <4>2 DEF Channel!Next
    <3>2. CASE tasks_ = <<>>
      BY <2>3, <3>2 DEF Poll, Channel!vars
    <3> QED
      BY <3>1, <3>2
  <2>4. ASSUME NEW w \in Workers, SpuriousWake(w)
        PROVE  UNCHANGED Channel!vars
    BY <2>4 DEF SpuriousWake, Channel!vars
  <2>5. CASE UNCHANGED queueVars
    BY <2>5 DEF queueVars, Channel!vars
  <2> QED
    BY <2>1, <2>2, <2>3, <2>4, <2>5 DEF QueueNext
<1> QED
  BY <1>1, <1>2, QueueTypeCorrect, FreeInPopHolds, PTL DEF QueueSafeSpec, Channel!SafeSpec
==============================================================================
