----------------------------- MODULE QueueProofs -----------------------------
(***************************************************************************)
(* Theorems about threadsafe_queue with any finite set of threads and any  *)
(* values: QInv is inductive, one step per action, and with it every step  *)
(* of the queue is a step of Fifo or leaves it alone.                      *)
(***************************************************************************)
EXTENDS QueueClients, TLAPS, FiniteSetTheorems

\* The threads NoLostWakeup counts: they will look at the queue again.
Alert == WokenThreads \cup {t \in Threads : op[t] = "popping" /\ mtx = t}

\* Appending, and moving the front of a sequence to the end of another.
LEMMA Appended ==
    ASSUME NEW S, NEW q \in Seq(S), NEW e \in S
    PROVE  /\ Append(q, e) \in Seq(S)
           /\ Len(q) \in Nat /\ Len(Append(q, e)) = Len(q) + 1
OBVIOUS

LEMMA FrontOfConcat ==
    ASSUME NEW S, NEW p \in Seq(S), NEW q \in Seq(S), q # <<>>
    PROVE  /\ p \o q = Append(p, Head(q)) \o Tail(q)
           /\ Head(q) \in S /\ Tail(q) \in Seq(S) /\ Append(p, Head(q)) \in Seq(S)
           /\ Len(p) < Len(p \o q)
           /\ (p \o q)[Len(p) + 1] = Head(q)
           /\ Len(q) \in Nat /\ Len(Tail(q)) = Len(q) - 1
OBVIOUS

\* Alert is a finite set.
LEMMA AlertIsFinite ==
    /\ Alert \subseteq Threads
    /\ IsFiniteSet(Alert)
    /\ Cardinality(Alert) \in Nat
<1>1. Alert \subseteq Threads
  BY DEF Alert, WokenThreads
<1>2. QED
  BY <1>1, ThreadsAreFinite, FS_Subset, FS_CardinalityType

\* NoLostWakeup, in terms of Alert.
LEMMA WakeupsByAlert == NoLostWakeup <=> (cv # {} => Len(queue) <= Cardinality(Alert))
BY DEF NoLostWakeup, Alert

\* A larger Alert set is enough for as long a queue.
LEMMA AlertGrows ==
    ASSUME NEW A, NEW B, A \subseteq B, B \subseteq Threads
    PROVE  /\ Cardinality(A) \in Nat /\ Cardinality(B) \in Nat
           /\ Cardinality(A) <= Cardinality(B)
<1>1. IsFiniteSet(B)
  BY ThreadsAreFinite, FS_Subset
<1>2. QED
  BY <1>1, FS_Subset, FS_CardinalityType

LEMMA AlertPlusOne ==
    ASSUME NEW A, A \subseteq Threads, NEW t \in Threads, t \notin A
    PROVE  /\ Cardinality(A) \in Nat
           /\ Cardinality(A \cup {t}) = Cardinality(A) + 1
<1>1. IsFiniteSet(A)
  BY ThreadsAreFinite, FS_Subset
<1>2. QED
  BY <1>1, FS_AddElement, FS_CardinalityType

LEMMA AlertMinusOne ==
    ASSUME NEW A, A \subseteq Threads, NEW t \in A
    PROVE  /\ Cardinality(A) \in Nat
           /\ Cardinality(A \ {t}) = Cardinality(A) - 1
<1>1. IsFiniteSet(A)
  BY ThreadsAreFinite, FS_Subset
<1>2. QED
  BY <1>1, FS_RemoveElement, FS_CardinalityType

-----------------------------------------------------------------------------
\* The initial states satisfy QInv.
LEMMA QueueInitial == ClientsInit => QInv
<1> SUFFICES ASSUME ClientsInit PROVE QInv
  OBVIOUS
<1> USE DEF ClientsInit, QueueInit
<1>1. QueueTypeOK
  BY DEF QueueTypeOK, Ops
<1>2. Carried /\ MutualExclusion /\ NoLostWakeup
  BY QueueConstants DEF Carried, MutualExclusion, InCriticalSection, NoLostWakeup
<1>3. Conservation /\ pushed \in Seq(Values) /\ popped \in Seq(Values)
  BY DEF Conservation
<1>4. QED
  BY <1>1, <1>2, <1>3 DEF QInv

\* A call changes neither the queue nor the mutex.
LEMMA CallStep ==
    ASSUME QInv, NEW t \in Threads, Calling(t)
    PROVE  QInv'
<1>1. PICK o \in {"push", "pop", "try"}, v \in Values \cup {NoValue} :
          Call(t, o, v) /\ (o = "push" <=> v # NoValue)
  BY QueueConstants DEF Calling, CallPush, CallWaitAndPop, CallTryPop
<1>2. UNCHANGED <<queue, mtx, cv, pushed, popped>>
  BY <1>1 DEF Calling, Call
<1> USE <1>1, <1>2 DEF Call
<1>3. QueueTypeOK'
  BY DEF QInv, QueueTypeOK, Ops
<1>4. Carried'
  BY DEF QInv, Carried, QueueTypeOK
<1>5. MutualExclusion'
  BY DEF QInv, MutualExclusion, InCriticalSection, QueueTypeOK
<1>6. Alert' = Alert
  BY DEF QInv, QueueTypeOK, Alert, WokenThreads, Woken
<1>7. NoLostWakeup'
  BY <1>6, WakeupsByAlert DEF QInv, NoLostWakeup, Alert
<1>8. QED
  BY <1>3, <1>4, <1>5, <1>7 DEF QInv, Conservation

\* Taking the mutex: a woken or arriving consumer is alert with the mutex too.
LEMMA LockStep ==
    ASSUME QInv, NEW t \in Threads, Lock(t), UNCHANGED <<pushed, popped>>
    PROVE  QInv'
<1> USE DEF Lock
<1>1. Locked(t) \in {"pushing", "popping", "trying"}
  BY DEF Locked
<1>2. QueueTypeOK'
  BY <1>1 DEF QInv, QueueTypeOK, Ops
<1>3. Carried'
  <2>1. t \notin cv
    BY DEF QInv, Carried, Woken
  <2>2. \A u \in cv' : op'[u] = "wait"
    BY <2>1 DEF QInv, Carried, QueueTypeOK
  <2>3. /\ op[t] = "push" => Locked(t) = "pushing"
        /\ op[t] = "try" => Locked(t) = "trying"
        /\ op[t] \notin {"push", "try"} => Locked(t) = "popping" /\ op[t] \in {"pop", "wait"}
    BY DEF Locked, Woken
  <2>4. QED
    BY <2>2, <2>3 DEF QInv, Carried, QueueTypeOK
<1>4. MutualExclusion'
  <2>1. InCriticalSection = {}
    BY DEF QInv, MutualExclusion
  <2>2. InCriticalSection' = {t}
    BY <1>1, <2>1 DEF QInv, InCriticalSection, QueueTypeOK
  <2>3. QED
    BY <2>2, QueueConstants DEF MutualExclusion
<1>5. NoLostWakeup'
  <2>1. Alert \subseteq Alert'
    BY QueueConstants DEF QInv, QueueTypeOK, Alert, WokenThreads, Woken, Locked
  <2>2. Alert' \subseteq Threads
    BY DEF Alert, WokenThreads
  <2>3. Cardinality(Alert) <= Cardinality(Alert') /\ Cardinality(Alert) \in Nat /\ Cardinality(Alert') \in Nat
    BY <2>1, <2>2, AlertGrows
  <2>4. Len(queue) \in Nat
    BY DEF QInv, QueueTypeOK
  <2>5. cv' # {} => Len(queue') <= Cardinality(Alert')
    BY <2>3, <2>4, WakeupsByAlert DEF QInv
  <2>6. QED
    BY <2>5 DEF NoLostWakeup, Alert
<1>6. QED
  BY <1>2, <1>3, <1>4, <1>5 DEF QInv, Conservation

\* Leaving the critical section by Return(t), which held the mutex.
LEMMA Returned ==
    ASSUME QueueTypeOK, MutualExclusion, NEW t \in Threads,
           op[t] \in {"pushing", "popping", "trying"}, Return(t)
    PROVE  mtx = t /\ MutualExclusion'
<1>1. mtx = t /\ InCriticalSection = {t}
  BY DEF MutualExclusion, InCriticalSection
<1>2. InCriticalSection' = {}
  BY <1>1 DEF Return, InCriticalSection, QueueTypeOK
<1>3. QED
  BY <1>1, <1>2 DEF MutualExclusion, Return

\* Blocking on an empty queue.
LEMMA WaitStep ==
    ASSUME QInv, NEW t \in Threads, Wait(t), UNCHANGED <<pushed, popped>>
    PROVE  QInv'
<1> USE DEF Wait
<1>1. QueueTypeOK'
  BY DEF QInv, QueueTypeOK, Ops
<1>2. Carried'
  BY DEF QInv, Carried, QueueTypeOK
<1>3. MutualExclusion'
  <2>1. InCriticalSection = {t}
    BY DEF QInv, MutualExclusion, InCriticalSection
  <2>2. InCriticalSection' = {}
    BY <2>1 DEF QInv, InCriticalSection, QueueTypeOK
  <2>3. QED
    BY <2>2 DEF MutualExclusion
<1>4. NoLostWakeup'
  <2>1. Len(queue') = 0
    OBVIOUS
  <2>2. Alert' \subseteq Threads
    BY DEF Alert, WokenThreads
  <2>3. Cardinality(Alert') \in Nat
    BY <2>2, AlertGrows
  <2>4. QED
    BY <2>1, <2>3 DEF NoLostWakeup, Alert
<1>5. QED
  BY <1>1, <1>2, <1>3, <1>4 DEF QInv, Conservation

\* A waiter that is woken for no reason is one more that is alert.
LEMMA SpuriousStep ==
    ASSUME QInv, NEW t \in Threads, SpuriousWake(t), UNCHANGED <<pushed, popped>>
    PROVE  QInv'
<1> USE DEF SpuriousWake
<1>1. QueueTypeOK' /\ Carried' /\ MutualExclusion'
  BY DEF QInv, QueueTypeOK, Carried, MutualExclusion, InCriticalSection
<1>2. NoLostWakeup'
  <2>1. Alert \subseteq Alert' /\ Alert' \subseteq Threads
    BY DEF Alert, WokenThreads, Woken
  <2>2. Cardinality(Alert) <= Cardinality(Alert') /\ Cardinality(Alert) \in Nat /\ Cardinality(Alert') \in Nat
    BY <2>1, AlertGrows
  <2>3. Len(queue) \in Nat
    BY DEF QInv, QueueTypeOK
  <2>4. cv' # {} => Len(queue') <= Cardinality(Alert')
    BY <2>2, <2>3, WakeupsByAlert DEF QInv
  <2>5. QED
    BY <2>4 DEF NoLostWakeup, Alert
<1>3. QED
  BY <1>1, <1>2 DEF QInv, Conservation

\* push: one element more, and one waiter woken if there is any.
LEMMA PushStep ==
    ASSUME QInv, NEW t \in Threads, Pushing(t)
    PROVE  QInv'
<1> USE DEF Pushing, Push
<1>1. val[t] \in Values
  BY DEF QInv, Carried
<1>2. /\ Append(popped \o queue, val[t]) = popped \o queue'
      /\ queue' \in Seq(Values) /\ pushed' \in Seq(Values)
      /\ Len(queue) \in Nat /\ Len(queue') = Len(queue) + 1
  <2>1. queue \in Seq(Values) /\ popped \in Seq(Values) /\ pushed \in Seq(Values)
    BY DEF QInv, QueueTypeOK
  <2>2. queue' = Append(queue, val[t]) /\ pushed' = Append(pushed, val[t])
    OBVIOUS
  <2>3. pushed' \in Seq(Values)
    BY <1>1, <2>1, <2>2, Appended
  <2>4. Append(popped \o queue, val[t]) = popped \o Append(queue, val[t])
    <3> HIDE DEF Pushing, Push
    <3>1. ASSUME NEW p \in Seq(Values), NEW q \in Seq(Values), NEW e \in Values
          PROVE  Append(p \o q, e) = p \o Append(q, e)
      OBVIOUS
    <3>2. QED
      BY <1>1, <2>1, <3>1
  <2>5. /\ Append(queue, val[t]) \in Seq(Values)
        /\ Len(queue) \in Nat /\ Len(Append(queue, val[t])) = Len(queue) + 1
    BY <1>1, <2>1, Appended
  <2>6. QED
    BY <2>2, <2>3, <2>4, <2>5
<1>3. cv' \subseteq cv
  BY DEF NotifyOne
<1>4. t \notin cv
  BY DEF QInv, Carried
<1>5. QueueTypeOK'
  BY <1>2, <1>3 DEF QInv, QueueTypeOK, Ops, Return
<1>6. Carried'
  BY <1>3, <1>4 DEF QInv, Carried, QueueTypeOK, Return
<1>7. mtx = t /\ MutualExclusion'
  BY Returned DEF QInv
<1>8. NoLostWakeup'
  <2>1. SUFFICES ASSUME cv' # {} PROVE Len(queue') <= Cardinality(Alert')
    BY DEF NoLostWakeup, Alert
  <2>2. PICK w \in cv : cv' = cv \ {w}
    BY <2>1 DEF NotifyOne
  <2>3. w \in Threads /\ op[w] = "wait" /\ w # t
    BY <1>4 DEF QInv, Carried, QueueTypeOK
  <2>4. w \notin Alert
    BY <2>2, <2>3 DEF Alert, WokenThreads, Woken
  <2>5. Alert' = Alert \cup {w}
    BY <1>7, <2>2, <2>3, QueueConstants DEF QInv, QueueTypeOK, Alert, WokenThreads, Woken, Return
  <2>6. Cardinality(Alert') = Cardinality(Alert) + 1 /\ Cardinality(Alert) \in Nat
    BY <2>3, <2>4, <2>5, AlertIsFinite, AlertPlusOne
  <2>7. Len(queue) <= Cardinality(Alert)
    BY <2>2, WakeupsByAlert DEF QInv
  <2>8. QED
    BY <1>2, <2>6, <2>7
<1>9. QED
  BY <1>2, <1>5, <1>6, <1>7, <1>8 DEF QInv, Conservation

\* What the two pops do when there is an element: it goes from the queue's
\* front to the caller, who stops being alert.
LEMMA TakeStep ==
    ASSUME QInv, NEW t \in Threads, op[t] \in {"popping", "trying"}, TakeFront(t),
           popped' = Append(popped, Head(queue)), pushed' = pushed
    PROVE  QInv'
<1> USE DEF TakeFront
<1>1. /\ popped \o queue = popped' \o queue'
      /\ Head(queue) \in Values /\ queue' \in Seq(Values) /\ popped' \in Seq(Values)
      /\ Len(queue) \in Nat /\ Len(queue') = Len(queue) - 1
  BY FrontOfConcat DEF QInv, QueueTypeOK
<1>2. QueueTypeOK'
  BY <1>1 DEF QInv, QueueTypeOK, Ops, Return
<1>3. Carried'
  BY DEF QInv, Carried, QueueTypeOK, Return
<1>4. mtx = t /\ MutualExclusion'
  BY Returned DEF QInv
<1>5. NoLostWakeup'
  <2>1. Alert' = Alert \ {t} /\ (t \in Alert <=> op[t] = "popping")
    BY <1>4, QueueConstants DEF QInv, QueueTypeOK, Alert, WokenThreads, Woken, Return
  <2>2. CASE op[t] = "popping"
    <3>1. Cardinality(Alert') = Cardinality(Alert) - 1 /\ Cardinality(Alert) \in Nat
      BY <2>1, <2>2, AlertIsFinite, AlertMinusOne
    <3>2. cv' # {} => Len(queue') <= Cardinality(Alert')
      BY <1>1, <3>1, WakeupsByAlert DEF QInv
    <3>3. QED
      BY <3>2 DEF NoLostWakeup, Alert
  <2>3. CASE op[t] # "popping"
    <3>1. Alert' = Alert /\ Cardinality(Alert) \in Nat
      BY <2>1, <2>3, AlertIsFinite
    <3>2. cv' # {} => Len(queue') <= Cardinality(Alert')
      BY <1>1, <3>1, WakeupsByAlert DEF QInv
    <3>3. QED
      BY <3>2 DEF NoLostWakeup, Alert
  <2>4. QED
    BY <2>2, <2>3
<1>6. QED
  BY <1>1, <1>2, <1>3, <1>4, <1>5 DEF QInv, Conservation

\* wait_and_pop and try_pop: TakeStep, or nothing but the return of try_pop.
LEMMA PopStep ==
    ASSUME QInv, NEW t \in Threads, Popping(t)
    PROVE  QInv'
<1>1. pushed' = pushed
  BY DEF Popping
<1>2. CASE op[t] \in {"popping", "trying"} /\ TakeFront(t)
  <2>1. val'[t] = Head(queue) /\ Head(queue) \in Values
    BY <1>2 DEF QInv, QueueTypeOK, TakeFront
  <2>2. popped' = Append(popped, Head(queue))
    BY <2>1, QueueConstants DEF Popping
  <2>3. QED
    BY <1>1, <1>2, <2>2, TakeStep
<1>3. CASE op[t] = "trying" /\ queue = <<>> /\ Return(t) /\ UNCHANGED <<queue, cv, val>>
  <2>1. popped' = popped
    BY <1>3 DEF Popping, QInv, Carried
  <2>2. QueueTypeOK' /\ Carried'
    BY <1>3 DEF QInv, QueueTypeOK, Ops, Carried, Return
  <2>3. MutualExclusion'
    BY <1>3, Returned DEF QInv
  <2>4. NoLostWakeup'
    <3>1. Alert' \subseteq Threads
      BY DEF Alert, WokenThreads
    <3>2. Cardinality(Alert') \in Nat
      BY <3>1, AlertGrows
    <3>3. QED
      BY <1>3, <3>2 DEF NoLostWakeup, Alert
  <2>5. QED
    BY <1>1, <1>3, <2>1, <2>2, <2>3, <2>4 DEF QInv, Conservation
<1>4. QED
  BY <1>2, <1>3 DEF Popping, WaitAndPop, TryPop

\* A step that changes nothing.
LEMMA QueueStutters ==
    ASSUME QInv, UNCHANGED clientsVars
    PROVE  QInv'
<1> USE DEF clientsVars
<1>1. QueueTypeOK' /\ Carried' /\ MutualExclusion' /\ Conservation'
  BY DEF QInv, QueueTypeOK, Carried, MutualExclusion, InCriticalSection, Conservation
<1>2. NoLostWakeup'
  BY DEF QInv, NoLostWakeup, WokenThreads, Woken
<1>3. QED
  BY <1>1, <1>2 DEF QInv

LEMMA QueueInductive == QInv /\ [ClientsNext]_clientsVars => QInv'
<1> SUFFICES ASSUME QInv, [ClientsNext]_clientsVars PROVE QInv'
  OBVIOUS
<1>1. ASSUME NEW t \in Threads, Calling(t) PROVE QInv'
  BY <1>1, CallStep
<1>2. ASSUME NEW t \in Threads, Pushing(t) PROVE QInv'
  BY <1>2, PushStep
<1>3. ASSUME NEW t \in Threads, Popping(t) PROVE QInv'
  BY <1>3, PopStep
<1>4. ASSUME NEW t \in Threads, Blocking(t) PROVE QInv'
  BY <1>4, LockStep, WaitStep, SpuriousStep DEF Blocking
<1>5. CASE UNCHANGED clientsVars
  BY <1>5, QueueStutters
<1>6. QED
  BY <1>1, <1>2, <1>3, <1>4, <1>5 DEF ClientsNext

(* QInv holds throughout: the lock, the wakeups, what is in the queue and  *)
(* what each thread carries into push or out of a pop fit together.        *)
THEOREM QueueInvariant == ClientsSpec => []QInv
BY QueueInitial, QueueInductive, PTL DEF ClientsSpec

-----------------------------------------------------------------------------
(* queue_, mtx_, cv_ and the threads' places in the operations are what    *)
(* the code takes them for.                                                *)
THEOREM QueueTypes == ClientsSpec => []QueueTypeOK
<1>1. QInv => QueueTypeOK
  BY DEF QInv
<1>2. QED
  BY <1>1, QueueInvariant, PTL

(* Only the holder of mtx_ is inside a critical section.                   *)
THEOREM ExclusiveAccess == ClientsSpec => []MutualExclusion
<1>1. QInv => MutualExclusion
  BY DEF QInv
<1>2. QED
  BY <1>1, QueueInvariant, PTL

(* push's notify_one and the loop of cv_.wait leave no element behind with *)
(* every consumer asleep.                                                  *)
THEOREM NoWakeupIsLost == ClientsSpec => []NoLostWakeup
<1>1. QInv => NoLostWakeup
  BY DEF QInv
<1>2. QED
  BY <1>1, QueueInvariant, PTL

(* Nothing vanishes between push and pop, and nothing is popped twice.     *)
THEOREM ElementsAreConserved == ClientsSpec => []Conservation
<1>1. QInv => Conservation
  BY DEF QInv
<1>2. QED
  BY <1>1, QueueInvariant, PTL

\* A step of the queue is a step of the FIFO, or leaves it alone.
LEMMA FifoStep == QInv /\ [ClientsNext]_clientsVars => [F!Next]_<<pushed, popped>>
<1> SUFFICES ASSUME QInv, [ClientsNext]_clientsVars PROVE [F!Next]_<<pushed, popped>>
  OBVIOUS
<1>1. ASSUME NEW t \in Threads, Pushing(t) PROVE F!Put
  <2>1. val[t] \in Values
    BY <1>1 DEF QInv, Carried, Pushing, Push
  <2>2. QED
    BY <1>1, <2>1 DEF Pushing, F!Put
<1>2. ASSUME NEW t \in Threads, Popping(t) PROVE F!Get \/ UNCHANGED <<pushed, popped>>
  <2>1. CASE TakeFront(t)
    <3>1. queue \in Seq(Values) /\ popped \in Seq(Values) /\ pushed = popped \o queue
      BY DEF QInv, QueueTypeOK, Conservation
    <3>2. queue # <<>> /\ val'[t] = Head(queue)
      BY <2>1 DEF TakeFront, QInv, QueueTypeOK
    <3>3. Len(popped) < Len(pushed) /\ pushed[Len(popped) + 1] = Head(queue) /\ Head(queue) \in Values
      BY <3>1, <3>2, FrontOfConcat
    <3>4. popped' = Append(popped, Head(queue)) /\ UNCHANGED pushed
      BY <1>2, <3>2, <3>3, QueueConstants DEF Popping
    <3>5. QED
      BY <3>3, <3>4 DEF F!Get
  <2>2. CASE op[t] = "trying" /\ UNCHANGED val
    BY <1>2, <2>2 DEF Popping, QInv, Carried
  <2>3. QED
    BY <1>2, <2>1, <2>2 DEF Popping, WaitAndPop, TryPop
<1>3. ASSUME NEW t \in Threads, Calling(t) \/ Blocking(t) PROVE UNCHANGED <<pushed, popped>>
  BY <1>3 DEF Calling, Blocking
<1>4. CASE UNCHANGED clientsVars
  BY <1>4 DEF clientsVars
<1>5. QED
  BY <1>1, <1>2, <1>3, <1>4 DEF ClientsNext, F!Next

(* threadsafe_queue implements the FIFO: whatever the threads and their    *)
(* interleaving, elements come out once each and in the order of push.     *)
THEOREM QueueIsFifo == ClientsSpec => ImplementsFifo
<1>1. ClientsInit => F!Init
  BY DEF ClientsInit, F!Init
<1>2. QED
  BY <1>1, FifoStep, QueueInvariant, PTL DEF ClientsSpec, ImplementsFifo, F!Spec, F!fifoVars
=============================================================================
