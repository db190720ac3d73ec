------------------------- MODULE ActiveObjectProofs -------------------------
(***************************************************************************)
(* Theorems about ActiveObject, for every finite set of senders, every     *)
(* number of tasks and every interleaving.  IInv is inductive (Inductive), *)
(* one step per action; the safety properties follow from it.              *)
(***************************************************************************)
EXTENDS ActiveObject, TLAPS, FiniteSetTheorems

\* What is used of the constants, in the form the provers use it.
LEMMA Constants ==
    /\ Owner \in Threads /\ Owner \in Senders
    /\ Worker \in Threads /\ Senders \subseteq Threads
    /\ Threads = Senders \cup {Worker}
    /\ Worker \notin Senders
    /\ NoThread \notin Threads
    /\ Done \in Values /\ Tasks \subseteq Values /\ Done \notin Tasks
    /\ Tasks = Senders \X (1..Sends) /\ Values = Tasks \cup {Done}
    /\ NoValue \notin Values
    /\ Sends \in Nat
BY QueueConstants, ActiveConstants DEF Tasks

\* A value other than Done is a sender's numbered task.
LEMMA TaskOf ==
    ASSUME NEW v \in Values, v # Done
    PROVE  /\ v = <<v[1], v[2]>>
           /\ v[1] \in Senders
           /\ v[2] \in 1..Sends
BY ActiveConstants

\* Appending to a sequence: what the pushes and the stores do to the log.
LEMMA AppendFacts ==
    ASSUME NEW S, NEW q \in Seq(S), NEW e \in S
    PROVE  /\ Append(q, e) \in Seq(S)
           /\ Len(Append(q, e)) = Len(q) + 1
           /\ Append(q, e)[Len(q) + 1] = e
           /\ \A i \in 1..Len(q) : Append(q, e)[i] = q[i]
           /\ \A i \in 1..Len(Append(q, e)) : i \in 1..Len(q) \/ i = Len(q) + 1
OBVIOUS

\* Removing the front of a sequence: what the pops do to the queue.
LEMMA TailFacts ==
    ASSUME NEW S, NEW q \in Seq(S), q # <<>>
    PROVE  /\ Head(q) \in S /\ Head(q) = q[1]
           /\ Tail(q) \in Seq(S)
           /\ Len(q) \in Nat /\ Len(q) > 0
           /\ Len(Tail(q)) = Len(q) - 1
           /\ \A i \in 1..Len(Tail(q)) : Tail(q)[i] = q[i + 1]
OBVIOUS

\* A step that accepts nothing and leaves the log alone keeps its shape.
LEMMA PostedFrame ==
    ASSUME TypeOK, PostedShape, posted' = posted,
           \A s \in Senders : Accepted(s)' = Accepted(s)
    PROVE  PostedShape'
BY DEF PostedShape

\* How many entries of the log the worker has handled is a number.
LEMMA HandledNat ==
    ASSUME TypeOK
    PROVE  Len(received) \in Nat /\ Handled \in Nat /\ Handled >= Len(received)
<1>1. Len(received) \in Nat
  BY DEF TypeOK
<1>2. CASE done
  BY <1>1, <1>2 DEF Handled
<1>3. CASE ~done
  BY <1>1, <1>3 DEF Handled
<1>4. QED BY <1>2, <1>3

\* In the critical section of push the argument is a value, and before the
\* destructor's push ends there is no Done in the log.
LEMMA Argument ==
    ASSUME IInv, NEW t \in Threads, op[t] = "pushing"
    PROVE  /\ t \in Senders /\ val[t] \in Values
           /\ ~done
           /\ \A i \in 1..Len(posted) : posted[i] # Done
<1> USE Constants
<1>1. t \in Senders
  BY DEF IInv, ThreadShape
<1>2. CASE t = Owner /\ life = "dying"
  <2>1. val[t] = Done
    BY <1>1, <1>2 DEF IInv, SendShape, InPush
  <2>2. \A i \in 1..Len(posted) : posted[i] # Done
    BY <1>2 DEF IInv, DoneShape
  <2>3. ~done
    BY <2>2 DEF IInv, DoneShape, TypeOK
  <2>4. QED BY <1>1, <2>1, <2>2, <2>3
<1>3. CASE ~(t = Owner /\ life = "dying")
  <2>1. val[t] = <<t, sent[t]>> /\ sent[t] \in 1..Sends
    BY <1>1, <1>3 DEF IInv, SendShape, InPush, TypeOK
  <2>2. val[t] \in Values
    BY <1>1, <2>1
  <2>3. life \in {"sending", "dying"} /\ (life = "dying" => t # Owner)
    BY <1>1, <1>3 DEF IInv, SendShape, TypeOK
  <2>4. life = "sending"
    BY <1>1, <2>3 DEF IInv, SendShape
  <2>5. \A i \in 1..Len(posted) : posted[i] # Done
    BY <2>4 DEF IInv, DoneShape
  <2>6. ~done
    BY <2>5 DEF IInv, DoneShape, TypeOK
  <2>7. QED BY <1>1, <2>2, <2>5, <2>6
<1>4. QED BY <1>2, <1>3

\* While a callback runs, it is the log's entry just handled.
LEMMA Callback ==
    ASSUME IInv, running = "calling"
    PROVE  /\ ~done
           /\ Handled = Len(received) + 1
           /\ Handled \in 1..Len(posted)
           /\ val[Worker] = posted[Handled] /\ val[Worker] \in Values
<1>1. ~done
  BY DEF IInv, DoneShape
<1>2. Handled = Len(received) + 1 /\ Handled \in 1..Len(posted)
  BY <1>1 DEF IInv, LogShape, Handled, TypeOK, QueueTypeOK
<1>3. QED
  BY <1>1, <1>2 DEF IInv, LogShape, TypeOK

\* The initial states satisfy the inductive invariant.
LEMMA Initial == Init => IInv
<1> SUFFICES ASSUME Init PROVE IInv
  OBVIOUS
<1> USE Constants DEF Init, QueueInit
<1>7. queue \in Seq(Values) /\ received \in Seq(Tasks) /\ posted \in Seq(Values)
  OBVIOUS
<1>1. TypeOK
  <2>1. QueueTypeOK
    BY <1>7 DEF QueueTypeOK, Ops
  <2>2. sent \in [Senders -> 0..Sends]
    OBVIOUS
  <2>3. QED BY <1>7, <2>1, <2>2 DEF TypeOK
<1>2. MutualExclusion
  BY DEF MutualExclusion, InCriticalSection
<1>3. ThreadShape /\ SendShape
  BY DEF ThreadShape, SendShape, InPush
<1>4. LogShape /\ DoneShape
  BY DEF LogShape, Handled, DoneShape
<1>5. PostedShape
  BY DEF PostedShape, Accepted, InPush
<1>6. QED BY <1>1, <1>2, <1>3, <1>4, <1>5 DEF IInv

\* IInv is inductive.
LEMMA Inductive == IInv /\ [Next]_vars => IInv'
<1> SUFFICES ASSUME IInv, [Next]_vars PROVE IInv'
  OBVIOUS
<1> USE Constants
<1>1. CASE Create
  <2>1. TypeOK'
    BY <1>1 DEF IInv, Create, queueVars, TypeOK, QueueTypeOK, Ops
  <2>2. MutualExclusion'
    BY <1>1 DEF IInv, Create, queueVars, MutualExclusion, InCriticalSection, TypeOK, QueueTypeOK, Ops
  <2>3. ThreadShape' /\ SendShape'
    BY <1>1 DEF IInv, Create, queueVars, ThreadShape, SendShape, InPush, TypeOK, QueueTypeOK, Ops
  <2>4. LogShape' /\ DoneShape'
    BY <1>1 DEF IInv, Create, queueVars, LogShape, Handled, DoneShape, ThreadShape, TypeOK, QueueTypeOK, Ops
  <2>5. \A u \in Senders : Accepted(u)' = Accepted(u)
    BY <1>1 DEF IInv, Create, queueVars, Accepted, InPush, SendShape, ThreadShape, TypeOK, QueueTypeOK, Ops
  <2>6. PostedShape'
    BY <1>1, <2>5, PostedFrame DEF IInv, Create, queueVars
  <2>7. QED BY <2>1, <2>2, <2>3, <2>4, <2>6 DEF IInv
<1>2. CASE PrintProgress
  <2>1. TypeOK'
    BY <1>2 DEF IInv, PrintProgress, Finished, queueVars, TypeOK, QueueTypeOK, Ops
  <2>2. MutualExclusion'
    BY <1>2 DEF IInv, PrintProgress, Finished, queueVars, MutualExclusion, InCriticalSection, TypeOK, QueueTypeOK, Ops
  <2>3. ThreadShape' /\ SendShape'
    BY <1>2 DEF IInv, PrintProgress, Finished, queueVars, ThreadShape, SendShape, InPush, TypeOK, QueueTypeOK, Ops
  <2>4. LogShape' /\ DoneShape'
    BY <1>2 DEF IInv, PrintProgress, Finished, queueVars, LogShape, Handled, DoneShape, ThreadShape, TypeOK, QueueTypeOK, Ops
  <2>5. \A u \in Senders : Accepted(u)' = Accepted(u)
    BY <1>2 DEF IInv, PrintProgress, Finished, queueVars, Accepted, InPush, SendShape, ThreadShape, TypeOK, QueueTypeOK, Ops
  <2>6. PostedShape'
    BY <1>2, <2>5, PostedFrame DEF IInv, PrintProgress, Finished, queueVars
  <2>7. QED BY <2>1, <2>2, <2>3, <2>4, <2>6 DEF IInv
<1>3. CASE Destroy
  <2>1. TypeOK'
    BY <1>3 DEF IInv, Destroy, CallPush, Call, TypeOK, QueueTypeOK, Ops
  <2>2. MutualExclusion'
    BY <1>3 DEF IInv, Destroy, CallPush, Call, MutualExclusion, InCriticalSection, TypeOK, QueueTypeOK, Ops
  <2>3. ThreadShape' /\ SendShape'
    BY <1>3 DEF IInv, Destroy, CallPush, Call, ThreadShape, SendShape, InPush, TypeOK, QueueTypeOK, Ops
  <2>4. LogShape' /\ DoneShape'
    BY <1>3 DEF IInv, Destroy, CallPush, Call, LogShape, Handled, DoneShape, ThreadShape, TypeOK, QueueTypeOK, Ops
  <2>5. \A u \in Senders : Accepted(u)' = Accepted(u)
    BY <1>3 DEF IInv, Destroy, CallPush, Call, Accepted, InPush, SendShape, ThreadShape, TypeOK, QueueTypeOK, Ops
  <2>6. PostedShape'
    BY <1>3, <2>5, PostedFrame DEF IInv, Destroy, CallPush, Call
  <2>7. QED BY <2>1, <2>2, <2>3, <2>4, <2>6 DEF IInv
<1>4. CASE Join
  <2>1. TypeOK'
    BY <1>4 DEF IInv, Join, queueVars, TypeOK, QueueTypeOK, Ops
  <2>2. MutualExclusion'
    BY <1>4 DEF IInv, Join, queueVars, MutualExclusion, InCriticalSection, TypeOK, QueueTypeOK, Ops
  <2>3. ThreadShape' /\ SendShape'
    BY <1>4 DEF IInv, Join, queueVars, ThreadShape, SendShape, InPush, TypeOK, QueueTypeOK, Ops
  <2>4. LogShape' /\ DoneShape'
    BY <1>4 DEF IInv, Join, queueVars, LogShape, Handled, DoneShape, ThreadShape, TypeOK, QueueTypeOK, Ops
  <2>5. \A u \in Senders : Accepted(u)' = Accepted(u)
    BY <1>4 DEF IInv, Join, queueVars, Accepted, InPush, SendShape, ThreadShape, TypeOK, QueueTypeOK, Ops
  <2>6. PostedShape'
    BY <1>4, <2>5, PostedFrame DEF IInv, Join, queueVars
  <2>7. QED BY <2>1, <2>2, <2>3, <2>4, <2>6 DEF IInv
<1>5. CASE Joined
  <2>1. TypeOK'
    BY <1>5 DEF IInv, Joined, queueVars, TypeOK, QueueTypeOK, Ops
  <2>2. MutualExclusion'
    BY <1>5 DEF IInv, Joined, queueVars, MutualExclusion, InCriticalSection, TypeOK, QueueTypeOK, Ops
  <2>3. ThreadShape' /\ SendShape'
    BY <1>5 DEF IInv, Joined, queueVars, ThreadShape, SendShape, InPush, TypeOK, QueueTypeOK, Ops
  <2>4. LogShape' /\ DoneShape'
    BY <1>5 DEF IInv, Joined, queueVars, LogShape, Handled, DoneShape, ThreadShape, TypeOK, QueueTypeOK, Ops
  <2>5. \A u \in Senders : Accepted(u)' = Accepted(u)
    BY <1>5 DEF IInv, Joined, queueVars, Accepted, InPush, SendShape, ThreadShape, TypeOK, QueueTypeOK, Ops
  <2>6. PostedShape'
    BY <1>5, <2>5, PostedFrame DEF IInv, Joined, queueVars
  <2>7. QED BY <2>1, <2>2, <2>3, <2>4, <2>6 DEF IInv
<1>6. ASSUME NEW s \in Senders, Send(s) PROVE IInv'
  <2>1. TypeOK'
    BY <1>6 DEF IInv, Send, CallPush, Call, TypeOK, QueueTypeOK, Ops
  <2>2. MutualExclusion'
    BY <1>6 DEF IInv, Send, CallPush, Call, MutualExclusion, InCriticalSection, TypeOK, QueueTypeOK, Ops
  <2>3. ThreadShape' /\ SendShape'
    BY <1>6 DEF IInv, Send, CallPush, Call, ThreadShape, SendShape, InPush, TypeOK, QueueTypeOK, Ops
  <2>4. LogShape' /\ DoneShape'
    BY <1>6 DEF IInv, Send, CallPush, Call, LogShape, Handled, DoneShape, ThreadShape, TypeOK, QueueTypeOK, Ops
  <2>5. \A u \in Senders : Accepted(u)' = Accepted(u)
    BY <1>6 DEF IInv, Send, CallPush, Call, Accepted, InPush, SendShape, ThreadShape, TypeOK, QueueTypeOK, Ops
  <2>6. PostedShape'
    BY <1>6, <2>5, PostedFrame DEF IInv, Send, CallPush, Call
  <2>7. QED BY <2>1, <2>2, <2>3, <2>4, <2>6 DEF IInv
<1>7. CASE Loop
  <2>1. TypeOK'
    BY <1>7 DEF IInv, Loop, CallWaitAndPop, Call, TypeOK, QueueTypeOK, Ops
  <2>2. MutualExclusion'
    BY <1>7 DEF IInv, Loop, CallWaitAndPop, Call, MutualExclusion, InCriticalSection, TypeOK, QueueTypeOK, Ops
  <2>3. ThreadShape' /\ SendShape'
    BY <1>7 DEF IInv, Loop, CallWaitAndPop, Call, ThreadShape, SendShape, InPush, TypeOK, QueueTypeOK, Ops
  <2>4. LogShape' /\ DoneShape'
    BY <1>7 DEF IInv, Loop, CallWaitAndPop, Call, LogShape, Handled, DoneShape, ThreadShape, TypeOK, QueueTypeOK, Ops
  <2>5. \A u \in Senders : Accepted(u)' = Accepted(u)
    BY <1>7 DEF IInv, Loop, CallWaitAndPop, Call, Accepted, InPush, SendShape, ThreadShape, TypeOK, QueueTypeOK, Ops
  <2>6. PostedShape'
    BY <1>7, <2>5, PostedFrame DEF IInv, Loop, CallWaitAndPop, Call
  <2>7. QED BY <2>1, <2>2, <2>3, <2>4, <2>6 DEF IInv
<1>8. CASE Exit
  <2>1. TypeOK'
    BY <1>8 DEF IInv, Exit, queueVars, TypeOK, QueueTypeOK, Ops
  <2>2. MutualExclusion'
    BY <1>8 DEF IInv, Exit, queueVars, MutualExclusion, InCriticalSection, TypeOK, QueueTypeOK, Ops
  <2>3. ThreadShape' /\ SendShape'
    BY <1>8 DEF IInv, Exit, queueVars, ThreadShape, SendShape, InPush, TypeOK, QueueTypeOK, Ops
  <2>4. LogShape' /\ DoneShape'
    BY <1>8 DEF IInv, Exit, queueVars, LogShape, Handled, DoneShape, ThreadShape, TypeOK, QueueTypeOK, Ops
  <2>5. \A u \in Senders : Accepted(u)' = Accepted(u)
    BY <1>8 DEF IInv, Exit, queueVars, Accepted, InPush, SendShape, ThreadShape, TypeOK, QueueTypeOK, Ops
  <2>6. PostedShape'
    BY <1>8, <2>5, PostedFrame DEF IInv, Exit, queueVars
  <2>7. QED BY <2>1, <2>2, <2>3, <2>4, <2>6 DEF IInv
<1>9. CASE Popped
  <2> DEFINE v == Head(queue)
  <2>1. /\ op[Worker] = "popping" /\ queue # <<>> /\ running = "popping"
        /\ queue' = Tail(queue) /\ val' = [val EXCEPT ![Worker] = v]
        /\ mtx' = NoThread /\ op' = [op EXCEPT ![Worker] = "none"]
        /\ running' = "calling"
        /\ UNCHANGED <<cv, sent, life, done, received, posted>>
    BY <1>9 DEF Popped, WaitAndPop, TakeFront, Return
  <2>2. queue \in Seq(Values) /\ ~done
    BY <2>1 DEF IInv, TypeOK, QueueTypeOK, DoneShape
  <2>3. /\ v \in Values /\ v = queue[1]
        /\ Tail(queue) \in Seq(Values)
        /\ Len(queue) \in Nat /\ Len(queue) > 0
        /\ Len(Tail(queue)) = Len(queue) - 1
        /\ \A i \in 1..Len(Tail(queue)) : Tail(queue)[i] = queue[i + 1]
    BY <2>1, <2>2, TailFacts
  <2> HIDE DEF v
  <2>4. TypeOK'
    BY <2>1, <2>3 DEF IInv, TypeOK, QueueTypeOK, Ops
  <2>5. MutualExclusion'
    BY <2>1 DEF IInv, MutualExclusion, InCriticalSection, TypeOK, QueueTypeOK
  <2>6. ThreadShape' /\ SendShape'
    BY <2>1 DEF IInv, ThreadShape, SendShape, InPush, TypeOK, QueueTypeOK
  <2>7. LogShape'
    <3>1. Handled' = Handled + 1 /\ Handled \in Nat
      BY <2>1, <2>2 DEF Handled, IInv, TypeOK
    <3>2. Len(posted) = Handled + Len(queue)
      BY DEF IInv, LogShape
    <3>3. Len(posted') = Handled' + Len(queue')
      BY <2>1, <2>3, <3>1, <3>2
    <3>4. \A i \in 1..Len(queue') : queue'[i] = posted'[Handled' + i]
      BY <2>1, <2>3, <3>1 DEF IInv, LogShape
    <3>5. val'[Worker] = posted'[Handled']
      BY <2>1, <2>3, <3>1 DEF IInv, LogShape, TypeOK, QueueTypeOK
    <3>6. QED BY <2>1, <3>3, <3>4, <3>5 DEF IInv, LogShape
  <2>8. DoneShape'
    BY <2>1, <2>2 DEF IInv, DoneShape, TypeOK, QueueTypeOK
  <2>9. \A u \in Senders : Accepted(u)' = Accepted(u)
    BY <2>1 DEF IInv, Accepted, InPush, TypeOK, QueueTypeOK
  <2>10. PostedShape'
    BY <2>1, <2>9, PostedFrame DEF IInv
  <2>11. QED BY <2>4, <2>5, <2>6, <2>7, <2>8, <2>10 DEF IInv
<1>10. CASE Execute
  <2>1. /\ running = "calling" /\ running' = "loop"
        /\ UNCHANGED <<queue, mtx, cv, op, val, sent, life, posted>>
    BY <1>10 DEF Execute, queueVars
  <2>2. /\ ~done
        /\ Handled = Len(received) + 1
        /\ Handled \in 1..Len(posted)
        /\ val[Worker] = posted[Handled] /\ val[Worker] \in Values
    BY <2>1, Callback
  <2>3. MutualExclusion'
    BY <2>1 DEF IInv, MutualExclusion, InCriticalSection
  <2>4. ThreadShape' /\ SendShape'
    BY <2>1 DEF IInv, ThreadShape, SendShape, InPush
  <2>5. \A u \in Senders : Accepted(u)' = Accepted(u)
    BY <2>1 DEF Accepted, InPush
  <2>6. PostedShape'
    BY <2>1, <2>5, PostedFrame DEF IInv
  <2>7. CASE RunDone
    <3>1. val[Worker] = Done /\ done' = TRUE /\ received' = received
      BY <2>7 DEF RunDone
    <3>2. TypeOK'
      BY <2>1, <3>1 DEF IInv, TypeOK, QueueTypeOK
    <3>3. Handled' = Handled
      BY <2>1, <2>2, <3>1 DEF Handled, IInv, TypeOK
    <3>4. LogShape'
      BY <2>1, <3>1, <3>3 DEF IInv, LogShape
    <3>5. Handled = Len(posted)
      BY <2>2, <3>1 DEF IInv, DoneShape
    <3>6. Len(queue) = 0
      BY <2>2, <3>5 DEF IInv, LogShape, TypeOK, QueueTypeOK
    <3>7. queue = <<>>
      BY <3>6 DEF IInv, TypeOK, QueueTypeOK
    <3>8. DoneShape'
      BY <2>1, <2>2, <3>1, <3>5, <3>7 DEF IInv, DoneShape
    <3>9. QED BY <2>3, <2>4, <2>6, <3>2, <3>4, <3>8 DEF IInv
  <2>8. CASE RunStore
    <3>1. val[Worker] # Done /\ done' = done /\ received' = Append(received, val[Worker])
      BY <2>8 DEF RunStore
    <3>2. received \in Seq(Values)
      BY DEF IInv, TypeOK
    <3>3. /\ received' \in Seq(Values)
          /\ Len(received') = Len(received) + 1
          /\ received'[Len(received) + 1] = val[Worker]
          /\ \A i \in 1..Len(received) : received'[i] = received[i]
          /\ \A i \in 1..Len(received') : i \in 1..Len(received) \/ i = Len(received) + 1
      BY <2>2, <3>1, <3>2, AppendFacts
    <3>4. TypeOK'
      BY <2>1, <3>1, <3>3 DEF IInv, TypeOK, QueueTypeOK
    <3>5. Handled' = Handled
      BY <2>1, <2>2, <3>1, <3>2, <3>3 DEF Handled
    <3>6. \A i \in 1..Len(received') : received'[i] = posted'[i]
      BY <2>1, <2>2, <3>3 DEF IInv, LogShape
    <3>7. LogShape'
      BY <2>1, <3>5, <3>6 DEF IInv, LogShape
    <3>8. DoneShape'
      BY <2>1, <2>2, <3>1 DEF IInv, DoneShape
    <3>9. QED BY <2>3, <2>4, <2>6, <3>4, <3>7, <3>8 DEF IInv
  <2>9. QED BY <1>10, <2>7, <2>8 DEF Execute
<1>11. ASSUME NEW t \in Threads, Pushing(t) PROVE IInv'
  <2> DEFINE v == val[t]
  <2>1. /\ op[t] = "pushing" /\ queue' = Append(queue, v) /\ posted' = Append(posted, v)
        /\ val' = [val EXCEPT ![t] = NoValue]
        /\ mtx' = NoThread /\ op' = [op EXCEPT ![t] = "none"]
        /\ UNCHANGED <<sent, life, running, done, received>>
    BY <1>11 DEF Pushing, Push, Return
  <2>2. t \in Senders /\ v \in Values /\ ~done /\ \A i \in 1..Len(posted) : posted[i] # Done
    BY <2>1, Argument
  <2>3. cv' = {} \/ cv' = cv
    BY <1>11 DEF Pushing, Push, NotifyOne, IInv, ThreadShape
  <2>4. cv' = {}
    BY <1>11 DEF Pushing, Push, NotifyOne, IInv, ThreadShape
  <2>5. queue \in Seq(Values) /\ posted \in Seq(Values) /\ Len(queue) \in Nat /\ Len(posted) \in Nat
    BY DEF IInv, TypeOK, QueueTypeOK
  <2>6. /\ queue' \in Seq(Values)
        /\ Len(queue') = Len(queue) + 1
        /\ queue'[Len(queue) + 1] = v
        /\ \A i \in 1..Len(queue) : queue'[i] = queue[i]
        /\ \A i \in 1..Len(queue') : i \in 1..Len(queue) \/ i = Len(queue) + 1
    BY <2>1, <2>2, <2>5, AppendFacts
  <2>7. /\ posted' \in Seq(Values)
        /\ Len(posted') = Len(posted) + 1
        /\ posted'[Len(posted) + 1] = v
        /\ \A i \in 1..Len(posted) : posted'[i] = posted[i]
        /\ \A i \in 1..Len(posted') : i \in 1..Len(posted) \/ i = Len(posted) + 1
    BY <2>1, <2>2, <2>5, AppendFacts
  <2>8. TypeOK'
    BY <2>1, <2>4, <2>6, <2>7 DEF IInv, TypeOK, QueueTypeOK, Ops
  <2>9. MutualExclusion'
    BY <2>1 DEF IInv, MutualExclusion, InCriticalSection, TypeOK, QueueTypeOK
  <2>10. ThreadShape' /\ SendShape'
    BY <2>1, <2>2, <2>4 DEF IInv, ThreadShape, SendShape, InPush, TypeOK, QueueTypeOK
  <2>11. LogShape'
    <3>1. Handled' = Handled /\ Handled \in Nat
      BY <2>1, HandledNat DEF Handled, IInv
    <3>2. Len(posted') = Handled' + Len(queue')
      BY <2>5, <2>6, <2>7, <3>1 DEF IInv, LogShape
    <3>3. \A i \in 1..Len(queue') : queue'[i] = posted'[Handled' + i]
      <4>1. TAKE i \in 1..Len(queue')
      <4>2. CASE i \in 1..Len(queue)
        BY <2>5, <2>6, <2>7, <3>1, <4>2 DEF IInv, LogShape
      <4>3. CASE i = Len(queue) + 1
        BY <2>5, <2>6, <2>7, <3>1, <4>3 DEF IInv, LogShape
      <4>4. QED BY <2>6, <4>2, <4>3
    <3>4. \A i \in 1..Len(received') : received'[i] = posted'[i]
      <4>1. Len(received) \in Nat /\ Len(received) <= Len(posted)
        BY <2>5, <3>1, HandledNat DEF IInv, LogShape
      <4>2. QED BY <2>1, <2>5, <2>7, <4>1 DEF IInv, LogShape
    <3>5. running' = "calling" => val'[Worker] = posted'[Handled']
      <4>1. SUFFICES ASSUME running = "calling" PROVE val'[Worker] = posted'[Handled']
        BY <2>1
      <4>2. Handled \in 1..Len(posted) /\ val[Worker] = posted[Handled]
        BY <4>1, Callback
      <4>3. QED BY <2>1, <2>2, <2>7, <3>1, <4>2 DEF IInv, TypeOK, QueueTypeOK
    <3>6. QED BY <3>2, <3>3, <3>4, <3>5 DEF LogShape
  <2>12. DoneShape'
    <3>1. v = Done => t = Owner /\ life = "dying"
      <4>1. SUFFICES ASSUME ~(t = Owner /\ life = "dying") PROVE v # Done
        OBVIOUS
      <4>2. v = <<t, sent[t]>> /\ sent[t] \in 1..Sends
        BY <2>1, <2>2, <4>1 DEF IInv, SendShape, InPush, TypeOK
      <4>3. v \in Tasks
        BY <2>2, <4>2
      <4>4. QED BY <4>3
    <3>2. t = Owner /\ life = "dying" => v = Done
      BY <2>1, <2>2 DEF IInv, SendShape, InPush
    <3>3. life \notin {"joining", "destroyed"}
      BY <2>1, <2>2 DEF IInv, SendShape
    <3>4. op'[Owner] = "none" => t = Owner \/ op[Owner] = "none"
      BY <2>1, <2>2 DEF IInv, TypeOK, QueueTypeOK
    <3>5. op[Owner] = "none" => life # "dying"
      BY <2>2, <2>5 DEF IInv, DoneShape
    <3>6. \A i \in 1..Len(posted') : posted'[i] = Done =>
            i = Len(posted') /\ life' \in {"dying", "joining", "destroyed"} /\ op'[Owner] = "none"
      BY <2>1, <2>2, <2>7, <3>1 DEF IInv, TypeOK, QueueTypeOK
    <3>7. life' = "dying" /\ op'[Owner] = "none" => Len(posted') > 0 /\ posted'[Len(posted')] = Done
      BY <2>1, <2>5, <2>7, <3>2, <3>4, <3>5
    <3>8. ~done' /\ running' # "exited" /\ life' # "destroyed"
      BY <2>1, <2>2, <3>3 DEF IInv, DoneShape
    <3>9. QED BY <2>1, <3>3, <3>6, <3>7, <3>8 DEF DoneShape
  <2>13. PostedShape'
    <3> DEFINE ofOwner == t = Owner /\ life = "dying"
    <3>1. \A u \in Senders : u # t => Accepted(u)' = Accepted(u)
      BY <2>1 DEF IInv, Accepted, InPush, TypeOK, QueueTypeOK
    <3>2. \A i \in 1..Len(posted) : /\ posted[i] \in Values /\ posted[i] # Done
                                    /\ posted[i][1] \in Senders /\ posted[i][2] \in 1..Sends
      BY <2>2, <2>5, TaskOf
    <3>3. CASE ofOwner
      <4>1. v = Done /\ Accepted(t)' = Accepted(t)
        BY <2>1, <2>2, <3>3 DEF IInv, SendShape, Accepted, InPush, TypeOK, QueueTypeOK
      <4>2. \A u \in Senders : Accepted(u)' = Accepted(u)
        BY <3>1, <4>1
      <4>3. \A u \in Senders : \A n \in 1..Sends :
               n <= Accepted(u)' => \E i \in 1..Len(posted') : posted'[i] = <<u, n>>
        <5>1. ASSUME NEW u \in Senders, NEW n \in 1..Sends, n <= Accepted(u)'
              PROVE  \E i \in 1..Len(posted') : posted'[i] = <<u, n>>
          <6>1. PICK i \in 1..Len(posted) : posted[i] = <<u, n>>
            BY <4>2, <5>1 DEF IInv, PostedShape
          <6>2. QED BY <2>5, <2>7, <6>1
        <5>2. QED BY <5>1
      <4>4. \A i \in 1..Len(posted') :
               posted'[i] # Done => i \in 1..Len(posted) /\ posted'[i] = posted[i]
        BY <2>7, <4>1
      <4>5. \A u \in Senders : \A i \in 1..Len(posted') :
               posted'[i] # Done /\ posted'[i][1] = u => posted'[i][2] <= Accepted(u)'
        BY <4>2, <4>4 DEF IInv, PostedShape
      <4>6. \A i, j \in 1..Len(posted') :
               i < j /\ posted'[i] # Done /\ posted'[j] # Done /\ posted'[i][1] = posted'[j][1]
                  => posted'[i][2] < posted'[j][2]
        <5>1. \A i, j \in 1..Len(posted) :
               i < j /\ posted[i] # Done /\ posted[j] # Done /\ posted[i][1] = posted[j][1]
                  => posted[i][2] < posted[j][2]
          BY DEF IInv, PostedShape
        <5>2. QED BY <4>4, <5>1
      <4>7. QED BY <4>3, <4>5, <4>6 DEF PostedShape
    <3>4. CASE ~ofOwner
      <4>1. /\ v = <<t, sent[t]>> /\ sent[t] \in 1..Sends
            /\ Accepted(t) = sent[t] - 1 /\ Accepted(t)' = sent[t]
        BY <2>1, <2>2, <3>4 DEF IInv, SendShape, Accepted, InPush, TypeOK, QueueTypeOK
      <4>2. v[1] = t /\ v[2] = sent[t]
        BY <4>1
      <4> HIDE DEF v
      <4>3. ASSUME NEW u \in Senders, NEW n \in 1..Sends, n <= Accepted(u)'
            PROVE  \E i \in 1..Len(posted') : posted'[i] = <<u, n>>
        <5>1. CASE u = t /\ n = sent[t]
          <6>1. Len(posted) + 1 \in 1..Len(posted')
            BY <2>5, <2>7
          <6>2. posted'[Len(posted) + 1] = <<u, n>>
            BY <2>7, <4>1, <5>1
          <6>3. QED BY <6>1, <6>2
        <5>2. CASE ~(u = t /\ n = sent[t])
          <6>1. n <= Accepted(u)
            BY <3>1, <4>1, <4>3, <5>2
          <6>2. PICK i \in 1..Len(posted) : posted[i] = <<u, n>>
            BY <6>1 DEF IInv, PostedShape
          <6>3. QED BY <2>5, <2>7, <6>2
        <5>3. QED BY <5>1, <5>2
      <4>4. \A u \in Senders : \A i \in 1..Len(posted) :
               posted[i][1] = u => posted[i][2] <= Accepted(u)
        BY <2>2 DEF IInv, PostedShape
      <4>5. \A i \in 1..Len(posted) : posted[i][1] = t => posted[i][2] < sent[t]
        BY <2>2, <3>2, <4>1, <4>4
      <4>7. ASSUME NEW u \in Senders, NEW i \in 1..Len(posted'), posted'[i][1] = u
            PROVE  posted'[i][2] <= Accepted(u)'
        <5>1. CASE i = Len(posted) + 1
          BY <2>7, <4>1, <4>2, <4>7, <5>1
        <5>2. CASE i \in 1..Len(posted) /\ u = t
          BY <2>7, <3>2, <4>1, <4>5, <4>7, <5>2
        <5>3. CASE i \in 1..Len(posted) /\ u # t
          BY <2>7, <3>1, <4>4, <4>7, <5>3
        <5>4. QED BY <2>7, <5>1, <5>2, <5>3
      <4>8. ASSUME NEW i \in 1..Len(posted'), NEW j \in 1..Len(posted'), i < j,
                   posted'[i] # Done, posted'[j] # Done, posted'[i][1] = posted'[j][1]
            PROVE  posted'[i][2] < posted'[j][2]
        <5>1. i \in 1..Len(posted) /\ posted'[i] = posted[i]
          BY <2>5, <2>7, <4>8
        <5>2. CASE j \in 1..Len(posted)
          BY <2>7, <3>2, <4>8, <5>1, <5>2 DEF IInv, PostedShape
        <5>3. CASE j = Len(posted) + 1
          <6>1. posted[i][1] = t /\ posted'[j][2] = sent[t]
            BY <2>7, <4>2, <4>8, <5>1, <5>3
          <6>2. QED BY <4>5, <5>1, <6>1
        <5>4. QED BY <2>7, <5>2, <5>3
      <4>9. QED BY <4>3, <4>7, <4>8 DEF PostedShape
    <3>5. QED BY <3>3, <3>4
  <2>14. QED BY <2>8, <2>9, <2>10, <2>11, <2>12, <2>13 DEF IInv
<1>12. ASSUME NEW t \in Threads, Blocking(t) PROVE IInv'
  <2>1. UNCHANGED <<queue, val, sent, life, running, done, received, posted>>
    BY <1>12 DEF Blocking, Lock, Wait, SpuriousWake
  <2>2. LogShape'
    BY <2>1 DEF IInv, LogShape, Handled
  <2>3. CASE Lock(t)
    <3>1. /\ mtx = NoThread /\ mtx' = t /\ cv' = cv
          /\ op' = [op EXCEPT ![t] = Locked(t)]
          /\ op[t] \in {"push", "pop", "try"} \/ Woken(t)
      BY <2>3 DEF Lock
    <3>2. Locked(t) \in {"pushing", "popping", "trying"}
      BY DEF Locked
    <3>3. TypeOK'
      BY <2>1, <3>1, <3>2 DEF IInv, TypeOK, QueueTypeOK, Ops
    <3>4. MutualExclusion'
      BY <3>1, <3>2 DEF IInv, MutualExclusion, InCriticalSection, TypeOK, QueueTypeOK
    <3>5. ThreadShape' /\ SendShape' /\ DoneShape' /\ \A u \in Senders : Accepted(u)' = Accepted(u)
      BY <2>1, <3>1 DEF IInv, ThreadShape, SendShape, DoneShape, InPush, Accepted, Locked, Woken, TypeOK, QueueTypeOK
    <3>6. PostedShape'
      BY <2>1, <3>5, PostedFrame DEF IInv
    <3>7. QED BY <2>2, <3>3, <3>4, <3>5, <3>6 DEF IInv
  <2>4. CASE Wait(t)
    <3>1. /\ op[t] = "popping" /\ queue = <<>> /\ cv' = cv \cup {t} /\ mtx' = NoThread
          /\ op' = [op EXCEPT ![t] = "wait"]
      BY <2>4 DEF Wait
    <3>2. t = Worker
      BY <3>1 DEF IInv, ThreadShape, InPush
    <3>3. TypeOK'
      BY <2>1, <3>1 DEF IInv, TypeOK, QueueTypeOK, Ops
    <3>4. MutualExclusion'
      BY <3>1 DEF IInv, MutualExclusion, InCriticalSection, TypeOK, QueueTypeOK
    <3>5. ThreadShape' /\ SendShape' /\ DoneShape' /\ \A u \in Senders : Accepted(u)' = Accepted(u)
      BY <2>1, <3>1, <3>2 DEF IInv, ThreadShape, SendShape, DoneShape, InPush, Accepted, TypeOK, QueueTypeOK
    <3>6. PostedShape'
      BY <2>1, <3>5, PostedFrame DEF IInv
    <3>7. QED BY <2>2, <3>3, <3>4, <3>5, <3>6 DEF IInv
  <2>5. CASE SpuriousWake(t)
    <3>1. t \in cv /\ cv' = cv \ {t} /\ UNCHANGED <<mtx, op>>
      BY <2>5 DEF SpuriousWake
    <3>2. TypeOK' /\ MutualExclusion'
      BY <2>1, <3>1 DEF IInv, TypeOK, QueueTypeOK, MutualExclusion, InCriticalSection
    <3>3. ThreadShape' /\ SendShape' /\ DoneShape' /\ \A u \in Senders : Accepted(u)' = Accepted(u)
      BY <2>1, <3>1 DEF IInv, ThreadShape, SendShape, DoneShape, InPush, Accepted
    <3>4. PostedShape'
      BY <2>1, <3>3, PostedFrame DEF IInv
    <3>5. QED BY <2>2, <3>2, <3>3, <3>4 DEF IInv
  <2>6. QED BY <1>12, <2>3, <2>4, <2>5 DEF Blocking
<1>13. CASE UNCHANGED vars
  <2>1. TypeOK'
    BY <1>13 DEF IInv, vars, TypeOK, QueueTypeOK, Ops
  <2>2. MutualExclusion'
    BY <1>13 DEF IInv, vars, MutualExclusion, InCriticalSection, TypeOK, QueueTypeOK, Ops
  <2>3. ThreadShape' /\ SendShape'
    BY <1>13 DEF IInv, vars, ThreadShape, SendShape, InPush, TypeOK, QueueTypeOK, Ops
  <2>4. LogShape' /\ DoneShape'
    BY <1>13 DEF IInv, vars, LogShape, Handled, DoneShape, ThreadShape, TypeOK, QueueTypeOK, Ops
  <2>5. \A u \in Senders : Accepted(u)' = Accepted(u)
    BY <1>13 DEF IInv, vars, Accepted, InPush, SendShape, ThreadShape, TypeOK, QueueTypeOK, Ops
  <2>6. PostedShape'
    BY <1>13, <2>5, PostedFrame DEF IInv, vars
  <2>7. QED BY <2>1, <2>2, <2>3, <2>4, <2>6 DEF IInv
<1>14. QED
  BY <1>1, <1>2, <1>3, <1>4, <1>5, <1>6, <1>7, <1>8, <1>9, <1>10, <1>11, <1>12, <1>13
     DEF Next, Client, WorkerStep, QueueStep, Terminated

(* IInv, the inductive invariant: in every reachable state the log of what *)
(* the queue accepted, the queue, what the worker ran and the places of    *)
(* the senders and of the destructor fit together.                         *)
THEOREM Invariant == Spec => []IInv
BY Initial, Inductive, PTL DEF Spec

(* Every variable keeps its type: no step of the queue, the clients or the *)
(* worker leaves the states the code can be in.                            *)
THEOREM TypeCorrect == Spec => []TypeOK
<1>1. IInv => TypeOK
  BY DEF IInv
<1>2. QED BY <1>1, Invariant, PTL

(* Tasks run once each, in the order in which the queue accepted them, and *)
(* each sender's in the order it sent them (the first assert of            *)
(* runStrWorkers), for any number of senders and tasks.                    *)
THEOREM RunInOrder == Spec => []InOrder
<1>1. ASSUME IInv PROVE InOrder
  <2>1. /\ Len(posted) \in Nat /\ Len(queue) \in Nat /\ Len(received) \in Nat
        /\ Len(received) <= Len(posted)
    BY <1>1, HandledNat DEF IInv, LogShape, TypeOK, QueueTypeOK
  <2>2. \A i \in 1..Len(received) : received[i] = posted[i]
    BY <1>1 DEF IInv, LogShape
  <2>3. \A i \in 1..Len(received) : received[i] \in Tasks
    BY <1>1 DEF IInv, TypeOK
  <2>4. \A i \in 1..Len(received) : posted[i] # Done /\ received[i] = posted[i]
    BY <2>3, <2>2, Constants
  <2>5. \A i, j \in 1..Len(posted) :
           i < j /\ posted[i] # Done /\ posted[j] # Done /\ posted[i][1] = posted[j][1]
              => posted[i][2] < posted[j][2]
    BY <1>1 DEF IInv, PostedShape
  <2>6. \A i, j \in 1..Len(received) :
           i < j /\ received[i][1] = received[j][1] => received[i][2] < received[j][2]
    BY <2>1, <2>4, <2>5
  <2>7. QED BY <2>1, <2>2, <2>6 DEF InOrder
<1>2. QED BY <1>1, Invariant, PTL

(* When the destructor has returned, every task that was sent has run: the *)
(* destructor's own task is the last of the log and the worker leaves run()*)
(* only after it (the second assert of runStrWorkers and runIntWorkers).   *)
THEOREM NothingIsLost == Spec => []NothingLost
<1>1. ASSUME IInv, life = "destroyed", NEW s \in Senders, NEW n \in 1..Sends
      PROVE  \E i \in 1..Len(received) : received[i] = <<s, n>>
  <2>1. done /\ queue = <<>> /\ running = "exited" /\ posted[Len(posted)] = Done
    BY <1>1 DEF IInv, DoneShape
  <2>2. /\ Len(received) \in Nat /\ Len(posted) = Len(received) + 1
        /\ \A i \in 1..Len(received) : received[i] = posted[i]
    BY <1>1, <2>1, HandledNat DEF IInv, LogShape, Handled
  <2>3. sent[s] = Sends /\ op[s] = "none"
    BY <1>1 DEF IInv, SendShape
  <2>4. n <= Accepted(s)
    BY <2>3, Constants DEF Accepted, InPush
  <2>5. PICK i \in 1..Len(posted) : posted[i] = <<s, n>>
    BY <1>1, <2>4 DEF IInv, PostedShape
  <2>6. <<s, n>> # Done
    BY Constants
  <2>7. i \in 1..Len(received)
    <3>1. i # Len(posted)
      BY <2>1, <2>5, <2>6
    <3>2. QED BY <2>2, <3>1
  <2>8. QED BY <2>2, <2>5, <2>7
<1>2. IInv => NothingLost
  BY <1>1 DEF NothingLost
<1>3. QED BY <1>2, Invariant, PTL

(* done_ comes last: once the worker has run the destructor's task, the    *)
(* queue is empty and no client is in it (active.h: done_ is set only on   *)
(* the active thread via a callback).                                      *)
THEOREM DoneComesLast == Spec => []DoneIsLast
<1>1. ASSUME IInv, done PROVE DoneIsLast
  <2>1. queue = <<>> /\ running \in {"loop", "exited"} /\ Len(posted) \in Nat
        /\ Len(posted) > 0 /\ posted[Len(posted)] = Done
    BY <1>1 DEF IInv, DoneShape, TypeOK
  <2>2. life \in {"dying", "joining", "destroyed"} /\ op[Owner] = "none"
    BY <1>1, <2>1 DEF IInv, DoneShape
  <2>3. \A s \in Senders : op[s] = "none"
    BY <1>1, <2>2 DEF IInv, SendShape
  <2>4. QED BY <2>1, <2>3 DEF DoneIsLast
<1>2. IInv => DoneIsLast
  BY <1>1 DEF DoneIsLast
<1>3. QED BY <1>2, Invariant, PTL

(* The worker never sleeps while a task is queued: the notify_one of push  *)
(* is not lost (threadsafe_queue.h, the loop of wait_and_pop).             *)
THEOREM WakeupsAreNotLost == Spec => []NoLostWakeup
<1>1. ASSUME IInv, cv # {} PROVE NoLostWakeup
  <2> DEFINE awake == WokenThreads \cup {t \in Threads : op[t] = "popping" /\ mtx = t}
  <2>1. Len(queue) = 0
    BY <1>1 DEF IInv, ThreadShape
  <2>2. IsFiniteSet(Threads)
    BY ActiveConstants, FS_AddElement
  <2>3. Cardinality(awake) \in Nat
    BY <2>2, FS_Subset, FS_CardinalityType DEF WokenThreads
  <2>4. QED BY <2>1, <2>3 DEF NoLostWakeup
<1>2. IInv => NoLostWakeup
  BY <1>1 DEF NoLostWakeup
<1>3. QED BY <1>2, Invariant, PTL
=============================================================================
