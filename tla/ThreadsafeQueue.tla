--------------------------- MODULE ThreadsafeQueue ---------------------------
(***************************************************************************)
(* threadsafe_queue<T> of Patterns/Active_object/threadsafe_queue.h: a     *)
(* std::queue behind one mutex (mtx_) and one condition variable (cv_).    *)
(*                                                                         *)
(* An operation is split where another thread can run: at the call (the    *)
(* thread now competes for the mutex), at the lock, and at the critical    *)
(* section, which ends by giving the mutex back.  The cv_.wait loop of     *)
(* wait_and_pop is explicit: a thread that finds the queue empty releases  *)
(* the mutex and joins the waiters in one step, and must lock and check    *)
(* again after it is notified or wakes spuriously.                         *)
(*                                                                         *)
(* This module has no Spec of its own: QueueClients gives it the most      *)
(* general clients, ActiveObject the ones of active.h.                     *)
(***************************************************************************)
EXTENDS Naturals, Sequences, FiniteSets

CONSTANTS Threads,     \* the threads that may call the queue
          Values,      \* the elements T
          NoThread,    \* "the mutex is free"
          NoValue      \* "no argument or result"

ASSUME QueueConstants ==
    /\ NoThread \notin Threads
    /\ NoValue \notin Values

VARIABLES queue,       \* queue_
          mtx,         \* the holder of mtx_
          cv,          \* the threads blocked in cv_.wait
          op,          \* op[t]: how far t is in its queue operation
          val          \* val[t]: the argument of its push, the result of its pop

queueVars == <<queue, mtx, cv, op, val>>

\* "wait" with t \in cv is a blocked waiter; "wait" with t \notin cv is a
\* waiter that was woken and competes for the mutex again.
Ops == {"none", "push", "pushing", "pop", "popping", "wait", "try", "trying"}

QueueTypeOK ==
    /\ queue \in Seq(Values)
    /\ mtx \in Threads \cup {NoThread}
    /\ cv \subseteq Threads
    /\ op \in [Threads -> Ops]
    /\ val \in [Threads -> Values \cup {NoValue}]

QueueInit ==
    /\ queue = <<>>
    /\ mtx = NoThread
    /\ cv = {}
    /\ op = [t \in Threads |-> "none"]
    /\ val = [t \in Threads |-> NoValue]

\* The calls: the thread enters the operation and competes for the mutex.
Call(t, o, v) ==
    /\ op[t] = "none"
    /\ op' = [op EXCEPT ![t] = o]
    /\ val' = [val EXCEPT ![t] = v]
    /\ UNCHANGED <<queue, mtx, cv>>

CallPush(t, v) == Call(t, "push", v)
CallWaitAndPop(t) == Call(t, "pop", NoValue)
CallTryPop(t) == Call(t, "try", NoValue)

\* Woken: t left cv_.wait's set of waiters and has to lock before it checks.
Woken(t) == op[t] = "wait" /\ t \notin cv

\* std::lock_guard / std::unique_lock, and the relock inside cv_.wait.
Locked(t) == IF op[t] = "push" THEN "pushing"
             ELSE IF op[t] = "try" THEN "trying" ELSE "popping"

\* Mutant: the critical section is entered without the mutex being free.
LockUnguarded(t) ==
    /\ op[t] \in {"push", "pop", "try"} \/ Woken(t)
    /\ mtx' = t
    /\ op' = [op EXCEPT ![t] = Locked(t)]
    /\ UNCHANGED <<queue, cv, val>>

Lock(t) ==
    /\ op[t] \in {"push", "pop", "try"} \/ Woken(t)
    /\ mtx = NoThread
    /\ mtx' = t
    /\ op' = [op EXCEPT ![t] = Locked(t)]
    /\ UNCHANGED <<queue, cv, val>>

\* End of the critical section: unlock and return from the operation.
Return(t) ==
    /\ mtx' = NoThread
    /\ op' = [op EXCEPT ![t] = "none"]

\* cv_.notify_one(): wakes one waiter, any of them, and is lost without one.
NotifyOne ==
    IF cv = {} THEN cv' = cv ELSE \E w \in cv : cv' = cv \ {w}

\* Mutants: push without notify_one, and push of an argument already moved from.
PushSilent(t) ==
    /\ op[t] = "pushing"
    /\ queue' = Append(queue, val[t])
    /\ val' = [val EXCEPT ![t] = NoValue]
    /\ UNCHANGED cv
    /\ Return(t)

PushMovedFrom(t) ==
    /\ op[t] = "pushing"
    /\ val' = [val EXCEPT ![t] = NoValue]
    /\ queue' = Append(queue, val'[t])
    /\ NotifyOne
    /\ Return(t)

\* push / emplace, with the mutex held.
Push(t) ==
    /\ op[t] = "pushing"
    /\ queue' = Append(queue, val[t])
    /\ NotifyOne
    /\ val' = [val EXCEPT ![t] = NoValue]
    /\ Return(t)

\* Mutant: the element that is returned is not the one that is removed.
TakeBack(t) ==
    /\ queue # <<>>
    /\ val' = [val EXCEPT ![t] = queue[Len(queue)]]
    /\ queue' = Tail(queue)
    /\ UNCHANGED cv
    /\ Return(t)

\* value = std::move(queue_.front()); queue_.pop();
TakeFront(t) ==
    /\ queue # <<>>
    /\ val' = [val EXCEPT ![t] = Head(queue)]
    /\ queue' = Tail(queue)
    /\ UNCHANGED cv
    /\ Return(t)

\* wait_and_pop past the predicate of cv_.wait.
WaitAndPop(t) == op[t] = "popping" /\ TakeFront(t)

\* wait_and_pop on an empty queue: release the mutex and block, atomically.
Wait(t) ==
    /\ op[t] = "popping"
    /\ queue = <<>>
    /\ cv' = cv \cup {t}
    /\ mtx' = NoThread
    /\ op' = [op EXCEPT ![t] = "wait"]
    /\ UNCHANGED <<queue, val>>

\* A condition variable may wake a waiter nobody notified.
SpuriousWake(t) ==
    /\ t \in cv
    /\ cv' = cv \ {t}
    /\ UNCHANGED <<queue, mtx, op, val>>

\* try_pop: the front, or false (val stays NoValue) on an empty queue.
TryPop(t) ==
    /\ op[t] = "trying"
    /\ \/ TakeFront(t)
       \/ /\ queue = <<>>
          /\ Return(t)
          /\ UNCHANGED <<queue, cv, val>>

-----------------------------------------------------------------------------
\* The threads whose critical section is running.
InCriticalSection == {t \in Threads : op[t] \in {"pushing", "popping", "trying"}}

WokenThreads == {t \in Threads : Woken(t)}

(* mtx_ protects queue_: the thread inside an operation's critical section *)
(* is the holder of the mutex, so there is at most one (every operation of *)
(* threadsafe_queue.h locks mtx_ before it touches queue_).                *)
MutualExclusion == InCriticalSection = {mtx} \ {NoThread}

(* No wakeup is lost: while some thread sleeps in cv_.wait, every element  *)
(* of the queue is matched by a waiter that is already awake (the          *)
(* notify_one of push and the predicate loop of wait_and_pop).  Without it *)
(* an element could sit in the queue with every consumer asleep.           *)
NoLostWakeup ==
    cv # {} => Len(queue) <= Cardinality(WokenThreads
                                          \cup {t \in Threads : op[t] = "popping" /\ mtx = t})
=============================================================================
