---------------------------- MODULE ActiveObject ----------------------------
(***************************************************************************)
(* jam::Active (and Active2, Active3, which differ in how the object is    *)
(* created, not in what it does) driven as in Patterns/Active_object:      *)
(* client threads send tasks, a worker thread runs them one at a time, and *)
(* the destructor sends a last task that sets done_ and joins the worker.  *)
(*                                                                         *)
(* Tasks are <<sender, number>>; running one is Backgrounder::bgStoreData, *)
(* which appends it to received_.  The owner is the thread of              *)
(* runStrWorkers and runIntWorkers: it sends like the others, spins in     *)
(* printProgress, then leaves the scope.  The other senders have finished  *)
(* by then: destroying an object another thread still uses is undefined.   *)
(***************************************************************************)
EXTENDS ThreadsafeQueue

CONSTANTS Senders,     \* the threads that call save_data
          Owner,       \* the sender whose scope holds the object
          Worker,      \* thread_
          Sends,       \* the number of tasks each sender sends (num_items)
          Shown,       \* printProgress returns when received_ is this long (max)
          Done         \* the task of the destructor: [this]{ do_done(); }

ASSUME ActiveConstants ==
    /\ Owner \in Senders
    /\ Worker \notin Senders
    /\ Threads = Senders \cup {Worker}
    /\ IsFiniteSet(Senders)
    /\ Sends \in Nat
    /\ Shown \in Nat /\ Shown <= Sends * Cardinality(Senders)
    /\ Values = (Senders \X (1..Sends)) \cup {Done}
    /\ Done \notin Senders \X (1..Sends)

VARIABLES sent,        \* sent[s]: how many tasks s has sent
          life,        \* the owner: "sending", "progress", "dying", "joining", "destroyed"
          running,     \* the worker: "unborn", "loop", "popping", "calling", "exited"
          done,        \* done_
          received,    \* received_, the vector Backgrounder stores into
          posted       \* history: the tasks in the order push stored them

vars == <<queue, mtx, cv, op, val, sent, life, running, done, received, posted>>

Tasks == Senders \X (1..Sends)

TypeOK ==
    /\ QueueTypeOK
    /\ sent \in [Senders -> 0..Sends]
    /\ life \in {"sending", "progress", "dying", "joining", "destroyed"}
    /\ running \in {"unborn", "loop", "popping", "calling", "exited"}
    /\ done \in BOOLEAN
    /\ received \in Seq(Tasks)
    /\ posted \in Seq(Values)

\* The constructed object before create() starts its thread.
Init ==
    /\ QueueInit
    /\ sent = [s \in Senders |-> 0]
    /\ life = "sending"
    /\ running = "unborn"
    /\ done = FALSE
    /\ received = <<>>
    /\ posted = <<>>

\* create(): the thread starts on the object that is returned (the return
\* value is constructed in place, so the captured reference stays valid).
Create ==
    /\ running = "unborn"
    /\ running' = "loop"
    /\ UNCHANGED <<queueVars, sent, life, done, received, posted>>

-----------------------------------------------------------------------------
\* The clients.

\* save_data -> send -> queue_.push, the call.
Send(s) ==
    /\ running # "unborn" /\ life = "sending"
    /\ sent[s] < Sends
    /\ CallPush(s, <<s, sent[s] + 1>>)
    /\ sent' = [sent EXCEPT ![s] = @ + 1]
    /\ UNCHANGED <<life, running, done, received, posted>>

Finished(s) == sent[s] = Sends /\ op[s] = "none"

\* Every sender is through with the object; the owner calls printProgress.
PrintProgress ==
    /\ life = "sending" /\ running # "unborn"
    /\ \A s \in Senders : Finished(s)
    /\ life' = "progress"
    /\ UNCHANGED <<queueVars, sent, running, done, received, posted>>

\* printProgress loops until `max' items are stored, or while the share that
\* is left, rounded down to tens, is at most 100% (`max' may be below the
\* number of items sent).  It reads received_.size() without a lock: while
\* the worker is in push_back the value read can be anything.
Remaining == Sends * Cardinality(Senders) - Len(received)

ProgressShown ==
    \/ Len(received) >= Shown
    \/ 10 * Remaining >= 11 * Shown
    \/ running = "calling" /\ val[Worker] # Done

\* Mutant: the destructor sets done_ itself instead of sending a task.
DestroyDirectly ==
    /\ life = "progress"
    /\ ProgressShown
    /\ life' = "dying"
    /\ done' = TRUE
    /\ UNCHANGED <<queueVars, sent, running, received, posted>>

\* The scope ends: ~Active sends its last task.
Destroy ==
    /\ life = "progress"
    /\ ProgressShown
    /\ CallPush(Owner, Done)
    /\ life' = "dying"
    /\ UNCHANGED <<sent, running, done, received, posted>>

Join ==
    /\ life = "dying" /\ op[Owner] = "none"
    /\ life' = "joining"
    /\ UNCHANGED <<queueVars, sent, running, done, received, posted>>

\* Mutant: the destructor does not wait for the worker.
Detached ==
    /\ life = "joining"
    /\ life' = "destroyed"
    /\ UNCHANGED <<queueVars, sent, running, done, received, posted>>

\* thread_.join() returns when the worker has left run().
Joined ==
    /\ life = "joining" /\ running = "exited"
    /\ life' = "destroyed"
    /\ UNCHANGED <<queueVars, sent, running, done, received, posted>>

-----------------------------------------------------------------------------
\* The worker: run().

\* while (!done_) { Callback cb; queue_.wait_and_pop(cb); ...
Loop ==
    /\ running = "loop" /\ ~done
    /\ CallWaitAndPop(Worker)
    /\ running' = "popping"
    /\ UNCHANGED <<sent, life, done, received, posted>>

Exit ==
    /\ running = "loop" /\ done
    /\ running' = "exited"
    /\ UNCHANGED <<queueVars, sent, life, done, received, posted>>

\* Mutant: the callback that was popped is not called.
PoppedDropped ==
    /\ running = "popping"
    /\ WaitAndPop(Worker)
    /\ running' = "loop"
    /\ UNCHANGED <<sent, life, done, received, posted>>

Popped ==
    /\ running = "popping"
    /\ WaitAndPop(Worker)
    /\ running' = "calling"
    /\ UNCHANGED <<sent, life, done, received, posted>>

\* cb(), outside the lock: do_done or bgStoreData.
RunDone ==
    /\ val[Worker] = Done
    /\ done' = TRUE
    /\ UNCHANGED received

RunStore ==
    /\ val[Worker] # Done
    /\ received' = Append(received, val[Worker])
    /\ UNCHANGED done

Execute ==
    /\ running = "calling"
    /\ RunDone \/ RunStore
    /\ running' = "loop"
    /\ UNCHANGED <<queueVars, sent, life, posted>>

-----------------------------------------------------------------------------
Pushing(t) ==
    /\ Push(t)
    /\ posted' = Append(posted, val[t])
    /\ UNCHANGED <<sent, life, running, done, received>>

Blocking(t) ==
    /\ Lock(t) \/ Wait(t) \/ SpuriousWake(t)
    /\ UNCHANGED <<sent, life, running, done, received, posted>>

\* The scope is over; the program goes on elsewhere.
Terminated == life = "destroyed" /\ UNCHANGED vars

Client == PrintProgress \/ Destroy \/ Join \/ Joined \/ \E s \in Senders : Send(s)

WorkerStep == Loop \/ Exit \/ Popped \/ Execute

QueueStep(t) == Pushing(t) \/ Blocking(t)

Next ==
    \/ Create
    \/ Client
    \/ WorkerStep
    \/ \E t \in Threads : QueueStep(t)
    \/ Terminated

Spec == Init /\ [][Next]_vars

(* Every thread that can run does: the worker and the owner are ordinary   *)
(* threads, and a thread that keeps competing for the mutex gets it (the   *)
(* strong fairness of Lock; std::mutex wakes a blocked thread at every     *)
(* unlock).  Nothing is assumed of SpuriousWake.                           *)
Fairness ==
    /\ WF_vars(Create)
    /\ WF_vars(Client)
    /\ WF_vars(WorkerStep)
    /\ \A t \in Threads :
         /\ WF_vars(Pushing(t))
         /\ WF_vars(Wait(t) /\ UNCHANGED <<sent, life, running, done, received, posted>>)
         /\ SF_vars(Lock(t) /\ UNCHANGED <<sent, life, running, done, received, posted>>)

FairSpec == Spec /\ Fairness

-----------------------------------------------------------------------------
(* Tasks run in the order in which the queue accepted them, and the tasks  *)
(* of one sender in the order it sent them, each once: the first assert    *)
(* of runStrWorkers and runIntWorkers, for any number of senders.          *)
InOrder ==
    /\ Len(received) <= Len(posted)
    /\ \A i \in 1..Len(received) : received[i] = posted[i]
    /\ \A i, j \in 1..Len(received) :
          i < j /\ received[i][1] = received[j][1] => received[i][2] < received[j][2]

(* When the scope has ended every task that was sent has run: the          *)
(* destructor's own task is behind all of them in the queue (the second    *)
(* assert of main.cpp, save_to_q.size() == num_items).                     *)
NothingLost ==
    life = "destroyed" =>
        \A s \in Senders : \A n \in 1..Sends :
            \E i \in 1..Len(received) : received[i] = <<s, n>>

(* done_ is set only by the destructor's task, run on the worker after     *)
(* everything else: from then on nothing is queued and nothing is stored   *)
(* (active.h: "to be set only on the active thread via a callback").       *)
DoneIsLast ==
    done => /\ queue = <<>>
            /\ running \in {"loop", "exited"}
            /\ \A s \in Senders : op[s] = "none"

(* The destructor returns: the worker never sleeps through its last task,  *)
(* and the progress loop before it ends.                                   *)
DestructorReturns == <>(life = "destroyed")

(* A task that was sent is eventually run.                                 *)
EveryTaskRuns ==
    \A s \in Senders : \A n \in 1..Sends :
        (sent[s] >= n) ~> (\E i \in 1..Len(received) : received[i] = <<s, n>>)

-----------------------------------------------------------------------------
(* The inductive invariant behind the three invariants above, in parts.    *)

\* Where each thread can be in the queue, and what it carries there.
InPush(s) == op[s] \in {"push", "pushing"}

ThreadShape ==
    /\ \A s \in Senders : op[s] = "none" \/ InPush(s)
    /\ op[Worker] \in {"none", "pop", "popping", "wait"}
    /\ running = "popping" <=> op[Worker] # "none"
    /\ cv \subseteq {Worker}
    /\ cv # {} => op[Worker] = "wait" /\ queue = <<>>

SendShape ==
    /\ \A s \in Senders : InPush(s) =>
          IF s = Owner /\ life = "dying" THEN val[s] = Done
          ELSE val[s] = <<s, sent[s]>> /\ sent[s] > 0
    /\ life # "sending" => \A s \in Senders : sent[s] = Sends /\ (s # Owner => op[s] = "none")
    /\ life \in {"progress", "joining", "destroyed"} => op[Owner] = "none"

\* The sends of s whose push is over.
Accepted(s) == IF InPush(s) /\ ~(s = Owner /\ life = "dying") THEN sent[s] - 1 ELSE sent[s]

\* The queue holds the log's tail; the worker has handled the rest.
Handled == Len(received) + (IF running = "calling" THEN 1 ELSE 0) + (IF done THEN 1 ELSE 0)

LogShape ==
    /\ Len(posted) = Handled + Len(queue)
    /\ \A i \in 1..Len(queue) : queue[i] = posted[Handled + i]
    /\ \A i \in 1..Len(received) : received[i] = posted[i]
    /\ running = "calling" => val[Worker] = posted[Handled]

\* Done ends the log, and the worker stops on it.
DoneShape ==
    /\ \A i \in 1..Len(posted) : posted[i] = Done =>
          i = Len(posted) /\ life \in {"dying", "joining", "destroyed"} /\ op[Owner] = "none"
    /\ life \in {"joining", "destroyed"} \/ (life = "dying" /\ op[Owner] = "none")
          => Len(posted) > 0 /\ posted[Len(posted)] = Done
    /\ done => /\ queue = <<>> /\ running \in {"loop", "exited"}
               /\ Len(posted) > 0 /\ posted[Len(posted)] = Done
    /\ running = "exited" => done
    /\ life = "destroyed" => running = "exited"

\* The log holds what was accepted, each sender's tasks in its order.
PostedShape ==
    /\ \A s \in Senders : \A n \in 1..Sends :
          n <= Accepted(s) => \E i \in 1..Len(posted) : posted[i] = <<s, n>>
    /\ \A s \in Senders : \A i \in 1..Len(posted) :
          posted[i] # Done /\ posted[i][1] = s => posted[i][2] <= Accepted(s)
    /\ \A i, j \in 1..Len(posted) :
          i < j /\ posted[i] # Done /\ posted[j] # Done /\ posted[i][1] = posted[j][1]
              => posted[i][2] < posted[j][2]

IInv ==
    /\ TypeOK
    /\ MutualExclusion
    /\ ThreadShape
    /\ SendShape
    /\ LogShape
    /\ DoneShape
    /\ PostedShape
=============================================================================
