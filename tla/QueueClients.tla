---------------------------- MODULE QueueClients ----------------------------
(***************************************************************************)
(* threadsafe_queue under its most general clients: every thread may call  *)
(* push, wait_and_pop or try_pop at any time.  Each value is pushed at     *)
(* most once, so that the order of the elements can be told.               *)
(***************************************************************************)
EXTENDS ThreadsafeQueue

ASSUME ThreadsAreFinite == IsFiniteSet(Threads)

VARIABLES pushed,      \* history: the arguments of push, in the order it stored them
          popped       \* history: the results handed to the callers of the pops

clientsVars == <<queue, mtx, cv, op, val, pushed, popped>>

ClientsInit == QueueInit /\ pushed = <<>> /\ popped = <<>>

Offered == {pushed[i] : i \in 1..Len(pushed)} \cup {val[t] : t \in {u \in Threads : op[u] \in {"push", "pushing"}}}

Calling(t) ==
    /\ \/ \E v \in Values \ Offered : CallPush(t, v)
       \/ CallWaitAndPop(t)
       \/ CallTryPop(t)
    /\ UNCHANGED <<pushed, popped>>

Pushing(t) ==
    /\ Push(t)
    /\ pushed' = Append(pushed, val[t])
    /\ UNCHANGED popped

Popping(t) ==
    /\ WaitAndPop(t) \/ TryPop(t)
    /\ popped' = IF val'[t] # NoValue THEN Append(popped, val'[t]) ELSE popped
    /\ UNCHANGED pushed

Blocking(t) == (Lock(t) \/ Wait(t) \/ SpuriousWake(t)) /\ UNCHANGED <<pushed, popped>>

ClientsNext == \E t \in Threads : Calling(t) \/ Pushing(t) \/ Popping(t) \/ Blocking(t)

ClientsSpec == ClientsInit /\ [][ClientsNext]_clientsVars

-----------------------------------------------------------------------------
(* threadsafe_queue is a FIFO: each pushed element is handed to exactly    *)
(* one popping thread, in push order, whatever the interleaving.           *)
F == INSTANCE Fifo WITH Elements <- Values
ImplementsFifo == F!Spec

(* What left the queue and what is in it make up what entered it: an       *)
(* element is neither lost nor duplicated between push and pop.            *)
Conservation == pushed = popped \o queue

\* What makes the properties inductive: the waiters are inside wait_and_pop,
\* and a thread carries a value only into push and out of a pop.
Carried ==
    /\ \A t \in cv : op[t] = "wait"
    /\ \A t \in Threads :
          /\ op[t] \in {"push", "pushing"} => val[t] \in Values
          /\ op[t] \in {"pop", "popping", "wait", "try", "trying"} => val[t] = NoValue

QInv ==
    /\ QueueTypeOK
    /\ pushed \in Seq(Values) /\ popped \in Seq(Values)
    /\ Carried
    /\ MutualExclusion
    /\ Conservation
    /\ NoLostWakeup
=============================================================================
