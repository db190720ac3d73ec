----------------------------- MODULE SharedQueues -----------------------------
(***************************************************************************)
(* What threads do to the queues they share, beyond the clients of the     *)
(* other modules: every operation of olc's tsqueue (net_tsqueue.h) with    *)
(* update's "not empty, then pop_front", and the assignment of             *)
(* threadsafe_queue (Active_object/threadsafe_queue.h).  An operation is   *)
(* one step under its mutex, but for what waits: in the condition variable *)
(* or, an assignment, for two mutexes.                                     *)
(***************************************************************************)
EXTENDS Naturals, SequencesExt, FiniteSetsExt

CONSTANTS QueueUsers,     \* threads: positive numbers
          Updater,        \* the one that calls update
          PushMax         \* bound: pushes

ASSUME SharedConstants ==
    /\ IsFiniteSet(QueueUsers) /\ QueueUsers \subseteq Nat \ {0}
    /\ Updater \in QueueUsers /\ PushMax \in Nat

VARIABLES use,            \* what the threads do with the queues, "none" before
          data_,          \* the elements of each queue
          call,           \* of each thread: the operation it is in, and how far
          holder,         \* the thread that holds each queue's mutex
          pushes, poppedSet,  \* history: how many were pushed, and which were popped
          unheard         \* history: how many elements of each queue no wake is left for

sharedVars == <<use, data_, call, holder, pushes, poppedSet, unheard>>

Queues == {"this", "other"}
Free == 0               \* no thread
None == [op |-> "none", at |-> "idle", q |-> "this", from |-> "this"]
In(op, at, q) == [op |-> op, at |-> at, q |-> q, from |-> q]
Sleeping(q) == {t \in QueueUsers : call[t].at = "waiting" /\ call[t].q = q}
Awake(q) == {t \in QueueUsers : call[t].at = "woken" /\ call[t].q = q}
AtMost(n, s) == IF n > Len(s) THEN Len(s) ELSE n

-----------------------------------------------------------------------------
(* push_front, push_back; emplace and push: notify_one under the lock      *)
\* Mutant: nobody is notified.
NotifyNobody(q, calls) == {calls}
WakeOne(q, calls) ==
    IF Sleeping(q) = {} THEN {calls}
    ELSE {[calls EXCEPT ![t].at = "woken"] : t \in Sleeping(q)}
\* Mutant: the element was moved from before it is put into the queue.
PushEmptied(t, q, front) ==
    /\ call[t] = None /\ holder[q] = Free /\ pushes < PushMax
    /\ pushes' = pushes + 1 /\ data_' = [data_ EXCEPT ![q] = Append(@, 0)]
    /\ call' \in WakeOne(q, call)
    /\ UNCHANGED <<use, holder, poppedSet, unheard>>
PushTo(t, q, front) ==
    /\ call[t] = None /\ holder[q] = Free /\ pushes < PushMax
    /\ pushes' = pushes + 1
    /\ LET v == IF use = "assigning" THEN 1 ELSE pushes'
       IN  data_' = [data_ EXCEPT ![q] = IF front THEN <<v>> \o @ ELSE Append(@, v)]
    /\ call' \in WakeOne(q, call)
    /\ UNCHANGED <<use, holder, poppedSet, unheard>>

Taking(op) == op \in {"wait_pop_front", "wait_pop_back"}
Element(op, q) == IF op = "wait_pop_back" THEN Last(data_[q]) ELSE Head(data_[q])
\* Mutant: the element is read and left in the queue.
FoundAndLeft(t, op, q) ==
    /\ call' = [call EXCEPT ![t] = IF op = "update" THEN In("update", "check", q) ELSE None]
    /\ UNCHANGED data_
    /\ poppedSet' = IF Taking(op) /\ use # "assigning" THEN poppedSet \cup {Element(op, q)}
                    ELSE poppedSet
    /\ UNCHANGED unheard
(* The predicate holds: the lock is kept while the element is popped.      *)
(* wait_for_data takes none, but the wake it had is used up.               *)
FoundData(t, op, q) ==
    /\ call' = [call EXCEPT ![t] = IF op = "update" THEN In("update", "check", q) ELSE None]
    /\ IF Taking(op)
       THEN /\ poppedSet' = IF use = "assigning" THEN poppedSet ELSE poppedSet \cup {Element(op, q)}
            /\ data_' = [data_ EXCEPT ![q] = IF op = "wait_pop_back" THEN Front(@) ELSE Tail(@)]
       ELSE UNCHANGED <<data_, poppedSet>>
    /\ unheard' = [unheard EXCEPT ![q] =
                     AtMost(IF op = "wait_for_data" /\ call[t].at = "woken" THEN @ + 1 ELSE @,
                            data_'[q])]
WaitFor(t, op, q) ==
    /\ call[t] = None /\ holder[q] = Free
    /\ \/ data_[q] = <<>> /\ call' = [call EXCEPT ![t] = In(op, "waiting", q)]
          /\ UNCHANGED <<data_, poppedSet, unheard>>
       \/ data_[q] # <<>> /\ FoundData(t, op, q)
    /\ UNCHANGED <<use, holder, pushes>>
Wake(t) ==
    LET c == call[t]
    IN  /\ c.at = "woken" /\ holder[c.q] = Free
        /\ \/ /\ data_[c.q] = <<>> /\ call' = [call EXCEPT ![t].at = "waiting"]
              /\ UNCHANGED <<data_, poppedSet, unheard>>
           \/ data_[c.q] # <<>> /\ FoundData(t, c.op, c.q)
        /\ UNCHANGED <<use, holder, pushes>>
Spurious(t) ==
    /\ call[t].at = "waiting" /\ call' = [call EXCEPT ![t].at = "woken"]
    /\ UNCHANGED <<use, data_, holder, pushes, poppedSet, unheard>>

(* update after its wait: while not empty, pop_front, which expects that   *)
UpdateCheck(t) ==
    /\ call[t].at = "check"
    /\ call' = [call EXCEPT ![t] = IF data_[call[t].q] = <<>> THEN None
                                   ELSE In("update", "pop", call[t].q)]
    /\ UNCHANGED <<use, data_, holder, pushes, poppedSet, unheard>>
\* Mutant: update takes the message that came last.
UpdatePopBack(t) ==
    /\ call[t].at = "pop" /\ data_[call[t].q] # <<>>
    /\ poppedSet' = poppedSet \cup {Last(data_[call[t].q])}
    /\ data_' = [data_ EXCEPT ![call[t].q] = Front(@)]
    /\ call' = [call EXCEPT ![t].at = "check"]
    /\ UNCHANGED <<use, holder, pushes, unheard>>
UpdatePop(t) ==
    /\ call[t].at = "pop" /\ data_[call[t].q] # <<>>
    /\ poppedSet' = poppedSet \cup {Head(data_[call[t].q])}
    /\ data_' = [data_ EXCEPT ![call[t].q] = Tail(@)]
    /\ call' = [call EXCEPT ![t].at = "check"]
    /\ UNCHANGED <<use, holder, pushes, unheard>>

Clear(t) ==
    /\ call[t] = None /\ data_["this"] # <<>> /\ data_' = [data_ EXCEPT !["this"] = <<>>]
    /\ unheard' = [unheard EXCEPT !["this"] = 0]
    /\ UNCHANGED <<use, call, holder, pushes, poppedSet>>

-----------------------------------------------------------------------------
(* operator=, from a copy or a temporary: not of itself; std::lock takes   *)
(* both mutexes or waits with none                                         *)
CallAssign(t, to, from) ==
    /\ call[t] = None /\ to # from
    /\ call' = [call EXCEPT ![t] = [op |-> "assign", at |-> "locking", q |-> to, from |-> from]]
    /\ UNCHANGED <<use, data_, holder, pushes, poppedSet, unheard>>
\* Mutant: the two mutexes are locked one after the other.
LockInTurn(t) ==
    /\ call[t].at = "locking"
    /\ \/ /\ holder[call[t].q] = Free /\ holder' = [holder EXCEPT ![call[t].q] = t]
          /\ UNCHANGED call
       \/ /\ holder[call[t].q] = t /\ holder[call[t].from] = Free
          /\ holder' = [holder EXCEPT ![call[t].from] = t]
          /\ call' = [call EXCEPT ![t].at = "copying"]
    /\ UNCHANGED <<use, data_, pushes, poppedSet, unheard>>
StdLock(t) ==
    /\ call[t].at = "locking" /\ \A q \in {call[t].q, call[t].from} : holder[q] = Free
    /\ holder' = [holder EXCEPT ![call[t].q] = t, ![call[t].from] = t]
    /\ call' = [call EXCEPT ![t].at = "copying"]
    /\ UNCHANGED <<use, data_, pushes, poppedSet, unheard>>
Assign(t) ==        \* the temporary's elements are copied too; nobody is notified
    /\ call[t].at = "copying"
    /\ data_' = [data_ EXCEPT ![call[t].q] = data_[call[t].from]]
    /\ holder' = [q \in Queues |-> Free]
    /\ unheard' = [unheard EXCEPT ![call[t].q] = Len(data_'[call[t].q])]
    /\ call' = [call EXCEPT ![t] = None]
    /\ UNCHANGED <<use, pushes, poppedSet>>
(* the move constructor, in the place of a queue that nobody uses any more *)
MoveConstructQueue(t) ==
    /\ call[t] = None /\ holder["other"] = Free
    /\ \A u \in QueueUsers : call[u] = None \/ (call[u].op # "assign" /\ call[u].q = "other")
    /\ data_' = [data_ EXCEPT !["this"] = data_["other"], !["other"] = <<>>]
    /\ unheard' = [q \in Queues |-> 0]
    /\ UNCHANGED <<use, call, holder, pushes, poppedSet>>

-----------------------------------------------------------------------------
SharedInit ==
    /\ use = "none" /\ pushes = 0 /\ poppedSet = {} /\ unheard = [q \in Queues |-> 0]
    /\ data_ = [q \in Queues |-> <<>>] /\ holder = [q \in Queues |-> Free]
    /\ call = [t \in QueueUsers |-> None]
Uses == {"updating", "popping", "watching", "assigning"}
StartUse ==
    /\ use = "none" /\ use' \in Uses
    /\ UNCHANGED <<data_, call, holder, pushes, poppedSet, unheard>>

UseStep(t) ==
    \/ Wake(t) \/ Spurious(t) \/ UpdateCheck(t) \/ UpdatePop(t) \/ StdLock(t) \/ Assign(t)
    \/ use = "updating" /\ (IF t = Updater THEN WaitFor(t, "update", "this")
                            ELSE PushTo(t, "this", FALSE))
    \/ use \in {"popping", "watching"} /\
          \/ \E front \in BOOLEAN : PushTo(t, "this", front)
          \/ \E op \in {"wait_pop_front", "wait_pop_back"} : WaitFor(t, op, "this")
          \/ use = "watching" /\ WaitFor(t, "wait_for_data", "this")
          \/ Clear(t)
    \/ use = "assigning" /\ \E q \in Queues :
          \/ PushTo(t, q, FALSE) \/ WaitFor(t, "wait_pop_front", q)
          \/ \E from \in Queues : CallAssign(t, q, from)
    \/ use = "assigning" /\ MoveConstructQueue(t)

SharedNext == StartUse \/ (use # "none" /\ \E t \in QueueUsers : UseStep(t))

SharedSpec == SharedInit /\ [][SharedNext]_sharedVars

-----------------------------------------------------------------------------
WaitOps == {"update", "wait_pop_front", "wait_pop_back", "wait_for_data"}
Calls == [op : WaitOps \cup {"none", "assign"}, q : Queues, from : Queues,
          at : {"idle", "waiting", "woken", "check", "pop", "locking", "copying"}]

SharedTypeOK ==
    /\ use \in Uses \cup {"none"} /\ data_ \in [Queues -> Seq(1..PushMax)]
    /\ call \in [QueueUsers -> Calls] /\ holder \in [Queues -> QueueUsers \cup {Free}]
    /\ pushes \in 0..PushMax /\ poppedSet \subseteq 1..PushMax
    /\ unheard \in [Queues -> 0..PushMax]

(* The one thread that updates finds what it checked for, and takes the    *)
(* messages in the order in which the others pushed them.                  *)
UpdateFindsWhatItSaw ==
    use = "updating" =>
        /\ call[Updater].at = "pop" => data_["this"] # <<>>
        /\ poppedSet = 1..(pushes - Len(data_["this"]))
        /\ \A i \in DOMAIN data_["this"] : data_["this"][i] = Cardinality(poppedSet) + i

(* However many wait and whichever end they take from, every element that *)
(* lies beside a sleeper has somebody awake for it, but for the elements   *)
(* the code leaves unheard: the ones an assignment brings, which notifies  *)
(* nobody, until they are taken, and one for each wake that wait_for_data  *)
(* had, which takes nothing.                                               *)
NoElementBesideASleeper ==
    \A q \in Queues :
        Sleeping(q) # {} => Cardinality(Awake(q)) + unheard[q] >= Len(data_[q])

(* No thread waits for a mutex while it holds one, so assignments in both  *)
(* directions cannot wait for each other; and both are held in the copy.   *)
NobodyHoldsAndWaits ==
    \A t \in QueueUsers :
        /\ call[t].at # "copying" => \A q \in Queues : holder[q] # t
        /\ call[t].at = "copying" => \A q \in Queues : holder[q] = t

(* No element is in the queue twice, or still there when it was popped.    *)
TakenOnce ==
    use # "assigning" =>
        IsInjective(data_["this"])
        /\ \A i \in DOMAIN data_["this"] : data_["this"][i] \notin poppedSet

-----------------------------------------------------------------------------
(* The inductive invariant, in parts.                                      *)

\* What the threads may be doing, by the use that is made of the queues.
Fits(t) ==
    /\ use = "none" => call[t] = None
    /\ call[t].at \in {"waiting", "woken"} => call[t].op \in WaitOps
    /\ call[t].at \in {"check", "pop"} => call[t].op = "update"
    /\ call[t].op = "update" => use = "updating"
    /\ use = "updating" => call[t].op \in {"none", "update"} /\ (t # Updater => call[t] = None)
    /\ call[t].at \in {"locking", "copying"} => use = "assigning" /\ call[t].q # call[t].from
    /\ use # "assigning" => call[t].q = "this"
CallsFit == \A t \in QueueUsers : Fits(t)

HoldersCopy ==
    /\ NobodyHoldsAndWaits
    /\ \A q \in Queues : holder[q] # Free => call[holder[q]].at = "copying"

NoMoreThanPushed ==
    /\ \A q \in Queues : Len(data_[q]) <= pushes
    /\ use = "none" => pushes = 0
    /\ use # "assigning" =>
          /\ poppedSet \subseteq 1..pushes
          /\ \A i \in 1..Len(data_["this"]) : data_["this"][i] <= pushes

\* The queue holds the last of the numbers 1..pushes, the popped ones are the rest.
InPushOrder ==
    use \in {"none", "updating"} =>
        /\ poppedSet = 1..(pushes - Len(data_["this"]))
        /\ \A i \in 1..Len(data_["this"]) :
              data_["this"][i] = pushes - Len(data_["this"]) + i

\* What update is about to pop is still there.
SawOne == call[Updater].at = "pop" => data_["this"] # <<>>

SharedInv == /\ CallsFit /\ HoldersCopy /\ NoMoreThanPushed /\ InPushOrder
             /\ SawOne /\ TakenOnce /\ NoElementBesideASleeper

(* update pops what it saw, in order; no wake is lost but as said; threads  *)
(* that assign cannot wait for each other; an element is taken once.        *)
SharedQueuesOK == UpdateFindsWhatItSaw /\ NoElementBesideASleeper
                  /\ NobodyHoldsAndWaits /\ TakenOnce /\ SharedInv
=============================================================================
