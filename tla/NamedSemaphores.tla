-------------------------- MODULE NamedSemaphores --------------------------
(* The named semaphores of Multithreading/Semaphore: objects of several     *)
(* threads or processes that open one name.  An owning object unlinks the   *)
(* name when it is destroyed, and terminates the program when it cannot;    *)
(* a moved-from object keeps its handle but has no name left.  The kernel's *)
(* semaphores are external: a name stands for one semaphore until it is     *)
(* unlinked, a semaphore lives on under the handles to it, which the code   *)
(* never closes.                                                            *)
(* Bounds: the objects SemObjects, each constructed once, SemMax semaphores *)
(* under the one name, SemPosts posts.                                      *)
EXTENDS Integers, Sequences, FiniteSets

CONSTANTS SemObjects, SemMax, SemPosts

ASSUME SemConstants == IsFiniteSet(SemObjects) /\ SemMax \in Nat /\ SemPosts \in Nat

VARIABLES linked,   \* the semaphore that the name stands for, 0 when it is unlinked
          value,    \* of every semaphore that was created
          object,   \* of every object its state, handle and name
          blocked, posts, takes, terminated,
          owners,   \* how many owning objects were constructed
          ownersGone, \* how many of them unlinked, or tried to
          ownerMoved

semVars == <<linked, value, object, blocked, posts, takes, terminated,
             owners, ownersGone, ownerMoved>>

Fresh == [state |-> "none", owning |-> FALSE, sem |-> 0, named |-> FALSE]

SemInit ==
    /\ linked = 0 /\ value = <<>>
    /\ object = [o \in SemObjects |-> Fresh]
    /\ blocked = {} /\ terminated = {}
    /\ owners = 0 /\ ownersGone = 0 /\ ownerMoved = FALSE
    /\ posts = [s \in 1 .. SemMax |-> 0] /\ takes = [s \in 1 .. SemMax |-> 0]

Live(o) == object[o].state = "live" /\ o \notin blocked

Running == terminated = {}

-----------------------------------------------------------------------------
\* Mutant: the name always gets a semaphore of its own.
ConstructAnew(o, owning) ==
    /\ object[o].state = "none"
    /\ Len(value) < SemMax /\ value' = Append(value, 0) /\ linked' = Len(value) + 1
    /\ object' = [object EXCEPT ![o] =
                    [state |-> "live", owning |-> owning, sem |-> linked', named |-> TRUE]]
    /\ owners' = owners + (IF owning THEN 1 ELSE 0)
    /\ UNCHANGED <<blocked, posts, takes, terminated, ownersGone, ownerMoved>>

(* sem_open with O_CREAT: the semaphore of the name, or a new one of value  *)
(* zero.                                                                    *)
Construct(o, owning) ==
    /\ object[o].state = "none"
    /\ IF linked # 0 THEN UNCHANGED <<linked, value>>
       ELSE /\ Len(value) < SemMax
            /\ value' = Append(value, 0)
            /\ linked' = Len(value) + 1
    /\ object' = [object EXCEPT ![o] =
                    [state |-> "live", owning |-> owning, sem |-> linked', named |-> TRUE]]
    /\ owners' = owners + (IF owning THEN 1 ELSE 0)
    /\ UNCHANGED <<blocked, posts, takes, terminated, ownersGone, ownerMoved>>

\* Mutant: what is posted goes to the semaphore that has the name now.
PostToTheName(o) ==
    /\ Live(o) /\ posts[object[o].sem] < SemPosts /\ linked # 0 /\ value[linked] < SemPosts
    /\ posts' = [posts EXCEPT ![object[o].sem] = @ + 1]
    /\ value' = [value EXCEPT ![linked] = @ + 1]
    /\ UNCHANGED <<linked, object, blocked, takes, terminated>>

Post(o) ==
    /\ Live(o) /\ posts[object[o].sem] < SemPosts
    /\ posts' = [posts EXCEPT ![object[o].sem] = @ + 1]
    /\ value' = [value EXCEPT ![object[o].sem] = @ + 1]
    /\ UNCHANGED <<linked, object, blocked, takes, terminated>>

\* Mutant: a waiter that was asleep takes without looking again.
TakeAnyway(o) ==
    /\ value' = [value EXCEPT ![object[o].sem] = @ - 1]
    /\ takes' = [takes EXCEPT ![object[o].sem] = @ + 1]
    /\ blocked' = blocked \ {o}
    /\ UNCHANGED <<linked, object, posts, terminated>>

(* What a semaphore that is taken by o is left with; the waiter, if it was  *)
(* asleep, goes on.                                                         *)
Take(o) ==
    /\ value[object[o].sem] > 0
    /\ value' = [value EXCEPT ![object[o].sem] = @ - 1]
    /\ takes' = [takes EXCEPT ![object[o].sem] = @ + 1]
    /\ blocked' = blocked \ {o}
    /\ UNCHANGED <<linked, object, posts, terminated>>

(* wait(): a waiter that finds nothing sleeps until it can take.            *)
StartWait(o) ==
    /\ Live(o) /\ value[object[o].sem] = 0 /\ blocked' = blocked \cup {o}
    /\ UNCHANGED <<linked, value, object, posts, takes, terminated>>

WaitEnds(o) == o \in blocked /\ Take(o)

(* wait() that finds something; try_wait(), which returns FALSE where       *)
(* nothing can be taken, try_wait_until() and try_wait_for(), which do so   *)
(* when the time is over: only the taking changes state.                    *)
TryWait(o) == Live(o) /\ Take(o)

(* sem_unlink: fails where the name is gone, and the empty name of a moved- *)
(* from object never was one; the functions that call it are noexcept.      *)
Unlink(o) ==
    /\ IF linked # 0 /\ object[o].named THEN linked' = 0 /\ UNCHANGED terminated
       ELSE terminated' = {o} /\ UNCHANGED linked
    /\ ownersGone' = ownersGone + 1

\* Mutant: the name is unlinked by whoever lets go of it.
UnlinkAlways(o) == Unlink(o)

UnlinkIfOwning(o) ==
    IF object[o].owning THEN Unlink(o) ELSE UNCHANGED <<linked, terminated, ownersGone>>

Destroy(o) ==
    /\ Live(o)
    /\ UnlinkIfOwning(o)
    /\ object' = [object EXCEPT ![o].state = "gone"]
    /\ UNCHANGED <<value, blocked, posts, takes, owners, ownerMoved>>

Moved(o, from) ==
    /\ object' = [object EXCEPT ![o] = object[from], ![from].named = FALSE]
    /\ ownerMoved' = (ownerMoved \/ object[from].owning)
    /\ UNCHANGED <<value, blocked, posts, takes, owners>>

MoveConstruct(o, from) ==
    /\ object[o].state = "none" /\ Live(from)
    /\ Moved(o, from)
    /\ UNCHANGED <<linked, terminated, ownersGone>>

(* Move assignment of an owning object unlinks its own name first; one that *)
(* does not own only takes over the handle and the name.                    *)
MoveAssign(o, from) ==
    /\ Live(o) /\ Live(from) /\ o # from /\ object[o].owning = object[from].owning
    /\ Moved(o, from)
    /\ UnlinkIfOwning(o)

SemNext ==
    /\ Running
    /\ \E o \in SemObjects :
        \/ \E owning \in BOOLEAN : Construct(o, owning)
        \/ /\ Post(o) \/ StartWait(o) \/ WaitEnds(o) \/ TryWait(o)
           /\ UNCHANGED <<owners, ownersGone, ownerMoved>>
        \/ Destroy(o)
        \/ \E from \in SemObjects : MoveConstruct(o, from) \/ MoveAssign(o, from)

SemSpec == SemInit /\ [][SemNext]_semVars

-----------------------------------------------------------------------------
Objects == [state : {"none", "live", "gone"}, owning : BOOLEAN,
            sem : 0 .. SemMax, named : BOOLEAN]

SemTypeOK ==
    /\ value \in Seq(0 .. SemPosts) /\ Len(value) <= SemMax
    /\ linked \in 0 .. Len(value)
    /\ object \in [SemObjects -> Objects]
    /\ blocked \subseteq SemObjects /\ terminated \subseteq SemObjects
    /\ posts \in [1 .. SemMax -> 0 .. SemPosts] /\ takes \in [1 .. SemMax -> 0 .. SemPosts]
    /\ owners \in 0 .. Cardinality(SemObjects) /\ ownersGone \in 0 .. SemMax + 1
    /\ ownerMoved \in BOOLEAN

(* Every semaphore holds what was posted to it and not yet taken, whoever   *)
(* opened, moved or destroyed an object of it meanwhile.                    *)
NothingTakenTwice == \A s \in DOMAIN value : value[s] = posts[s] - takes[s]

(* Objects of one name share one semaphore: a second one comes into being   *)
(* only where an owner gave the name up.                                    *)
OneSemaphorePerName ==
    /\ Len(value) <= ownersGone + 1
    /\ ownersGone = 0 => \A o, p \in SemObjects :
          object[o].state = "live" /\ object[p].state = "live" =>
              object[o].sem = object[p].sem

(* A program in which one object at most owns the name and none is moved is *)
(* never terminated by the destructors; nor is one in which the objects     *)
(* that were moved own nothing.                                             *)
OneOwnerIsSafe == owners <= 1 /\ ~ownerMoved => terminated = {}

-----------------------------------------------------------------------------
(* The inductive invariant, in parts.                                       *)

\* The objects that were constructed; an object that is none has no handle.
Made == {o \in SemObjects : object[o].state # "none"}
Owning(o) == object[o].state = "live" /\ object[o].owning = TRUE

HandlesAreOpen == \A o \in SemObjects :
    object[o].state = "live" => object[o].sem \in 1 .. Len(value)

\* An object that is waited on is not destroyed: its thread is in wait().
SleepersLive == \A o \in blocked : object[o].state = "live"

\* The semaphores not created yet are untouched.
CountsAgree == \A s \in 1 .. SemMax :
    IF s \in 1 .. Len(value) THEN value[s] = posts[s] - takes[s]
    ELSE posts[s] = 0 /\ takes[s] = 0

\* Every semaphore but the linked one lost its name to an unlink that found it;
\* the one unlink that finds none ends the program.
UnlinksMatchCreations ==
    Len(value) + (IF terminated = {} THEN 0 ELSE 1) = ownersGone + (IF linked = 0 THEN 0 ELSE 1)

OwnersCounted ==
    /\ owners <= Cardinality(Made)
    /\ ownersGone > 0 => owners > 0
    /\ \A o \in SemObjects : Owning(o) => owners > 0

\* The one owner, while it lives, has its name, and nobody has unlinked it.
TheOwner == owners <= 1 /\ ownerMoved = FALSE =>
    /\ terminated = {}
    /\ \A o \in SemObjects : Owning(o) =>
          /\ object[o].named = TRUE /\ ownersGone = 0
          /\ \A p \in SemObjects : Owning(p) => p = o

SemInv == /\ HandlesAreOpen /\ SleepersLive /\ CountsAgree /\ UnlinksMatchCreations
          /\ OwnersCounted /\ TheOwner

(* Posts are taken once, from the one semaphore of the name, and one owner  *)
(* is never terminated by its destructors; with what this follows from.     *)
SemaphoresOK == NothingTakenTwice /\ OneSemaphorePerName /\ OneOwnerIsSafe /\ SemInv
=============================================================================
