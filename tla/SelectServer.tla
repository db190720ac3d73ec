---------------------------- MODULE SelectServer ----------------------------
(***************************************************************************)
(* The main loop of selectserver.cpp: select, one pass over the            *)
(* descriptors up to maxfd, and the loop that sends what was received to   *)
(* everyone else.                                                          *)
(***************************************************************************)
EXTENDS Sockets

CONSTANT NoCast        \* no message is being sent around

VARIABLES master,      \* master
          read_fds,    \* read_fds
          maxfd,       \* maxfd
          at,          \* i of the pass over the descriptors; 0 in select()
          cast         \* buf and j of the innermost loop, or NoCast

selectVars == <<master, read_fds, maxfd, at, cast>>

SelectInit ==
    /\ master = {Listener} /\ read_fds = {}
    /\ maxfd = Listener
    /\ at = 0
    /\ cast = NoCast

\* To the next descriptor up to the limit, or back to select() behind it.
Onward(limit) == at' = IF at + 1 > limit THEN 0 ELSE at + 1

\* select() returns when something up to maxfd is ready.
Select ==
    /\ at = 0
    /\ read_fds' = {f \in master : f <= maxfd /\ Readable(f)}
    /\ read_fds' # {}
    /\ at' = 1
    /\ UNCHANGED <<socketVars, master, maxfd, cast>>

NotReady ==
    /\ at > 0 /\ at \notin read_fds
    /\ Onward(maxfd)
    /\ UNCHANGED <<socketVars, master, read_fds, maxfd, cast>>

\* Mutant: maxfd is not raised.
NotRaised(f) == maxfd' = maxfd

Raised(f) == maxfd' = IF f > maxfd THEN f ELSE maxfd

NewConnection ==
    /\ at = Listener /\ at \in read_fds
    /\ \/ \E f \in Fds : Accept(f) /\ master' = master \cup {f} /\ Raised(f)
       \/ UNCHANGED <<socketVars, master, maxfd>>
    /\ Onward(maxfd')
    /\ UNCHANGED <<read_fds, cast>>

\* Mutant: the descriptor is closed and stays in master.
Kept(f) == master' = master

\* FD_CLR; maxfd stays.
Cleared(f) == master' = master \ {f}

Closing ==
    /\ at > Listener /\ at \in read_fds /\ cast = NoCast
    /\ NothingToReceive(at)
    /\ Close(at)
    /\ Cleared(at)
    /\ Onward(maxfd)
    /\ UNCHANGED <<read_fds, maxfd, cast>>

StartCast ==
    /\ at > Listener /\ at \in read_fds /\ cast = NoCast
    /\ Receive(at)
    /\ cast' = [msg |-> Head(inbox[owner[at]]), j |-> 1]
    /\ UNCHANGED <<master, read_fds, maxfd, at>>

\* The loop over j, which ends before maxfd.
Casting == cast # NoCast /\ cast.j # maxfd

\* Mutant: the test is of read_fds.
AddresseeReady == cast.j \in read_fds /\ cast.j # Listener /\ cast.j # at

Addressee == cast.j \in master /\ cast.j # Listener /\ cast.j # at

NotAddressed ==
    /\ Casting /\ ~Addressee
    /\ cast' = [cast EXCEPT !.j = @ + 1]
    /\ UNCHANGED <<socketVars, master, read_fds, maxfd, at>>

\* send, and on to the next whether or not it fails.
CastTo ==
    /\ Casting /\ Addressee
    /\ Send(cast.j, cast.msg, Size) \/ SendFails(cast.j)
    /\ cast' = [cast EXCEPT !.j = @ + 1]
    /\ UNCHANGED <<master, read_fds, maxfd, at>>

SelectKilled ==
    /\ Casting /\ Addressee
    /\ Killed(cast.j)
    /\ UNCHANGED selectVars

EndCast ==
    /\ cast # NoCast /\ cast.j = maxfd
    /\ cast' = NoCast
    /\ Onward(maxfd)
    /\ UNCHANGED <<socketVars, master, read_fds, maxfd>>

SelectStep ==
    /\ up
    /\ \/ Select \/ NotReady \/ NewConnection \/ Closing \/ StartCast
       \/ NotAddressed \/ CastTo \/ SelectKilled \/ EndCast
=============================================================================
