----------------------------- MODULE PollServer -----------------------------
(***************************************************************************)
(* The main loop of poll_server.cpp: poll, one pass over the vector pfds,  *)
(* and for each client with data the loop that sends it to everyone else.  *)
(***************************************************************************)
EXTENDS Sockets

CONSTANT NoRelay       \* no message is being relayed

VARIABLES pfds,        \* pfds: the descriptors, and their revents & POLLIN
          i,           \* i of the pass, from 1; 0 in poll()
          relay        \* buf, sender_fd, nbytes and j of the innermost loop, or
                       \* NoRelay; history: cut, the j of the sendall that failed

pollVars == <<pfds, i, relay>>

make_pollfd(f) == [fd |-> f, ready |-> FALSE]

PollInit == pfds = <<make_pollfd(Listener)>> /\ i = 0 /\ relay = NoRelay

\* The entries a pass looks at.  It ends when i is the size of pfds and no
\* entry is left; when the last entry hung up, i steps over that size, and the
\* pass goes on in the memory behind the vector, where any descriptor may
\* stand (0: a number that is no socket of the server).
Astray == i > Len(pfds)

Seen ==
    IF i = 0 THEN {}
    ELSE IF Astray THEN [fd : Fds \cup {Listener, 0}, ready : {TRUE}]
    ELSE {pfds[i]}

\* Mutant: the pass does not end.
AdvancePast(entries) == i' = i + 1

\* To the next entry, or back to poll() behind the last one; how far behind the
\* vector a pass has come makes no difference.
Advance(entries) ==
    i' = IF i = Len(entries) THEN 0 ELSE IF i < Len(entries) THEN i + 1 ELSE Len(entries) + 2

\* poll() returns when something is ready.
Poll ==
    /\ i = 0
    /\ \E k \in 1..Len(pfds) : Readable(pfds[k].fd)
    /\ pfds' = [k \in 1..Len(pfds) |-> [pfds[k] EXCEPT !.ready = Readable(pfds[k].fd)]]
    /\ i' = 1
    /\ UNCHANGED <<socketVars, relay>>

Skip(e) ==
    /\ ~e.ready
    /\ Advance(pfds)
    /\ UNCHANGED <<socketVars, pfds, relay>>

\* The listener is ready: accept, which may also fail.
AcceptNew(e) ==
    /\ e.ready /\ e.fd = Listener /\ relay = NoRelay
    /\ \/ \E f \in Fds : Accept(f) /\ pfds' = Append(pfds, make_pollfd(f))
       \/ UNCHANGED <<socketVars, pfds>>
    /\ Advance(pfds')
    /\ UNCHANGED relay

\* Mutant: pop_back without moving the last entry into the place of the i-th.
PopBack(k) == SubSeq(pfds, 1, Len(pfds) - 1)

\* The last entry takes the place of the k-th, which may be behind the vector,
\* and the pass goes on behind it.
del_from_pfds(k) == [n \in 1..(Len(pfds) - 1) |-> IF n = k THEN Last(pfds) ELSE pfds[n]]

\* recv has nothing, or fails because the descriptor is not open.
HangUp(e) ==
    /\ e.ready /\ e.fd # Listener /\ relay = NoRelay /\ pfds # <<>>
    /\ IF e.fd \in OpenFds THEN NothingToReceive(e.fd) /\ Close(e.fd) ELSE UNCHANGED socketVars
    /\ pfds' = del_from_pfds(i)
    /\ Advance(pfds')
    /\ UNCHANGED relay

StartRelay(e) ==
    /\ e.ready /\ e.fd \in OpenFds /\ relay = NoRelay
    /\ Receive(e.fd)
    /\ relay' = [msg |-> Head(inbox[owner[e.fd]]), sender |-> e.fd, nbytes |-> Size, cut |-> 0, j |-> 1]
    /\ UNCHANGED <<pfds, i>>

\* Behind the vector the pass reads, and del_from_pfds writes and pops, what is
\* not there, and may end the server at any entry.
Crash ==
    /\ Astray /\ relay = NoRelay
    /\ up' = FALSE
    /\ UNCHANGED <<peerVars, backlog, owner, received, got, pollVars>>

\* The loop over j is at an entry to send to.
Relaying == relay # NoRelay /\ relay.j <= Len(pfds)
Dest == pfds[relay.j].fd

\* Mutant: only the listener is left out.
ExceptListener == Dest # Listener

ExceptListenerAndSender == Dest # Listener /\ Dest # relay.sender

NotToThisOne ==
    /\ Relaying /\ (~ExceptListenerAndSender \/ relay.nbytes = 0)
    /\ relay' = [relay EXCEPT !.j = @ + 1]
    /\ UNCHANGED <<socketVars, pfds, i>>

SendTo ==
    /\ Relaying /\ ExceptListenerAndSender /\ relay.nbytes > 0
    /\ Dest \in OpenFds /\ Send(Dest, relay.msg, relay.nbytes)
    /\ relay' = [relay EXCEPT !.j = @ + 1]
    /\ UNCHANGED <<pfds, i>>

\* sendall stores what it could send in nbytes, and the loop goes on with that.
SendallFails ==
    /\ Relaying /\ ExceptListenerAndSender /\ relay.nbytes > 0
    /\ IF Dest \in OpenFds THEN SendFails(Dest) ELSE UNCHANGED socketVars
    /\ \E total \in IF Dest \in OpenFds THEN 0..(relay.nbytes - 1) ELSE {0} :
          relay' = [relay EXCEPT !.j = @ + 1, !.nbytes = total,
                                 !.cut = IF @ = 0 THEN relay.j ELSE @]
    /\ UNCHANGED <<pfds, i>>

PollKilled ==
    /\ Relaying /\ ExceptListenerAndSender /\ relay.nbytes > 0
    /\ Dest \in OpenFds /\ Killed(Dest)
    /\ UNCHANGED pollVars

EndRelay ==
    /\ relay # NoRelay /\ relay.j > Len(pfds)
    /\ relay' = NoRelay
    /\ Advance(pfds)
    /\ UNCHANGED <<socketVars, pfds>>

PollStep ==
    /\ up
    /\ \/ Poll
       \/ \E e \in Seen : Skip(e) \/ AcceptNew(e) \/ HangUp(e) \/ StartRelay(e)
       \/ Crash \/ NotToThisOne \/ SendTo \/ SendallFails \/ PollKilled \/ EndRelay
=============================================================================
