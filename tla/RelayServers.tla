---------------------------- MODULE RelayServers ----------------------------
(***************************************************************************)
(* The two relay servers with their clients: one of the programs of        *)
(* Libraries/sockets/low_level runs, and both make the same promise, to    *)
(* send what a client says to everyone else.                               *)
(***************************************************************************)
EXTENDS PollServer, SelectServer

CONSTANT Programs      \* those of "poll" and "select" that are looked at

VARIABLE program       \* which one runs

vars == <<socketVars, pollVars, selectVars, program>>

Init == SocketsInit /\ PollInit /\ SelectInit /\ program \in Programs

ServerStep ==
    \/ program = "poll" /\ PollStep /\ UNCHANGED <<selectVars, program>>
    \/ program = "select" /\ SelectStep /\ UNCHANGED <<pollVars, program>>

Next ==
    \/ ServerStep
    \/ \E c \in Clients : ClientStep(c) /\ UNCHANGED <<pollVars, selectVars, program>>

Spec == Init /\ [][Next]_vars

\* The server's loop goes on, and clients read; nobody has to send or to close.
FairSpec ==
    /\ Spec
    /\ WF_vars(ServerStep)
    /\ \A c \in Clients : WF_vars(ClientRead(c) /\ UNCHANGED <<pollVars, selectVars, program>>)

-----------------------------------------------------------------------------
RelayTypeOK ==
    /\ conn \in [Clients -> ConnStates]
    /\ sent \in [Clients -> 0..MaxSends] /\ unread \in [Clients -> 0..Window]
    /\ inbox \in [Clients -> Seq(Messages)] /\ received \in Seq(Messages)
    /\ got \in [Clients -> Seq([msg : Messages, size : 1..Size])]
    /\ backlog \subseteq Clients /\ up \in BOOLEAN
    /\ owner \in [Fds -> Clients \cup {NoClient}]
    /\ pfds \in Seq([fd : Fds \cup {Listener}, ready : BOOLEAN]) /\ i \in 0..(Len(pfds) + 2)
    /\ relay \in {NoRelay} \cup
          [msg : Messages, sender : Fds, nbytes : 0..Size, cut : 0..Len(pfds), j : 1..(Len(pfds) + 1)]
    /\ master \subseteq Fds \cup {Listener} /\ read_fds \subseteq Fds \cup {Listener}
    /\ maxfd \in Fds \cup {Listener} /\ at \in 0..maxfd
    /\ cast \in {NoCast} \cup [msg : Messages, j : 1..maxfd]

(* The descriptors a server waits for are those it has open, each one      *)
(* once: accept, close, the swap of del_from_pfds and FD_SET, FD_CLR and   *)
(* maxfd keep step, so no connection is forgotten and none is watched      *)
(* after its descriptor is closed, and perhaps another's; for poll_server  *)
(* as long as no pass has left the vector.                                 *)
WatchesWhatIsOpen ==
    /\ program = "poll" /\ ~Astray =>
          /\ {pfds[k].fd : k \in 1..Len(pfds)} = {Listener} \cup OpenFds
          /\ Len(pfds) = 1 + Cardinality(OpenFds)
    /\ program = "select" =>
          /\ master = {Listener} \cup OpenFds
          /\ \A f \in master : f <= maxfd

(* Nobody is sent what he said himself, and all are sent what the others   *)
(* said in the one order in which the server received it.  poll_server     *)
(* promises that as long as no pass has left the vector.                   *)
Place(m) == CHOOSE n \in 1..Len(received) : received[n] = m

OneOrder ==
    ~Astray => \A c \in Clients :
        /\ \A n \in 1..Len(got[c]) : got[c][n].msg[1] # c
        /\ \A n \in 2..Len(got[c]) : Place(got[c][n - 1].msg) < Place(got[c][n].msg)

\* At the end of the loop over j, the message m of f was sent to g in whole.
SentWhole(g, m) ==
    LET d == owner[g]
    IN  conn[d] = "open" => got[d] # <<>> /\ Last(got[d]) = [msg |-> m, size |-> Size]

\* The loop over j has sent relay.msg to everyone it sends to.
RelayEnds == ~Astray /\ relay # NoRelay /\ relay.j > Len(pfds)

\* The descriptors of the others than the sender, when the loop over j ends.
SelectOthers == IF cast # NoCast /\ cast.j = maxfd THEN OpenFds \ {at} ELSE {}

(* The only ones a message does not reach whole: with selectserver the     *)
(* connection with the highest descriptor, with poll_server those in pfds  *)
(* at and behind the first one that sendall failed for.                    *)
OnlyTheseAreLeftOut ==
    /\ RelayEnds =>
          \A k \in 1..Len(pfds) :
             (pfds[k].fd \notin {Listener, relay.sender} /\ (relay.cut = 0 \/ k < relay.cut))
                => SentWhole(pfds[k].fd, relay.msg)
    /\ \A g \in SelectOthers \ {maxfd} : SentWhole(g, cast.msg)

(* What a connected client says is received, although a pass skips the     *)
(* entry del_from_pfds moves and one message is taken in a pass; and a     *)
(* connection a client closed is closed; unless SIGPIPE ends the server,   *)
(* or the last entry of pfds hung up.                                      *)
EveryoneIsServed ==
    \A c \in Clients :
        /\ \A k \in 1..MaxSends :
              (sent[c] >= k /\ c \notin backlog)
                  ~> (<<c, k>> \in Range(received) \/ conn[c] # "open" \/ ~up \/ Astray)
        /\ (conn[c] \in {"left", "reset"} /\ c \notin backlog)
                  ~> ((\A f \in Fds : owner[f] # c) \/ ~up \/ Astray)

-----------------------------------------------------------------------------
(* "send to everyone" (poll_server.cpp and selectserver.cpp): who is       *)
(* connected is sent every message of the others.                          *)
SentToEveryone ==
    /\ RelayEnds => \A g \in OpenFds \ {relay.sender} : SentWhole(g, relay.msg)
    /\ \A g \in SelectOthers : SentWhole(g, cast.msg)

(* "Run through the existing collections" (poll_server.cpp): a pass looks  *)
(* at entries of pfds and ends behind the last one.                        *)
PassStaysInVector == ~Astray
=============================================================================
