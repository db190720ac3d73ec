------------------------------- MODULE Sockets -------------------------------
(***************************************************************************)
(* What the two relay servers of Libraries/sockets/low_level see: their    *)
(* process with its descriptors, the clients, and the kernel between them. *)
(* The sockets block, and nothing handles SIGPIPE.                         *)
(*                                                                         *)
(* A message <<c, k>> is what one recv returns, the k-th of the client c;  *)
(* it is Size units long, so that a part of it can be told from the whole. *)
(***************************************************************************)
EXTENDS Naturals, SequencesExt

CONSTANTS Clients, NoClient,
          Closers,     \* bound: the clients that may close
          Talkers,     \* bound: the clients that may send
          MaxSends,    \* bound: the messages of a client
          Size,        \* the length of a message
          Window       \* bound: the messages a client's socket holds

ASSUME SocketConstants ==
    /\ NoClient \notin Clients /\ IsFiniteSet(Clients)
    /\ Closers \subseteq Clients /\ Talkers \subseteq Clients
    /\ MaxSends \in Nat /\ Size \in Nat \ {0} /\ Window \in Nat \ {0}

VARIABLES conn,        \* conn[c]: the connection of c
          sent,        \* sent[c]: how many messages c has sent
          inbox,       \* inbox[c]: those the server has not received
          unread,      \* unread[c]: how many messages c has not read
          backlog,     \* the connections to accept
          owner,       \* owner[f]: whose connection the descriptor f is
          up,          \* the server process runs
          received,    \* history: what recv returned, in order
          got          \* history: got[c], what was sent to c

peerVars == <<conn, sent, inbox, unread>>
socketVars == <<peerVars, backlog, owner, up, received, got>>

Listener == 1
Fds == 2..(Cardinality(Clients) + 1)
OpenFds == {f \in Fds : owner[f] # NoClient}
Messages == Clients \X (1..MaxSends)

\* "left" and "reset": the client closed, with a FIN or a RST.  "broken": and
\* the next send raises SIGPIPE.
ConnStates == {"none", "open", "left", "reset", "broken"}

SocketsInit ==
    /\ conn = [c \in Clients |-> "none"]
    /\ sent = [c \in Clients |-> 0]
    /\ inbox = [c \in Clients |-> <<>>]
    /\ unread = [c \in Clients |-> 0]
    /\ backlog = {}
    /\ owner = [f \in Fds |-> NoClient]
    /\ up = TRUE
    /\ received = <<>>
    /\ got = [c \in Clients |-> <<>>]

-----------------------------------------------------------------------------
\* The clients.
Connect(c) ==
    /\ conn[c] = "none"
    /\ conn' = [conn EXCEPT ![c] = "open"]
    /\ backlog' = backlog \cup {c}
    /\ UNCHANGED <<sent, inbox, unread, owner, up, received, got>>

ClientSend(c) ==
    /\ conn[c] = "open" /\ c \in Talkers /\ sent[c] < MaxSends
    /\ sent' = [sent EXCEPT ![c] = @ + 1]
    /\ inbox' = [inbox EXCEPT ![c] = Append(@, <<c, sent'[c]>>)]
    /\ UNCHANGED <<conn, unread, backlog, owner, up, received, got>>

ClientRead(c) ==
    /\ conn[c] = "open" /\ unread[c] > 0
    /\ unread' = [unread EXCEPT ![c] = @ - 1]
    /\ UNCHANGED <<conn, sent, inbox, backlog, owner, up, received, got>>

ClientClose(c) ==
    /\ conn[c] = "open" /\ c \in Closers
    /\ \E how \in {"left", "reset"} : conn' = [conn EXCEPT ![c] = how]
    /\ UNCHANGED <<sent, inbox, unread, backlog, owner, up, received, got>>

ClientStep(c) == Connect(c) \/ ClientSend(c) \/ ClientRead(c) \/ ClientClose(c)

-----------------------------------------------------------------------------
\* The system calls.
Readable(f) ==
    IF f = Listener THEN backlog # {}
    ELSE owner[f] # NoClient /\ (inbox[owner[f]] # <<>> \/ conn[owner[f]] # "open")

\* accept: the lowest descriptor that is free.
Accept(f) ==
    /\ f \in Fds \ OpenFds /\ \A g \in Fds \ OpenFds : f <= g
    /\ \E c \in backlog :
          /\ owner' = [owner EXCEPT ![f] = c]
          /\ backlog' = backlog \ {c}
    /\ UNCHANGED <<peerVars, up, received, got>>

\* recv: a message, or 0 or -1 when there is none and the client is gone.
Receive(f) ==
    LET c == owner[f]
    IN  /\ inbox[c] # <<>>
        /\ inbox' = [inbox EXCEPT ![c] = Tail(@)]
        /\ received' = Append(received, Head(inbox[c]))
        /\ UNCHANGED <<conn, sent, unread, backlog, owner, up, got>>

NothingToReceive(f) == conn[owner[f]] # "open" /\ (inbox[owner[f]] = <<>> \/ conn[owner[f]] # "left")

Close(f) ==
    /\ owner' = [owner EXCEPT ![f] = NoClient]
    /\ UNCHANGED <<peerVars, backlog, up, received, got>>

\* send: into the client's socket, or into nowhere if it left.
Send(f, m, n) ==
    LET c == owner[f]
    IN  /\ \/ /\ conn[c] = "open" /\ unread[c] < Window
              /\ unread' = [unread EXCEPT ![c] = @ + 1]
              /\ got' = [got EXCEPT ![c] = Append(@, [msg |-> m, size |-> n])]
              /\ UNCHANGED conn
           \/ /\ conn[c] = "left"
              /\ conn' = [conn EXCEPT ![c] = "broken"]
              /\ UNCHANGED <<unread, got>>
        /\ UNCHANGED <<sent, inbox, backlog, owner, up, received>>

\* send returns -1.
SendFails(f) ==
    /\ conn[owner[f]] = "reset"
    /\ conn' = [conn EXCEPT ![owner[f]] = "broken"]
    /\ UNCHANGED <<sent, inbox, unread, backlog, owner, up, received, got>>

\* send raises SIGPIPE.
Killed(f) ==
    /\ conn[owner[f]] = "broken"
    /\ up' = FALSE
    /\ UNCHANGED <<peerVars, backlog, owner, received, got>>
=============================================================================
