-------------------------------- MODULE Chat --------------------------------
(***************************************************************************)
(* The chat of Libraries/asio/chat: ChatServer, ChatSession and ChatRoom   *)
(* (chat_server.cpp) and the ChatClient programs connected to it           *)
(* (chat_client.cpp).  The server has one thread in io_context::run, a     *)
(* client has one too, besides the main thread that reads the user's       *)
(* lines; so handlers of one program exclude each other and every handler  *)
(* is one step.                                                            *)
(*                                                                         *)
(* A client c is connected to one session of the server: the ends          *)
(* <<c, "session">> and <<c, "client">> share do_read_header, do_read_body *)
(* and do_write, and differ in what they do with a message and an error.   *)
(* A message <<c, k>> is the k-th line of c.  An async_write is three      *)
(* steps: its start in the handler that calls do_write, the transfer of    *)
(* the front of write_msgs_ to the socket, and its handler.                *)
(***************************************************************************)
EXTENDS Naturals, SequencesExt

CONSTANTS Clients,
          Undecodable, \* the messages with a header that does not decode
          Quitters,    \* bound: the clients whose input ends
          MaxRecent,   \* ChatRoom::Max_Recent_Msgs
          MaxLines,    \* bound: the lines a user types
          MaxTotal,    \* bound: the lines all users type
          Window       \* bound: the messages a socket holds

ASSUME ChatConstants ==
    /\ Quitters \subseteq Clients
    /\ Undecodable \subseteq Clients \X (1..MaxLines)
    /\ MaxRecent \in Nat /\ MaxLines \in Nat /\ MaxTotal \in Nat /\ Window \in Nat \ {0}

VARIABLES sock,          \* sock[c]: the client's socket_
          posted,        \* posted[c]: the tasks posted to the client's context
          running,       \* the clients whose context.run() has not returned
          lines,         \* lines[c]: the lines the user has typed
          eof,           \* the clients whose user has ended the input
          backlog,       \* the connections to accept
          participants,  \* participants_
          recent_msgs,   \* recent_msgs_
          write_msgs,    \* write_msgs[e]: write_msgs_
          writing,       \* writing[e]: the async_write outstanding
          reading,       \* reading[e]: the async_read outstanding
          wire,          \* wire[e]: what e wrote and its peer has not read
          said,          \* history: the messages given to ChatRoom::deliver
          from,          \* history: how many of them the session c was not told
          screen         \* screen[c]: what the client printed

clientVars == <<sock, posted, running, lines, eof>>
roomVars == <<backlog, participants, recent_msgs, said, from>>
endVars == <<write_msgs, writing, reading, wire>>
vars == <<clientVars, roomVars, endVars, screen>>

Ends == Clients \X {"session", "client"}
Session(c) == <<c, "session">>
Client(c) == <<c, "client">>
Peer(e) == <<e[1], IF e[2] = "client" THEN "session" ELSE "client">>
Messages == Clients \X (1..MaxLines)
CloseTask == <<"close", 0>>

Init ==
    /\ sock = [c \in Clients |-> "connecting"]
    /\ posted = [c \in Clients |-> <<>>]
    /\ running = Clients
    /\ lines = [c \in Clients |-> 0]
    /\ eof = {}
    /\ backlog = {} /\ participants = {} /\ recent_msgs = <<>>
    /\ write_msgs = [e \in Ends |-> <<>>]
    /\ writing = [e \in Ends |-> "none"]
    /\ reading = [e \in Ends |-> "none"]
    /\ wire = [e \in Ends |-> <<>>]
    /\ said = <<>> /\ from = [c \in Clients |-> 0]
    /\ screen = [c \in Clients |-> <<>>]

\* A session lives as long as the room or a handler holds it; its socket is
\* closed by its destructor.
Alive(c) ==
    \/ c \in participants
    \/ reading[Session(c)] # "none"
    \/ writing[Session(c)] # "none"

Open(e) == IF e[2] = "client" THEN sock[e[1]] = "open"
           ELSE e[1] \in backlog \/ Alive(e[1])

\* An operation of e may fail: its socket is not open, or the peer is gone.
MayFail(e) == ~Open(e) \/ ~Open(Peer(e))

-----------------------------------------------------------------------------
\* do_write and do_read_*, at either end.

\* Mutant: a write is started whether or not one is in progress.
QueueAlways(e, m) ==
    /\ write_msgs' = [write_msgs EXCEPT ![e] = Append(@, m)]
    /\ writing' = [writing EXCEPT ![e] = "sending"]

\* write / deliver: push_back, and do_write unless a write is in progress.
Queue(e, m) ==
    /\ write_msgs' = [write_msgs EXCEPT ![e] = Append(@, m)]
    /\ writing' = IF write_msgs[e] = <<>>
                  THEN [writing EXCEPT ![e] = "sending"] ELSE writing

\* The front of write_msgs_ enters the socket, or vanishes if the peer is gone.
Transfer(e) ==
    /\ writing[e] = "sending" /\ Open(e)
    /\ Len(wire[e]) < Window
    /\ writing' = [writing EXCEPT ![e] = "sent"]
    /\ wire' = IF Open(Peer(e))
               THEN [wire EXCEPT ![e] = Append(@, Head(write_msgs[e]))] ELSE wire
    /\ UNCHANGED <<clientVars, roomVars, write_msgs, reading, screen>>

\* Mutants: the message stays in front; the next message is not written.
WroteKept(e) ==
    /\ writing[e] = "sent"
    /\ writing' = [writing EXCEPT ![e] = "sending"]
    /\ UNCHANGED <<clientVars, roomVars, write_msgs, reading, wire, screen>>

WroteOnce(e) ==
    /\ writing[e] = "sent"
    /\ write_msgs' = [write_msgs EXCEPT ![e] = Tail(@)]
    /\ writing' = [writing EXCEPT ![e] = "none"]
    /\ UNCHANGED <<clientVars, roomVars, reading, wire, screen>>

\* do_write's handler.
Wrote(e) ==
    /\ writing[e] = "sent"
    /\ write_msgs' = [write_msgs EXCEPT ![e] = Tail(@)]
    /\ writing' = [writing EXCEPT ![e] = IF write_msgs'[e] = <<>> THEN "none" ELSE "sending"]
    /\ UNCHANGED <<clientVars, roomVars, reading, wire, screen>>

StartRead(e, what) == reading' = [reading EXCEPT ![e] = what]

\* The message the bytes of which e reads next.
Arrived(e) == IF Open(e) /\ wire[Peer(e)] # <<>> THEN {Head(wire[Peer(e)])} ELSE {}

\* Mutant: the result of decode_header is ignored.
ReadAnyHeader(e) ==
    /\ reading[e] = "header"
    /\ Arrived(e) # {}
    /\ StartRead(e, "body")
    /\ UNCHANGED <<clientVars, roomVars, write_msgs, writing, wire, screen>>

\* do_read_header's handler: no further read after a header that does not decode.
ReadHeader(e) ==
    /\ reading[e] = "header"
    /\ \E m \in Arrived(e) : StartRead(e, IF m \in Undecodable THEN "none" ELSE "body")
    /\ UNCHANGED <<clientVars, roomVars, write_msgs, writing, wire, screen>>

\* do_read_body reads the message up to its end, and then do_read_header.
TakeBody(e) ==
    /\ reading[e] = "body"
    /\ wire' = [wire EXCEPT ![Peer(e)] = Tail(@)]
    /\ StartRead(e, "header")

-----------------------------------------------------------------------------
\* The server.

\* Mutant: recent_msgs_ keeps one message too many.
RememberOneMore(m) ==
    recent_msgs' = LET r == Append(recent_msgs, m)
                   IN  IF Len(r) > MaxRecent + 1 THEN Tail(r) ELSE r

\* The first half of ChatRoom::deliver: push_back, and pop_front down to the limit.
Remember(m) ==
    recent_msgs' = LET r == Append(recent_msgs, m)
                   IN  IF Len(r) > MaxRecent THEN Tail(r) ELSE r

\* Mutant: everyone but the sender.
DeliverToOthers(m) ==
    LET to == {Session(c) : c \in participants \ {m[1]}}
    IN  /\ write_msgs' = [e \in Ends |-> IF e \in to THEN Append(write_msgs[e], m)
                                         ELSE write_msgs[e]]
        /\ writing' = [e \in Ends |-> IF e \in to /\ write_msgs[e] = <<>> THEN "sending"
                                      ELSE writing[e]]

\* The second half: deliver to every participant, the sender too.
Deliver(m) ==
    LET to == {Session(c) : c \in participants}
    IN  /\ write_msgs' = [e \in Ends |-> IF e \in to THEN Append(write_msgs[e], m)
                                         ELSE write_msgs[e]]
        /\ writing' = [e \in Ends |-> IF e \in to /\ write_msgs[e] = <<>> THEN "sending"
                                      ELSE writing[e]]

\* do_read_body's handler of a session.
SessionReadBody(c) ==
    /\ \E m \in Arrived(Session(c)) :
          Remember(m) /\ Deliver(m) /\ said' = Append(said, m)
    /\ TakeBody(Session(c))
    /\ UNCHANGED <<clientVars, backlog, participants, from, screen>>

\* Mutant: as if there were always MaxRecent messages to replay.
AcceptFull(c) ==
    /\ c \in backlog
    /\ backlog' = backlog \ {c}
    /\ participants' = participants \cup {c}
    /\ write_msgs' = [write_msgs EXCEPT ![Session(c)] = recent_msgs]
    /\ writing' = [writing EXCEPT ![Session(c)] = IF recent_msgs = <<>> THEN "none" ELSE "sending"]
    /\ from' = [from EXCEPT ![c] = Len(said) - MaxRecent]
    /\ StartRead(Session(c), "header")
    /\ UNCHANGED <<clientVars, recent_msgs, said, wire, screen>>

\* ChatRoom::join: the newcomer is a participant, the recent messages are queued for it.
Join(c) ==
    /\ participants' = participants \cup {c}
    /\ write_msgs' = [write_msgs EXCEPT ![Session(c)] = recent_msgs]
    /\ writing' = [writing EXCEPT ![Session(c)] = IF recent_msgs = <<>> THEN "none" ELSE "sending"]

\* do_accept's handler and ChatSession::start: join, do_read_header.
Accept(c) ==
    /\ c \in backlog
    /\ backlog' = backlog \ {c}
    /\ Join(c)
    /\ from' = [from EXCEPT ![c] = Len(said) - Len(recent_msgs)]
    /\ StartRead(Session(c), "header")
    /\ UNCHANGED <<clientVars, recent_msgs, said, wire, screen>>

\* Mutant: nobody leaves the room.
Stay(c) == participants' = participants

Leave(c) == participants' = participants \ {c}

\* The handlers of a session with an error.  What is in write_msgs_ stays there.
SessionReadFailed(c) ==
    /\ reading[Session(c)] # "none" /\ MayFail(Session(c))
    /\ StartRead(Session(c), "none")
    /\ Leave(c)
    /\ UNCHANGED <<clientVars, backlog, recent_msgs, said, from, write_msgs, writing, wire, screen>>

SessionWriteFailed(c) ==
    /\ writing[Session(c)] = "sending" /\ MayFail(Session(c))
    /\ writing' = [writing EXCEPT ![Session(c)] = "none"]
    /\ Leave(c)
    /\ UNCHANGED <<clientVars, backlog, recent_msgs, said, from, write_msgs, reading, wire, screen>>

ServerNext(c) ==
    \/ Accept(c)
    \/ ReadHeader(Session(c)) \/ SessionReadBody(c) \/ SessionReadFailed(c)
    \/ Transfer(Session(c)) \/ Wrote(Session(c)) \/ SessionWriteFailed(c)

-----------------------------------------------------------------------------
\* A client: the user's lines, in main.
Post(c, task) == posted' = [posted EXCEPT ![c] = Append(@, task)]

TypeLine(c) ==
    /\ c \notin eof /\ lines[c] < MaxLines
    /\ Cardinality({m \in Messages : m[2] <= lines[m[1]]}) < MaxTotal
    /\ lines' = [lines EXCEPT ![c] = @ + 1]
    /\ Post(c, <<c, lines'[c]>>)
    /\ UNCHANGED <<sock, running, eof, roomVars, endVars, screen>>

EndInput(c) ==
    /\ c \in Quitters \ eof
    /\ eof' = eof \cup {c}
    /\ Post(c, CloseTask)
    /\ UNCHANGED <<sock, running, lines, roomVars, endVars, screen>>

\* The tasks of write and close.
RunWrite(c) ==
    /\ c \in running /\ posted[c] # <<>> /\ Head(posted[c]) # CloseTask
    /\ posted' = [posted EXCEPT ![c] = Tail(@)]
    /\ Queue(Client(c), Head(posted[c]))
    /\ UNCHANGED <<sock, running, lines, eof, roomVars, reading, wire, screen>>

\* Mutant: the socket stays as it is.
RunCloseLater(c) ==
    /\ c \in running /\ posted[c] # <<>> /\ Head(posted[c]) = CloseTask
    /\ posted' = [posted EXCEPT ![c] = Tail(@)]
    /\ UNCHANGED <<sock, running, lines, eof, roomVars, endVars, screen>>

RunClose(c) ==
    /\ c \in running /\ posted[c] # <<>> /\ Head(posted[c]) = CloseTask
    /\ posted' = [posted EXCEPT ![c] = Tail(@)]
    /\ sock' = [sock EXCEPT ![c] = "closed"]
    /\ UNCHANGED <<running, lines, eof, roomVars, endVars, screen>>

\* do_connect's handler.
Connect(c) ==
    /\ sock[c] = "connecting"
    /\ \/ /\ sock' = [sock EXCEPT ![c] = "open"]
          /\ backlog' = backlog \cup {c}
          /\ StartRead(Client(c), "header")
       \/ /\ sock' = [sock EXCEPT ![c] = "closed"]
          /\ UNCHANGED <<backlog, reading>>
    /\ UNCHANGED <<posted, running, lines, eof, participants, recent_msgs, said, from,
                   write_msgs, writing, wire, screen>>

\* do_read_body's handler of a client.
ClientReadBody(c) ==
    /\ \E m \in Arrived(Client(c)) : screen' = [screen EXCEPT ![c] = Append(@, m)]
    /\ TakeBody(Client(c))
    /\ UNCHANGED <<clientVars, roomVars, write_msgs, writing>>

\* The handlers of a client with an error.
ClientReadFailed(c) ==
    /\ reading[Client(c)] # "none" /\ MayFail(Client(c))
    /\ StartRead(Client(c), "none")
    /\ sock' = [sock EXCEPT ![c] = "closed"]
    /\ UNCHANGED <<posted, running, lines, eof, roomVars, write_msgs, writing, wire, screen>>

ClientWriteFailed(c) ==
    /\ writing[Client(c)] = "sending" /\ MayFail(Client(c))
    /\ writing' = [writing EXCEPT ![Client(c)] = "none"]
    /\ sock' = [sock EXCEPT ![c] = "closed"]
    /\ UNCHANGED <<posted, running, lines, eof, roomVars, write_msgs, reading, wire, screen>>

\* context.run() returns when nothing is posted or outstanding, and for good.
RunReturns(c) ==
    /\ c \in running
    /\ posted[c] = <<>> /\ sock[c] # "connecting"
    /\ reading[Client(c)] = "none" /\ writing[Client(c)] = "none"
    /\ running' = running \ {c}
    /\ UNCHANGED <<sock, posted, lines, eof, roomVars, endVars, screen>>

ClientNext(c) ==
    \/ RunWrite(c) \/ RunClose(c) \/ Connect(c)
    \/ ReadHeader(Client(c)) \/ ClientReadBody(c) \/ ClientReadFailed(c)
    \/ Transfer(Client(c)) \/ Wrote(Client(c)) \/ ClientWriteFailed(c)
    \/ RunReturns(c)

UserNext(c) == TypeLine(c) \/ EndInput(c)

Next == \E c \in Clients : ServerNext(c) \/ ClientNext(c) \/ UserNext(c)

Spec == Init /\ [][Next]_vars

\* The io_context of a program is not idle while a handler is ready; the user
\* owes nothing.
FairSpec == Spec /\ WF_vars(\E c \in Clients : ServerNext(c))
                 /\ \A c \in Clients : WF_vars(ClientNext(c))

-----------------------------------------------------------------------------
EndStates == {"none", "sending", "sent"}

ChatTypeOK ==
    /\ sock \in [Clients -> {"connecting", "open", "closed"}]
    /\ posted \in [Clients -> Seq(Messages \cup {CloseTask})]
    /\ running \subseteq Clients /\ eof \subseteq Clients
    /\ lines \in [Clients -> 0..MaxLines]
    /\ backlog \subseteq Clients /\ participants \subseteq Clients
    /\ recent_msgs \in Seq(Messages) /\ said \in Seq(Messages)
    /\ from \in [Clients -> Nat]
    /\ write_msgs \in [Ends -> Seq(Messages)] /\ wire \in [Ends -> Seq(Messages)]
    /\ writing \in [Ends -> EndStates]
    /\ reading \in [Ends -> {"none", "header", "body"}]
    /\ screen \in [Clients -> Seq(Messages)]

\* What is in write_msgs_ and not yet in the socket.
Unsent(e) == IF writing[e] = "sent" THEN Tail(write_msgs[e]) ELSE write_msgs[e]

(* While a participant's connection holds, what it printed, what is on its *)
(* way and what waits in its session are together the conversation from    *)
(* where it joined: the room skips, repeats and reorders nothing, however  *)
(* ChatRoom::deliver, join and the write handlers are interleaved.         *)
ParticipantsMissNothing ==
    \A c \in participants : sock[c] = "open" =>
        screen[c] \o wire[Session(c)] \o Unsent(Session(c))
            = SubSeq(said, from[c] + 1, Len(said))

(* What a newcomer is given is the end of the conversation, MaxRecent      *)
(* messages of it if there are as many (recent_msgs_ of ChatRoom).         *)
RecentIsTheEnd ==
    recent_msgs = SubSeq(said, IF Len(said) > MaxRecent THEN Len(said) - MaxRecent + 1 ELSE 1,
                         Len(said))

\* A message comes once, and after all the earlier lines of its user.
InPlace(i) ==
    /\ \A k \in 1..(said[i][2] - 1) : \E j \in 1..(i - 1) : said[j] = <<said[i][1], k>>
    /\ \A j \in 1..(i - 1) : said[j] # said[i]

(* The lines of one user enter the conversation in the order they were     *)
(* typed, each once and none before an earlier one: through the posted     *)
(* tasks, write_msgs_, the socket and the session, whatever fails.         *)
SpokenInOrder ==
    \A i \in 1..Len(said) : said[i][2] <= lines[said[i][1]] /\ InPlace(i)

(* A queue of messages never waits for nothing: as long as the connection  *)
(* is open at this end and it is a participant's, a write is in progress   *)
(* (the test of write_in_progress against the handler's pop_front).        *)
NothingStalls ==
    /\ \A c \in participants :
          (write_msgs[Session(c)] # <<>>) = (writing[Session(c)] # "none")
    /\ \A c \in Clients : sock[c] = "open" =>
          (write_msgs[Client(c)] # <<>>) = (writing[Client(c)] # "none")

\* c has said nothing that does not decode.
Decodable(c) == \A k \in 1..lines[c] : <<c, k>> \notin Undecodable

(* The room holds no deaf participant: each one's session has a read       *)
(* outstanding, so its disconnection will be noticed - but for a client    *)
(* whose header did not decode (the error branch of do_read_header neither *)
(* reads again nor leaves).                                                *)
ParticipantsAreHeard ==
    \A c \in participants : Decodable(c) => reading[Session(c)] # "none"

(* From its first header that does not decode on, nothing a client sends   *)
(* reaches the conversation (that branch of do_read_header).               *)
NothingAfterABadHeader ==
    \A i \in 1..Len(said) : \A k \in 1..said[i][2] : <<said[i][1], k>> \notin Undecodable

\* The chat implements one conversation, of which a screen shows a part.
C == INSTANCE Conversation WITH Members <- Clients, heard <- screen

(* Every screen shows the one conversation, from the last messages at the  *)
(* time its session joined, without a gap.                                 *)
ImplementsConversation == C!Spec

(* A line typed at a connected client is printed by every participant,     *)
(* unless one of the two is disconnected or it was said too long before.   *)
Known(d, m) == m \in Range(screen[d]) \/ \E i \in 1..from[d] : said[i] = m

LinesReachEveryone ==
    \A c, d \in Clients : \A k \in 1..MaxLines :
        (k <= lines[c] /\ d \in participants)
            ~> \/ Known(d, <<c, k>>) \/ ~Decodable(c)
               \/ sock[c] = "closed" \/ sock[d] = "closed"

(* After the end of its input a client's io_context runs out of work, so   *)
(* that main's join of the client thread returns, whatever was pending.    *)
ClientExits == \A c \in Clients : c \in eof ~> c \notin running

(* The session of a client that disconnected ends: it leaves the room and  *)
(* no handler keeps it, whichever of its reads and writes fail first.      *)
SessionsEnd ==
    \A c \in Clients : sock[c] = "closed" ~> ~Decodable(c) \/ (~Alive(c) /\ c \notin backlog)
=============================================================================
