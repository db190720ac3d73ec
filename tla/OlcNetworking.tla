---------------------------- MODULE OlcNetworking ----------------------------
(***************************************************************************)
(* server_interface (net_server.h) with the CustomServer of net_server.cpp,*)
(* and client_interface (net_client.h) with the CustomClient of            *)
(* net_client.cpp, over the connections of OlcConnection.                  *)
(*                                                                         *)
(* The threads: the server's context thread (accept and the handlers of    *)
(* the "server" ends), the server's main thread (update), and for each     *)
(* client its context thread and its user thread.  Handlers are atomic, as *)
(* one thread runs all of a context; the threads interleave.               *)
(***************************************************************************)
EXTENDS OlcConnection, FiniteSets

CONSTANTS MaxSends,     \* bound: the messages one client sends
          Quitters,     \* bound: the clients whose user may leave
          Patient       \* the user waits for a message to be through before the next

ASSUME NetworkingConstants ==
    /\ MaxSends \in Nat
    /\ Quitters \subseteq Clients
    /\ Patient \in BOOLEAN
    /\ Clients \cap ((1..MaxSends) \cup {NoBody, Junk}) = {}  \* an id is none of the other bodies

VARIABLES connections,  \* connections_; its order shows in no message
          server,       \* the main thread "updating" or "handling" a message
          handled,      \* history: what was popped, the message in hand last
          client,       \* client[c]: "new", "connecting", "running", "leaving", "gone"
          sent,         \* history: what c's user sent
          shown         \* history: what c's user took from incomming()

vars == <<connVars, connections, server, handled, client, sent, shown>>

ServerEnd(c) == <<c, "server">>
ClientEnd(c) == <<c, "client">>
Bodies == (1..MaxSends) \cup Clients \cup {NoBody, Junk}
Messages == [id : Ids \cup {"none", "unknown", "close"}, body : Bodies]
OwnedMessages == [remote : Clients, msg : Messages]
Pieces == {Word(answer) : answer \in {"challenge", "right", "wrong"}}
            \cup {Header(m) : m \in Messages} \cup {Body(m) : m \in Messages}
IsConnected(e) == sock[e] = "open"

OlcTypeOK ==
    /\ sock \in [Ends -> {"new", "open", "closed"}]
    /\ reading \in [Ends -> {"none", "validation", "header", "body", "garbled"}]
    /\ writes \in [Ends -> Seq([kind : {"word", "header", "body"}, ok : BOOLEAN])]
    /\ wire \in [Ends -> Seq(Pieces)]
    /\ queue_out \in [Ends -> Seq(Messages)] /\ posted \in [Ends -> Seq(Messages)]
    /\ temp_out \in [Ends -> Messages] /\ temp_in \in [Ends -> Messages]
    /\ queue_in \in [Clients \cup {Server} -> Seq(OwnedMessages)]
    /\ handled \in Seq(OwnedMessages) /\ (server = "handling" => handled # <<>>)
    /\ validated \subseteq Clients
    /\ connections \subseteq Clients
    /\ server \in {"updating", "handling"}
    /\ client \in [Clients -> {"new", "connecting", "running", "leaving", "gone"}]
    /\ sent \in [Clients -> Seq(Messages)] /\ shown \in [Clients -> Seq(Messages)]

Init ==
    /\ ConnInit
    /\ connections = {}
    /\ server = "updating"
    /\ handled = <<>>
    /\ client = [c \in Clients |-> "new"]
    /\ sent = [c \in Clients |-> <<>>]
    /\ shown = [c \in Clients |-> <<>>]

-----------------------------------------------------------------------------
\* A client.

\* connect(): async_connect opens the socket, the context thread starts.
Connect(c) ==
    /\ client[c] = "new"
    /\ client' = [client EXCEPT ![c] = "connecting"]
    /\ sock' = [sock EXCEPT ![ClientEnd(c)] = "open"]
    /\ UNCHANGED <<reading, writes, wire, queue_out, temp_out, temp_in, posted, queue_in,
                   validated, connections, server, handled, sent, shown>>

\* async_connect's handler.  With an error it only prints: the socket stays as
\* it is, open where the server refused, closed where a failed write closed it;
\* no server's end is ever made of a refused connection.
Refused(c) ==
    /\ sock[ClientEnd(c)] = "open" /\ sock[ServerEnd(c)] = "new" /\ wire[ClientEnd(c)] = <<>>
    /\ Close(ServerEnd(c))
Connected(c) ==
    /\ client[c] = "connecting"
    /\ client' = [client EXCEPT ![c] = "running"]
    /\ \/ StartRead(ClientEnd(c), "validation") /\ UNCHANGED sock
       \/ Refused(c) /\ UNCHANGED reading
       \/ sock[ClientEnd(c)] = "closed" /\ UNCHANGED <<sock, reading>>
    /\ UNCHANGED <<writes, wire, queue_out, temp_out, temp_in, posted, queue_in,
                   validated, connections, server, handled, sent, shown>>

\* A patient user waits until the last message was written and, for a ping,
\* answered.
Through(c) ==
    /\ reading[ClientEnd(c)] = "header"
    /\ posted[ClientEnd(c)] = <<>> /\ writes[ClientEnd(c)] = <<>>
    /\ Len(SelectSeq(sent[c], LAMBDA m : m.id = "Ping")) = Len(shown[c])

\* ping_server and message_all.
UserSend(c) ==
    /\ client[c] \in {"connecting", "running"} /\ IsConnected(ClientEnd(c))
    /\ Len(sent[c]) < MaxSends
    /\ Patient => Through(c)
    /\ \E m \in {Message("Ping", Len(sent[c]) + 1), Message("All", NoBody)} :
          Post(ClientEnd(c), m) /\ sent' = [sent EXCEPT ![c] = Append(@, m)]
    /\ UNCHANGED <<sock, reading, writes, wire, queue_out, temp_out, temp_in, queue_in,
                   validated, connections, server, handled, client, shown>>

\* The loop of main takes a message.
UserReceive(c) ==
    /\ client[c] \in {"connecting", "running"} /\ IsConnected(ClientEnd(c))
    /\ queue_in[c] # <<>>
    /\ shown' = [shown EXCEPT ![c] = Append(@, Head(queue_in[c]).msg)]
    /\ queue_in' = [queue_in EXCEPT ![c] = Tail(@)]
    /\ UNCHANGED <<sock, reading, writes, wire, queue_out, temp_out, temp_in, posted,
                   validated, connections, server, handled, client, sent>>

\* disconnect(): the close is posted and the context stopped.
Disconnect(c) ==
    /\ c \in Quitters
    /\ client[c] \in {"connecting", "running"}
    /\ client' = [client EXCEPT ![c] = "leaving"]
    /\ IF IsConnected(ClientEnd(c)) THEN Post(ClientEnd(c), Closing) ELSE UNCHANGED posted
    /\ UNCHANGED <<sock, reading, writes, wire, queue_out, temp_out, temp_in, queue_in,
                   validated, connections, server, handled, sent, shown>>

\* The thread is joined: what is outstanding never runs, the socket is closed.
Destroyed(c) ==
    /\ client[c] = "leaving"
    /\ client' = [client EXCEPT ![c] = "gone"]
    /\ Close(ClientEnd(c))
    /\ StartRead(ClientEnd(c), "none")
    /\ writes' = [writes EXCEPT ![ClientEnd(c)] = <<>>]
    /\ posted' = [posted EXCEPT ![ClientEnd(c)] = <<>>]
    /\ queue_in' = [queue_in EXCEPT ![c] = <<>>]
    /\ UNCHANGED <<wire, queue_out, temp_out, temp_in, validated, connections, server,
                   handled, sent, shown>>

ClientHandler(c) ==
    /\ client[c] \in {"connecting", "running", "leaving"}
    /\ Handler(ClientEnd(c))
    /\ UNCHANGED <<connections, server, handled, client, sent, shown>>

-----------------------------------------------------------------------------
\* The server.

\* Mutant: connect_to_client reads a header at once, as it once did.
AcceptUnchecked(c) ==
    /\ client[c] # "new" /\ sock[ServerEnd(c)] = "new"
    /\ connections' = connections \cup {c}
    /\ sock' = [sock EXCEPT ![ServerEnd(c)] = "open"]
    /\ StartRead(ServerEnd(c), "header")
    /\ writes' = [writes EXCEPT ![ServerEnd(c)] = <<[kind |-> "word", ok |-> TRUE]>>]
    /\ wire' = [wire EXCEPT ![ServerEnd(c)] = <<Word("challenge")>>]
    /\ UNCHANGED <<queue_out, temp_out, temp_in, posted, queue_in, validated, server,
                   handled, client, sent, shown>>

\* wait_for_client_connection's handler and connect_to_client: the connection
\* joins connections_, the word is written and the answer awaited.  The client
\* may have closed its end since.
Accept(c) ==
    /\ client[c] # "new" /\ sock[ServerEnd(c)] = "new"
    /\ connections' = connections \cup {c}
    /\ sock' = [sock EXCEPT ![ServerEnd(c)] = "open"]
    /\ StartRead(ServerEnd(c), "validation")
    /\ \E ok \in IF IsConnected(ClientEnd(c)) THEN {TRUE} ELSE BOOLEAN :
          writes' = [writes EXCEPT ![ServerEnd(c)] = <<[kind |-> "word", ok |-> ok]>>]
    /\ wire' = IF IsConnected(ClientEnd(c))
               THEN [wire EXCEPT ![ServerEnd(c)] = <<Word("challenge")>>] ELSE wire
    /\ UNCHANGED <<queue_out, temp_out, temp_in, posted, queue_in, validated, server,
                   handled, client, sent, shown>>

ServerHandler(c) ==
    /\ Handler(ServerEnd(c))
    /\ UNCHANGED <<connections, server, handled, client, sent, shown>>

\* update in the loop of main: wait_for_data, pop_front.  Only this thread
\* pops, so the queue it found non-empty still is.
PopFront ==
    /\ server = "updating" /\ queue_in[Server] # <<>>
    /\ server' = "handling"
    /\ handled' = Append(handled, Head(queue_in[Server]))
    /\ queue_in' = [queue_in EXCEPT ![Server] = Tail(@)]
    /\ UNCHANGED <<sock, reading, writes, wire, queue_out, temp_out, temp_in, posted,
                   validated, connections, client, sent, shown>>

InHand == handled[Len(handled)]

\* client->send(msg).
Bounce ==
    /\ InHand.msg.id = "Ping"
    /\ Post(ServerEnd(InHand.remote), InHand.msg)
    /\ UNCHANGED connections

\* message_all_clients: everyone connected but the sender; the others are
\* taken for disconnected and erased.
Alive == {c \in Clients : IsConnected(ServerEnd(c))}

\* Mutant: the sender is not ignored.
MessageEveryone ==
    /\ InHand.msg.id = "All"
    /\ LET m == Message("Message", InHand.remote)
       IN  posted' = [e \in Ends |-> IF e[2] = "server" /\ e[1] \in connections \cap Alive
                                     THEN Append(posted[e], m) ELSE posted[e]]
    /\ connections' = connections \cap Alive

MessageAllClients ==
    /\ InHand.msg.id = "All"
    /\ LET m == Message("Message", InHand.remote)
           to == connections \ {InHand.remote}
       IN  posted' = [e \in Ends |-> IF e[2] = "server" /\ e[1] \in to \cap Alive
                                     THEN Append(posted[e], m) ELSE posted[e]]
    /\ connections' = connections \cap Alive

\* on_message.
OnMessage ==
    /\ server = "handling"
    /\ server' = "updating"
    /\ \/ Bounce
       \/ MessageAllClients
       \/ InHand.msg.id \notin {"Ping", "All"} /\ UNCHANGED <<posted, connections>>
    /\ UNCHANGED <<sock, reading, writes, wire, queue_out, temp_out, temp_in, queue_in,
                   validated, handled, client, sent, shown>>

-----------------------------------------------------------------------------
ClientStep(c) ==
    \/ Connect(c) \/ Connected(c) \/ UserSend(c) \/ UserReceive(c)
    \/ Disconnect(c) \/ Destroyed(c) \/ ClientHandler(c)

ServerStep ==
    \/ \E c \in Clients : Accept(c) \/ ServerHandler(c)
    \/ PopFront \/ OnMessage

Next == ServerStep \/ \E c \in Clients : ClientStep(c)

Spec == Init /\ [][Next]_vars

(* The contexts run every handler that is ready, the main threads keep     *)
(* looping.  Nobody is forced to send, or to disconnect; a connection the  *)
(* client closed before it was accepted may never be.                      *)
FairSpec ==
    /\ Spec
    /\ \A c \in Clients : /\ WF_vars(IsConnected(ClientEnd(c)) /\ Accept(c))
                          /\ WF_vars(ServerHandler(c))
                          /\ WF_vars(ClientHandler(c)) /\ WF_vars(Connected(c))
                          /\ WF_vars(UserReceive(c)) /\ WF_vars(Destroyed(c))
    /\ WF_vars(PopFront) /\ WF_vars(OnMessage)

-----------------------------------------------------------------------------
(* Messages are taken only from clients that answered the handshake, and   *)
(* an impostor never gets that far: read_header is started by the handler  *)
(* of read_validation, whatever else is in flight on the connection.       *)
HandshakeFirst ==
    /\ validated \cap Impostors = {}
    /\ \A i \in 1..Len(queue_in[Server]) : queue_in[Server][i].remote \in validated
    /\ \A i \in 1..Len(handled) : handled[i].remote \in validated

(* A broadcast goes to the others ("send a message to all other clients",  *)
(* net_client.cpp): no client is shown its own id, however replies and     *)
(* broadcasts overlap on its connection.                                   *)
NoEcho == \A c \in Clients : \A i \in 1..Len(shown[c]) : shown[c][i].body # c

(* What a client sends is taken by the server in the order it was sent,    *)
(* nothing skipped, as long as the user is patient (post, queue_out_, the  *)
(* stream, msg_temp_in_, queue_in_): the n-th message taken from c is the  *)
(* n-th that c sent.                                                       *)
CountFrom(c, messages, i) == Cardinality({j \in 1..i : messages[j].remote = c})

AsSent(c, messages, toSend) ==
    \A i \in 1..Len(messages) :
        messages[i].remote = c =>
            LET n == CountFrom(c, messages, i)
            IN  n <= Len(toSend) /\ messages[i].msg.id = toSend[n].id

TakenInOrder == \A c \in Clients : AsSent(c, handled, sent[c])

(* A patient user's ping comes back with its own time, unless a side is    *)
(* closed.                                                                 *)
PingAnswered ==
    \A c \in Clients : \A n \in 1..MaxSends :
        (\E i \in 1..Len(sent[c]) : sent[c][i] = Message("Ping", n))
            ~> \/ \E i \in 1..Len(shown[c]) : shown[c][i] = Message("Ping", n)
               \/ ~IsConnected(ClientEnd(c)) \/ ~IsConnected(ServerEnd(c))
               \/ client[c] \in {"leaving", "gone"}

-----------------------------------------------------------------------------
(* What comments of the code say, and the code does not do.                *)

(* net_connection.h: write_header is triggered only if the context is not  *)
(* already busy writing messages.  Of two messages sent in a row the second*)
(* finds queue_out_ empty, is written beside the first, and takes its place*)
(* in msg_temp_out_.  (The handshake's word is no message.)                *)
OneWriteAtATime ==
    \A e \in Ends :
        e[1] \in validated =>
            Cardinality({i \in DOMAIN writes[e] : writes[e][i].kind # "word"}) <= 1

(* net_connection.h: a connection is refused because "client responded     *)
(* with incorrect data".                                                   *)
OnlyImpostorsRefused ==
    [][\A c \in Clients : reading[ServerEnd(c)] = "validation" /\ sock[ClientEnd(c)] = "open"
                          /\ sock[ServerEnd(c)] = "open" /\ sock'[ServerEnd(c)] = "closed"
                             => c \in Impostors]_vars

(* net_connection.h: queue_in_ "holds all messages that have been received *)
(* from the remote side of this connection".                               *)
QueueHoldsWhatWasSent ==
    \A i \in 1..Len(queue_in[Server]) :
        LET m == queue_in[Server][i]
        IN  \E j \in 1..Len(sent[m.remote]) : sent[m.remote][j] = m.msg
=============================================================================
