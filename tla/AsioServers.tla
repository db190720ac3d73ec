---------------------------- MODULE AsioServers ----------------------------
(***************************************************************************)
(* Libraries/asio/server_client: the servers that serve every connection   *)
(* with a Session - the echo server and the ones that send the time - and  *)
(* the daytime servers over UDP with their clients, the synchronous one    *)
(* and the one with futures.  A stream keeps the order; a datagram may be  *)
(* lost or come late.                                                      *)
(***************************************************************************)
EXTENDS Naturals, Sequences, FiniteSets

CONSTANTS Peers,            \* the clients
          EchoMax,          \* bound: bytes a client sends
          WindowMax,        \* what a connection holds that the client has not read
          AskMax            \* bound: requests of a client over UDP

ASSUME AsioConstants ==
    IsFiniteSet(Peers) /\ EchoMax \in Nat /\ WindowMax \in Nat /\ AskMax \in Nat

VARIABLES tcpKind,          \* which TCP server runs, "none" while the UDP server does
          acceptQueue,      \* connections not yet accepted
          session,          \* the Session of a client: its operation and data_
          stream,           \* the bytes under way and what each side has done with them
          udp,              \* UdpServer: its operation, remote_endpoint_, the socket's queue
          asking            \* the UDP clients

asioVars == <<tcpKind, acceptQueue, session, stream, udp, asking>>

TcpKinds == {"echo", "async daytime", "shared buffer", "sync daytime"}
Daytime == <<1, 2>>     \* in two bytes
UdpKinds == {"sync server", "async server"}
ClientKinds == {"sync client", "future client"}

-----------------------------------------------------------------------------
(* The TCP servers.  A session lives as long as an operation holds it; its *)
(* end closes the connection.                                              *)

WritesTheTime == [op |-> "write", data |-> Daytime]
NewSession == IF tcpKind = "echo" THEN [op |-> "read", data |-> <<>>] ELSE WritesTheTime
EndedSession == [op |-> "ended", data |-> <<>>]

TcpConnect(c) ==
    /\ stream[c].phase = "new"
    /\ stream' = [stream EXCEPT ![c].phase = "open"]
    /\ acceptQueue' = Append(acceptQueue, c)
    /\ UNCHANGED session

(* the synchronous server accepts when it has written to the one before    *)
FreeToAccept ==
    tcpKind = "sync daytime" => \A c \in Peers : session[c].op \in {"none", "ended"}
(* do_accept again, whatever became of the last                            *)
TcpAccept ==
    /\ acceptQueue # <<>> /\ FreeToAccept
    /\ session' = [session EXCEPT ![Head(acceptQueue)] = NewSession]
    /\ acceptQueue' = Tail(acceptQueue)
    /\ UNCHANGED stream
(* with an error: the connection that waited has no other end any more; it *)
(* gets no session.  (An exception ends the synchronous server: no step.)  *)
TcpAcceptError ==
    /\ tcpKind # "sync daytime"
    /\ acceptQueue # <<>> /\ stream[Head(acceptQueue)].phase = "gone"
    /\ acceptQueue' = Tail(acceptQueue)
    /\ UNCHANGED <<session, stream>>

ReadSome(c) ==          \* do_read's handler: do_write(length)
    /\ session[c].op = "read" /\ stream[c].toServer # <<>>
    /\ \E n \in 1..Len(stream[c].toServer) :
          /\ session' = [session EXCEPT ![c] =
                            [op |-> "write", data |-> SubSeq(stream[c].toServer, 1, n)]]
          /\ stream' = [stream EXCEPT ![c].toServer = SubSeq(@, n + 1, Len(@))]
    /\ UNCHANGED acceptQueue

ReadError(c) ==         \* eof among them
    /\ session[c].op = "read" /\ stream[c].shut /\ stream[c].toServer = <<>>
    /\ session' = [session EXCEPT ![c] = EndedSession]
    /\ UNCHANGED <<acceptQueue, stream>>

(* Mutant: write_some, whose handler is called when some is written.       *)
AfterSome(rest) ==
    IF tcpKind = "echo" THEN [op |-> "read", data |-> <<>>] ELSE EndedSession
(* async_write writes what the connection takes and calls its handler when *)
(* all is written                                                          *)
AfterWrite(rest) ==
    CASE rest # <<>> -> [op |-> "write", data |-> rest]
      [] rest = <<>> /\ tcpKind = "echo" -> [op |-> "read", data |-> <<>>]
      [] rest = <<>> /\ tcpKind # "echo" -> EndedSession
WriteSome(c) ==
    LET data == session[c].data
        room == WindowMax - Len(stream[c].toClient)
    IN  /\ session[c].op = "write" /\ stream[c].phase = "open" /\ room > 0
        /\ \E n \in 1..Len(data) :
              /\ n <= room
              /\ stream' = [stream EXCEPT ![c].toClient = @ \o SubSeq(data, 1, n)]
              /\ session' = [session EXCEPT ![c] = AfterWrite(SubSeq(data, n + 1, Len(data)))]
        /\ UNCHANGED acceptQueue

WriteError(c) ==        \* the client is gone
    /\ session[c].op \in {"read", "write"} /\ stream[c].phase = "gone"
    /\ session' = [session EXCEPT ![c] = EndedSession]
    /\ UNCHANGED <<acceptQueue, stream>>

(* The clients: tcp_daytime_client reads until eof *)
ClientWrites(c) ==
    /\ tcpKind = "echo" /\ stream[c].phase = "open" /\ ~stream[c].shut
    /\ Len(stream[c].sent) < EchoMax
    /\ LET byte == Len(stream[c].sent) + 1
       IN  stream' = [stream EXCEPT ![c].sent = Append(@, byte), ![c].toServer = Append(@, byte)]
    /\ UNCHANGED <<acceptQueue, session>>
ClientReads(c) ==
    /\ stream[c].phase = "open" /\ stream[c].toClient # <<>>
    /\ stream' = [stream EXCEPT ![c].toClient = Tail(@),
                                      ![c].received = Append(@, Head(stream[c].toClient))]
    /\ UNCHANGED <<acceptQueue, session>>
ClientShuts(c) ==
    /\ tcpKind = "echo" /\ stream[c].phase = "open" /\ ~stream[c].shut
    /\ stream' = [stream EXCEPT ![c].shut = TRUE]
    /\ UNCHANGED <<acceptQueue, session>>
ClientSeesEof(c) ==
    /\ stream[c].phase = "open" /\ session[c].op = "ended" /\ stream[c].toClient = <<>>
    /\ stream' = [stream EXCEPT ![c].phase = "eof"]
    /\ UNCHANGED <<acceptQueue, session>>
ClientGoes(c) ==        \* at any time
    /\ stream[c].phase = "open"
    /\ stream' = [stream EXCEPT ![c].phase = "gone", ![c].toClient = <<>>]
    /\ UNCHANGED <<acceptQueue, session>>

TcpStep ==
    /\ \/ TcpAccept \/ TcpAcceptError
       \/ \E c \in Peers :
             TcpConnect(c) \/ ReadSome(c) \/ ReadError(c) \/ WriteSome(c) \/ WriteError(c)
               \/ ClientWrites(c) \/ ClientReads(c) \/ ClientShuts(c) \/ ClientSeesEof(c)
               \/ ClientGoes(c)
    /\ UNCHANGED <<tcpKind, udp, asking>>

-----------------------------------------------------------------------------
(* UDP: receive from anybody, send the time to remote_endpoint_, and only  *)
(* then receive again                                                      *)

StartReceive(u) == [u EXCEPT !.op = "receive"]
(* handle_receive has the sender's endpoint from the receive               *)
HandleReceive(u) == [u EXCEPT !.op = "send", !.remote = Head(u.queue), !.queue = Tail(@)]
(* handle_send reports an error and no more: either way the request is over *)
HandleSend(u) == [u EXCEPT !.answered[u.remote] = @ + 1]

(* Mutant: the next receive starts with the send, not after it. *)
ReceiveMeanwhile ==
    /\ udp.op \in {"receive", "send"} /\ udp.queue # <<>>
    /\ udp' = HandleReceive(udp)
    /\ UNCHANGED asking
UdpReceive ==
    /\ udp.op = "receive" /\ udp.queue # <<>>
    /\ udp' = HandleReceive(udp)
    /\ UNCHANGED asking
(* handle_receive does nothing of an error, no operation is left and run   *)
(* returns; the synchronous server ends with an exception                  *)
UdpReceiveError ==
    /\ udp.op = "receive" /\ udp' = [udp EXCEPT !.op = "ended"]
    /\ UNCHANGED asking
UdpSendTo(arrives) ==
    /\ udp.op = "send"
    /\ asking' = IF arrives THEN [asking EXCEPT ![udp.remote].replies = @ + 1] ELSE asking
    /\ udp' = StartReceive(HandleSend(udp))
UdpSendError ==     \* one goes on, the other breaks out of its loop
    /\ udp.op = "send"
    /\ udp' = IF udp.kind = "async server" THEN StartReceive(HandleSend(udp))
              ELSE [HandleSend(udp) EXCEPT !.op = "ended"]
    /\ UNCHANGED asking

AskDatagram(c, arrives) ==
    /\ asking[c].op = "idle" /\ asking[c].asked < AskMax
    /\ asking' = [asking EXCEPT ![c].op = "waiting", ![c].asked = @ + 1]
    /\ udp' = IF arrives
              THEN [udp EXCEPT !.queue = Append(@, c), !.arrived[c] = @ + 1] ELSE udp
(* send_to throws; wait() on the future of async_send_to does not          *)
AskError(c) ==
    /\ asking[c].op = "idle"
    /\ asking' = [asking EXCEPT ![c].op =
                     IF asking[c].kind = "sync client" THEN "ended" ELSE "waiting"]
    /\ UNCHANGED udp
GotTime(c) ==           \* the program is over, or run again
    /\ asking[c].op = "waiting" /\ asking[c].replies > 0
    /\ asking' = [asking EXCEPT ![c].op = "idle", ![c].replies = @ - 1, ![c].times = @ + 1]
    /\ UNCHANGED udp

UdpStep ==
    /\ \/ UdpReceive \/ UdpReceiveError \/ UdpSendError
       \/ \E arrives \in BOOLEAN : UdpSendTo(arrives)
       \/ \E c \in Peers : \/ AskError(c) \/ GotTime(c)
                           \/ \E arrives \in BOOLEAN : AskDatagram(c, arrives)
    /\ UNCHANGED <<tcpKind, acceptQueue, session, stream>>

-----------------------------------------------------------------------------
NewClient(kind) == [kind |-> kind, op |-> "idle", asked |-> 0, replies |-> 0, times |-> 0]
AsioInit ==
    /\ tcpKind = "none" /\ acceptQueue = <<>>
    /\ session = [c \in Peers |-> [op |-> "none", data |-> <<>>]]
    /\ stream = [c \in Peers |-> [phase |-> "new", shut |-> FALSE, sent |-> <<>>, toServer |-> <<>>,
                                  toClient |-> <<>>, received |-> <<>>]]
    /\ udp = [kind |-> "none", op |-> "off", remote |-> "nobody", queue |-> <<>>,
              arrived |-> [c \in Peers |-> 0], answered |-> [c \in Peers |-> 0]]
    /\ asking = [c \in Peers |-> NewClient("sync client")]

StartTcp ==
    /\ tcpKind = "none" /\ udp.op = "off" /\ tcpKind' \in TcpKinds
    /\ UNCHANGED <<acceptQueue, session, stream, udp, asking>>
StartUdp ==
    /\ tcpKind = "none" /\ udp.op = "off"
    /\ \E kind \in UdpKinds : udp' = StartReceive([udp EXCEPT !.kind = kind])
    /\ \E kinds \in [Peers -> ClientKinds] :
          asking' = [c \in Peers |-> NewClient(kinds[c])]
    /\ UNCHANGED <<tcpKind, acceptQueue, session, stream>>

AsioNext ==
    \/ StartTcp \/ StartUdp
    \/ tcpKind # "none" /\ TcpStep
    \/ udp.op # "off" /\ UdpStep

AsioSpec == AsioInit /\ [][AsioNext]_asioVars

-----------------------------------------------------------------------------
Bytes == Nat
Sessions == [op : {"none", "read", "write", "ended"}, data : Seq(Bytes)]
ByteStreams == [phase : {"new", "open", "eof", "gone"}, shut : BOOLEAN, sent : Seq(Bytes),
                toServer : Seq(Bytes), toClient : Seq(Bytes), received : Seq(Bytes)]
UdpServers == [kind : UdpKinds \cup {"none"}, op : {"off", "receive", "send", "ended"},
               remote : Peers \cup {"nobody"}, queue : Seq(Peers),
               arrived : [Peers -> Nat], answered : [Peers -> Nat]]
UdpClients == [kind : ClientKinds, op : {"idle", "waiting", "ended"}, asked : 0..AskMax,
               replies : Nat, times : Nat]

AsioTypeOK ==
    /\ tcpKind \in TcpKinds \cup {"none"} /\ acceptQueue \in Seq(Peers)
    /\ session \in [Peers -> Sessions] /\ stream \in [Peers -> ByteStreams]
    /\ udp \in UdpServers /\ asking \in [Peers -> UdpClients]

(* Through the one buffer of a session, its partial reads and writes and a *)
(* client that reads late, every byte comes back in order: what the client *)
(* has read, what is under way to it, what the session holds and what is   *)
(* under way to the session are what was sent; and a client that shut its  *)
(* side and sees the end has all of it.                                    *)
EchoesEverything ==
    tcpKind = "echo" => \A c \in Peers :
        LET s == stream[c]
        IN  s.phase \in {"open", "eof"} =>
            /\ s.received \o s.toClient \o session[c].data \o s.toServer = s.sent
            /\ s.phase = "eof" => s.received = s.sent

(* A client of a daytime server sees the end after the whole message and   *)
(* nothing else; a synchronous server never serves two.                    *)
SendsTheTimeOnce ==
    tcpKind \in TcpKinds \ {"echo"} =>
        /\ \A c \in Peers :
              LET s == stream[c]
              IN  /\ s.phase = "open" /\ session[c].op # "none" =>
                        s.received \o s.toClient \o session[c].data = Daytime
                  /\ s.phase = "eof" => s.received = Daytime
        /\ tcpKind = "sync daytime" =>
              Cardinality({c \in Peers : session[c].op = "write"}) <= 1

\* How often a client's request is in the socket's queue, and being answered.
WaitsIn(q, c) == Cardinality({i \in DOMAIN q : q[i] = c})
NowServed(c) == IF udp.op = "send" /\ udp.remote = c THEN 1 ELSE 0

(* A reply goes to the client whose request was received: every request    *)
(* that reached the socket waits there, is being answered or was answered, *)
(* and no client gets more replies than its requests.                      *)
AnswersWhoAsked ==
    \A c \in Peers :
        /\ udp.arrived[c] = WaitsIn(udp.queue, c) + NowServed(c) + udp.answered[c]
        /\ asking[c].replies + asking[c].times <= udp.answered[c]
        /\ udp.answered[c] <= asking[c].asked

-----------------------------------------------------------------------------
(* The inductive invariant, in parts.                                      *)

\* Of a session x and its stream s: only a write has data, only a connection
\* that was accepted has an operation, the client sees the end last.
SessionFits(x, s) ==
    /\ x.op # "write" => x.data = <<>>
    /\ s.phase = "new" => /\ x.op = "none" /\ s.sent = <<>> /\ s.toServer = <<>>
                          /\ s.toClient = <<>> /\ s.received = <<>>
    /\ s.phase = "eof" => x.op = "ended" /\ s.toClient = <<>>
    /\ Len(s.toClient) <= WindowMax

\* What was sent is somewhere, in order; a session ends when all was read.
Echoes(x, s) ==
    s.phase \in {"open", "eof"} =>
        /\ s.received \o s.toClient \o x.data \o s.toServer = s.sent
        /\ x.op = "ended" => s.shut = TRUE /\ s.toServer = <<>>

\* The message is all there is, from the acceptance on.
TellsTheTime(x, s) ==
    /\ x.op # "read"
    /\ s.phase \in {"open", "eof"} /\ x.op # "none" =>
          s.received \o s.toClient \o x.data = Daytime
    /\ s.phase = "open" /\ x.op = "none" => s.received = <<>> /\ s.toClient = <<>>

FitsItsServer(x, s) ==
    /\ SessionFits(x, s)
    /\ tcpKind = "echo" => Echoes(x, s)
    /\ tcpKind \in TcpKinds \ {"echo"} => TellsTheTime(x, s)
ConnectionsFit == \A c \in Peers : FitsItsServer(session[c], stream[c])

\* Who waits to be accepted does so once, and has no session yet.
AcceptedOnce ==
    /\ \A i \in 1..Len(acceptQueue) :
          stream[acceptQueue[i]].phase # "new" /\ session[acceptQueue[i]].op = "none"
    /\ \A i, j \in 1..Len(acceptQueue) : acceptQueue[i] = acceptQueue[j] => i = j

ServesOneAtATime == tcpKind = "sync daytime" =>
    \A c, d \in Peers : session[c].op = "write" /\ session[d].op = "write" => c = d

\* One of the two parts runs, or none yet.
OneProgram ==
    /\ tcpKind = "none" => \A c \in Peers : stream[c].phase = "new"
    /\ udp.op # "off" => tcpKind = "none"
    /\ udp.op = "off" => \A c \in Peers : udp.arrived[c] = 0

Answering ==
    /\ udp.op = "send" => udp.remote \in Peers
    /\ \A c \in Peers : udp.arrived[c] <= asking[c].asked

AsioInv == /\ ConnectionsFit /\ AcceptedOnce /\ ServesOneAtATime /\ OneProgram
           /\ Answering /\ AnswersWhoAsked

(* The echo, daytime and UDP servers give every client what it is owed;    *)
(* with what this follows from.                                            *)
AsioServersOK == EchoesEverything /\ SendsTheTimeOnce /\ AnswersWhoAsked /\ AsioInv
=============================================================================
