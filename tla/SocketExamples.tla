---------------------------- MODULE SocketExamples ----------------------------
(***************************************************************************)
(* Libraries/sockets/low_level beside the relay servers, and the first     *)
(* asio program (olc/simple_asio.cpp): how each program finds an address   *)
(* it can use, the server that forks a child for every connection and      *)
(* reaps it in a signal handler, its client, and the programs that send    *)
(* and receive one datagram.  Any system call may fail.                    *)
(***************************************************************************)
EXTENDS Naturals, SequencesExt, FiniteSetsExt, Integers

CONSTANTS AddressCount,   \* what getaddrinfo finds
          Callers         \* the clients of the forking server

VARIABLES example,        \* the program that runs, "none" before
          setup,          \* how far it is, the address it tries, its open descriptors
          caller,         \* a client: where its connection is, what it received
          holds,          \* the processes that hold a connection: "server", "child"
          child,          \* the child for a connection: none, runs, zombie, reaped
          sigchld,        \* pending; and whether sigchild_handler runs
          datagram        \* the port of the one under way

exampleVars == <<example, setup, caller, holds, child, sigchld, datagram>>

Binding == {"hello_server", "selectserver", "dgram_listener"}
Connecting == {"hello_client"}
Streams == {"hello_server", "selectserver"}
Examples == Binding \cup Connecting \cup {"dgram_talker", "dgram_broadcaster", "simple_asio"}
Greeting == <<"Hello", "World">>
Server_Port == [dgram_talker |-> 3490, dgram_broadcaster |-> 4950]
ListenerPort == 4950

-----------------------------------------------------------------------------
(* for (p = servinfo; p != nullptr; p = p->ai_next)                        *)

Goes(at, addr, open) == setup' = [at |-> at, addr |-> addr, open |-> open]
NewSetup == [at |-> "resolve", addr |-> 1, open |-> {}]
Resolve(ok) ==      \* the list of addresses, the local ones or those of the host
    /\ setup.at = "resolve"
    /\ Goes(IF ok THEN "socket" ELSE "exited", 1, {})
NextAddress ==
    IF setup.addr < AddressCount THEN Goes("socket", setup.addr + 1, {})
    ELSE Goes("exited", setup.addr, {})
AfterSocket == CASE example \in Streams \cup {"dgram_broadcaster"} -> "options"
                 [] example \in {"dgram_listener"} \cup Connecting -> "bind"
                 [] example = "dgram_talker" -> "ready"
Socket(ok) ==       \* the broadcaster has one address, the host's first
    /\ setup.at = "socket"
    /\ CASE ok -> Goes(AfterSocket, setup.addr, {setup.addr})
         [] ~ok /\ example # "dgram_broadcaster" -> NextAddress
         [] ~ok /\ example = "dgram_broadcaster" -> Goes("exited", setup.addr, {})
(* hello_server and the broadcaster exit, selectserver does not look       *)
SetOptions(ok) ==
    /\ setup.at = "options"
    /\ IF ok \/ example = "selectserver"
       THEN Goes(IF example \in Binding THEN "bind" ELSE "ready", setup.addr, setup.open)
       ELSE Goes("exited", setup.addr, {})
\* Mutant: the descriptor that could not be bound stays open.
BindAndLeak(ok) ==
    /\ setup.at = "bind"
    /\ IF ~ok THEN IF setup.addr < AddressCount THEN Goes("socket", setup.addr + 1, setup.open)
                   ELSE Goes("exited", setup.addr, {})
       ELSE Goes(IF example \in Streams THEN "listen" ELSE "ready", setup.addr, setup.open)
(* bind or connect; it closes what it cannot use                           *)
BindOrConnect(ok) ==
    /\ setup.at = "bind"
    /\ IF ~ok THEN NextAddress
       ELSE Goes(IF example \in Streams THEN "listen" ELSE "ready", setup.addr, setup.open)
Listen(ok) ==
    /\ setup.at = "listen"
    /\ IF ok THEN Goes("ready", setup.addr, setup.open) ELSE Goes("exited", setup.addr, {})

SetUp ==
    /\ \E ok \in BOOLEAN :
          Resolve(ok) \/ Socket(ok) \/ SetOptions(ok) \/ BindOrConnect(ok) \/ Listen(ok)
    /\ UNCHANGED <<caller, holds, child, sigchld, datagram>>

-----------------------------------------------------------------------------
(* hello_server: accept, fork; the child closes the listener, sends and    *)
(* exits, the parent closes its copy of the connection                     *)
Serving == example = "hello_server" /\ setup.at = "ready"

CallerConnects(c) ==
    /\ Serving /\ caller[c].at = "new"
    /\ caller' = [caller EXCEPT ![c].at = "backlog"]
    /\ UNCHANGED <<holds, child, sigchld>>
(* An accept that fails leaves the connection in the backlog, or has lost  *)
(* it; the loop goes on.                                                   *)
AcceptCaller(c, ok) ==
    /\ Serving /\ caller[c].at = "backlog" /\ \A d \in Callers : "server" \notin holds[d]
    /\ IF ok THEN /\ caller' = [caller EXCEPT ![c].at = "accepted"]
                  /\ holds' = [holds EXCEPT ![c] = {"server"}]
       ELSE caller' \in {caller, [caller EXCEPT ![c].at = "lost"]} /\ UNCHANGED holds
    /\ UNCHANGED <<child, sigchld>>
Fork(c, ok) ==
    /\ "server" \in holds[c] /\ child[c] = "none"
    /\ IF ok THEN /\ holds' = [holds EXCEPT ![c] = @ \cup {"child"}]
                  /\ child' = [child EXCEPT ![c] = "runs"]
       ELSE /\ holds' = [holds EXCEPT ![c] = {}] /\ UNCHANGED child
    /\ UNCHANGED <<caller, sigchld>>
ParentCloses(c) ==
    /\ "server" \in holds[c] /\ child[c] # "none"
    /\ holds' = [holds EXCEPT ![c] = @ \ {"server"}]
    /\ UNCHANGED <<caller, child, sigchld>>
ChildSends(c, ok) ==
    /\ child[c] = "runs"
    /\ caller' = IF ok /\ caller[c].at = "accepted"
                 THEN [caller EXCEPT ![c].arrived = Greeting] ELSE caller
    /\ child' = [child EXCEPT ![c] = "sent"]
    /\ UNCHANGED <<holds, sigchld>>
ChildExits(c) ==
    /\ child[c] = "sent"
    /\ child' = [child EXCEPT ![c] = "zombie"]
    /\ holds' = [holds EXCEPT ![c] = @ \ {"child"}]
    /\ sigchld' = [sigchld EXCEPT !.pending = TRUE]     \* however many are pending
    /\ UNCHANGED caller

(* sigchild_handler, while (waitpid(-1, nullptr, WNOHANG) > 0); its own    *)
(* signal is blocked as long                                               *)
EnterHandler ==
    /\ sigchld.pending /\ ~sigchld.handling
    /\ sigchld' = [pending |-> FALSE, handling |-> TRUE]
    /\ UNCHANGED <<caller, holds, child>>
Reap(c) ==
    /\ sigchld.handling /\ child[c] = "zombie"
    /\ child' = [child EXCEPT ![c] = "reaped"]
    /\ UNCHANGED <<caller, holds, sigchld>>
LeaveHandler ==
    /\ sigchld.handling /\ \A c \in Callers : child[c] # "zombie"
    /\ sigchld' = [sigchld EXCEPT !.handling = FALSE]
    /\ UNCHANGED <<caller, holds, child>>

(* hello_client: one recv, of what there is, or of the end                 *)
CallerReceives(c) ==
    /\ caller[c].at \in {"accepted", "lost"}
    /\ \/ \E n \in 1..Len(caller[c].arrived) :
             caller' = [caller EXCEPT ![c].at = "done", ![c].got = SubSeq(caller[c].arrived, 1, n)]
       \/ /\ caller[c].arrived = <<>> /\ holds[c] = {}
          /\ caller' = [caller EXCEPT ![c].at = "done"]
    /\ UNCHANGED <<holds, child, sigchld>>

HelloStep ==
    /\ \/ EnterHandler \/ LeaveHandler
       \/ \E c \in Callers :
             \/ CallerConnects(c) \/ ParentCloses(c) \/ ChildExits(c) \/ Reap(c) \/ CallerReceives(c)
             \/ \E ok \in BOOLEAN : AcceptCaller(c, ok) \/ Fork(c, ok) \/ ChildSends(c, ok)
    /\ UNCHANGED <<setup, datagram>>

-----------------------------------------------------------------------------
(* The datagram programs: sendto once, or recvfrom once, and close         *)
Ends(at) == setup' = [setup EXCEPT !.at = at, !.open = {}]
SendDatagram(ok) ==
    /\ example \in DOMAIN Server_Port /\ setup.at = "ready"
    /\ Ends(IF ok THEN "returned" ELSE "exited")
    /\ datagram' = IF ok THEN Server_Port[example] ELSE datagram
ReceiveDatagram(ok) ==
    /\ example = "dgram_listener" /\ setup.at = "ready"
    /\ Ends(IF ok THEN "returned" ELSE "exited") /\ UNCHANGED datagram
(* simple_asio: a thread runs the context, kept busy with idle_work; the   *)
(* socket is open even if connect failed, unless it could not be opened;   *)
(* and only with an open socket is the thread joined                       *)
SimpleConnect(opened) ==
    /\ setup.at = "connecting"
    /\ IF opened THEN Goes("sleeping", setup.addr, {setup.addr})
       ELSE Goes("unjoined", setup.addr, {})
    /\ UNCHANGED datagram
SimpleEnd ==        \* the end of main with a thread that is joinable
    /\ setup.at \in {"sleeping", "unjoined"}
    /\ Ends(IF setup.at = "sleeping" THEN "returned" ELSE "terminated") /\ UNCHANGED datagram
OneShotStep ==
    /\ \/ SimpleEnd
       \/ \E ok \in BOOLEAN : SendDatagram(ok) \/ ReceiveDatagram(ok) \/ SimpleConnect(ok)
    /\ UNCHANGED <<caller, holds, child, sigchld>>

-----------------------------------------------------------------------------
(* A client: where its connection is, what arrived at it, what it has read. *)
NewCaller == [at |-> "new", arrived |-> <<>>, got |-> <<>>]
SocketExInit ==
    /\ example = "none" /\ setup = NewSetup
    /\ caller = [c \in Callers |-> NewCaller]
    /\ holds = [c \in Callers |-> {}] /\ child = [c \in Callers |-> "none"]
    /\ sigchld = [pending |-> FALSE, handling |-> FALSE] /\ datagram = 0
StartExample ==
    /\ example = "none" /\ example' \in Examples
    /\ setup' = [setup EXCEPT !.at = IF example' = "simple_asio" THEN "connecting" ELSE @]
    /\ UNCHANGED <<caller, holds, child, sigchld, datagram>>
SocketExNext ==
    StartExample \/ (example # "none" /\ (SetUp \/ HelloStep \/ OneShotStep) /\ UNCHANGED example)

-----------------------------------------------------------------------------
SocketExTypeOK ==
    /\ example \in Examples \cup {"none"} /\ setup.open \subseteq 1..AddressCount
    /\ \A c \in Callers : /\ child[c] \in {"none", "runs", "sent", "zombie", "reaped"}
                          /\ holds[c] \subseteq {"server", "child"}

(* Whatever fails on the way, a program has one descriptor when it is      *)
(* ready - that of the address it stopped at - and none when it is over;   *)
(* between two addresses it has none.                                      *)
OneDescriptor ==
    /\ setup.at \in {"options", "bind", "listen", "ready", "sleeping"} => setup.open = {setup.addr}
    /\ setup.at \in {"resolve", "socket", "exited", "returned", "terminated"} => setup.open = {}

(* Children may end while the handler runs and their signals merge: still, *)
(* a zombie is there only while its signal is pending or the handler runs. *)
NoZombieIsForgotten ==
    (\E c \in Callers : child[c] = "zombie") => sigchld.pending \/ sigchld.handling

(* The server holds one connection at most, and none it has handed to a    *)
(* child that is over, so that a connection closes when its child ends; a  *)
(* client is done with some of the greeting, or with none if the fork or   *)
(* the send failed.                                                        *)
ConnectionsClose ==
    /\ Cardinality({c \in Callers : "server" \in holds[c]}) <= 1
    /\ \A c \in Callers :
          /\ "child" \in holds[c] <=> child[c] \in {"runs", "sent"}
          /\ child[c] \in {"zombie", "reaped"} => holds[c] \subseteq {"server"}
          /\ caller[c].at = "done" =>
                /\ IsPrefix(caller[c].got, Greeting)
                /\ caller[c].got = <<>> => holds[c] = {} /\ child[c] \notin {"runs", "sent"}

(* The datagram that reaches the listener's port is the broadcaster's; the *)
(* talker sends to the port of the other server.                           *)
OnlyTheBroadcastArrives ==
    datagram # 0 => (datagram = ListenerPort <=> example = "dgram_broadcaster")

SocketExamplesOK ==
    OneDescriptor /\ NoZombieIsForgotten /\ ConnectionsClose /\ OnlyTheBroadcastArrives

-----------------------------------------------------------------------------
(***************************************************************************)
(* What the networking examples put on the wire and take off it: the four  *)
(* characters before a chat message, the body of an olc message, a float   *)
(* of float_serialization.cpp.  A wire is written and read once per step.  *)
(***************************************************************************)

CONSTANTS BodyLengths,  \* body_length of the chat messages written
          HeaderChars,  \* characters of headers nobody wrote: digits, 10 for any other
          DataSizes,    \* sizeof the data pushed to a message
          BodyMax,      \* bound: the bytes of its body
          WholeParts,   \* of the floats: int(f) of |f| ...
          Fractions     \* ... and |f| - int(f), in units of 1 / FractionUnits

VARIABLES header,       \* a ChatMessage: [chars, length, ec]
          headerFrom,   \* history: body_length of its writer, -1: none
          message,      \* an olc message: [body, size]; a byte is <<datum, place>>
          pulled,       \* what >> gave last: [bytes, body: history, the body then]
          float         \* [in, word, out, again]

wireVars == <<header, headerFrom, message, pulled, float>>

header_length == 4
max_body_length == 512

-----------------------------------------------------------------------------
(* ChatMessage::encode_header: %04d; decode_header: from_chars takes the   *)
(* digits the characters begin with, and fails when there is none          *)
encode_header(n) == [i \in 1..header_length |-> (n \div 10^(header_length - i)) % 10]

\* Mutant: the last character is taken for the end of a string.
DigitsOfString(chars) == SubSeq(chars, 1, header_length - 1)
Digit(c) == c \in 0..9
DigitsOf(chars) ==
    LET stops == {i \in DOMAIN chars : ~Digit(chars[i])}
    IN  IF stops = {} THEN chars
        ELSE SubSeq(chars, 1, (CHOOSE i \in stops : \A j \in stops : i <= j) - 1)
decode_header(chars) ==
    LET digits == DigitsOf(chars)
    IN  IF digits = <<>> THEN [length |-> 0, ec |-> "invalid_argument"]
        ELSE [length |-> FoldLeft(LAMBDA n, d : 10 * n + d, 0, digits), ec |-> "none"]

ReadHeader(chars, from) ==
    /\ header' = [chars |-> chars, length |-> decode_header(chars).length,
                  ec |-> decode_header(chars).ec]
    /\ headerFrom' = from
    /\ UNCHANGED <<message, pulled, float>>

SendHeader == \E n \in BodyLengths : ReadHeader(encode_header(n), n)
OtherHeader == \E chars \in [1..header_length -> HeaderChars] : ReadHeader(chars, -1)

-----------------------------------------------------------------------------
(* operator<< of a message puts the bytes of a datum behind its body and   *)
(* keeps the size; operator>> copies the last bytes and leaves them there  *)
PushData(n) ==
    LET d == 1 + Cardinality({message.body[i][1] : i \in DOMAIN message.body})
        body == message.body \o [k \in 1..n |-> <<d, k>>]
    IN  /\ Len(body) <= BodyMax
        /\ message' = [body |-> body, size |-> Len(body)]
        /\ UNCHANGED <<header, headerFrom, pulled, float>>

\* Mutant: the data is read from the front, where the first push put it.
TheFirst(n, body) == SubSeq(body, 1, n)
TheLast(n, body) == SubSeq(body, Len(body) - n + 1, Len(body))
PullData(n) ==
    /\ n <= Len(message.body)
    /\ pulled' = [bytes |-> TheLast(n, message.body), body |-> message.body]
    /\ UNCHANGED <<header, headerFrom, message, float>>

-----------------------------------------------------------------------------
(* htonf: the sign, 15 bits of the whole part, 16 of the fraction, each    *)
(* conversion towards zero; ntohf puts them together again                 *)
FractionUnits == 2^18
Negative(f) == f.neg /\ (f.whole # 0 \/ f.part # 0)
htonf(f) == [sign |-> IF Negative(f) THEN 1 ELSE 0, whole |-> f.whole % 2^15,
             fraction |-> f.part \div (FractionUnits \div 2^16)]
ntohf(p) == [neg |-> p.sign = 1, whole |-> p.whole,
             part |-> p.fraction * (FractionUnits \div 2^16)]

SendFloat(f) ==
    /\ float' = [in |-> f, word |-> htonf(f), out |-> ntohf(htonf(f)),
                 again |-> htonf(ntohf(htonf(f)))]
    /\ UNCHANGED <<header, headerFrom, message, pulled>>

\* 24 bits of precision hold the whole part and the fraction of each.
Floats == {f \in [neg : BOOLEAN, whole : WholeParts, part : Fractions] :
               f.whole >= 2^6 => f.part % 2^10 = 0}
Zero == [neg |-> FALSE, whole |-> 0, part |-> 0]

WireInit ==
    /\ header = [chars |-> encode_header(0), length |-> 0, ec |-> "none"] /\ headerFrom = 0
    /\ message = [body |-> <<>>, size |-> 0] /\ pulled = [bytes |-> <<>>, body |-> <<>>]
    /\ float = [in |-> Zero, word |-> htonf(Zero), out |-> Zero, again |-> htonf(Zero)]

\* Bound: one of the three wires is used in a behaviour.
WireNext ==
    \/ message.body = <<>> /\ float.in = Zero /\ (SendHeader \/ OtherHeader)
    \/ header.length = 0 /\ float.in = Zero
       /\ \E n \in DataSizes : PushData(n) \/ PullData(n)
    \/ message.body = <<>> /\ header.length = 0 /\ \E f \in Floats : SendFloat(f)

-----------------------------------------------------------------------------
WireTypeOK ==
    /\ header.length \in 0..9999 /\ header.ec \in {"none", "invalid_argument"}
    /\ message.size \in 0..BodyMax /\ Len(message.body) = message.size
    /\ float.word.whole \in 0..2^15 - 1 /\ float.word.fraction \in 0..2^16 - 1

(* A header that encode_header wrote is read as the length it was written  *)
(* for, and the body fits the receiver's array; a longer length, which     *)
(* decode_header lets through, or an error comes from no writer.           *)
HeadersAreRead ==
    /\ headerFrom >= 0 => header.ec = "none" /\ header.length = headerFrom
    /\ header.length > max_body_length \/ header.ec # "none" =>
        \A n \in BodyLengths : encode_header(n) # header.chars

(* >> of the type pushed last gives that datum whole, and again the next   *)
(* time: what was pushed before it is never reached.  A larger type gets   *)
(* its bytes at the end.  The body that is sent is the one pushed.         *)
PullsTheLastDatum ==
    LET wanted == Len(pulled.bytes)
        newest(body) == {i \in DOMAIN body : body[i][1] = Last(body)[1]}
    IN  /\ wanted > 0 =>
            /\ wanted = Cardinality(newest(pulled.body)) =>
                \A k \in 1..wanted : pulled.bytes[k] = <<Last(pulled.body)[1], k>>
            /\ Last(pulled.bytes) = Last(pulled.body)
        /\ IsPrefix(pulled.body, message.body)

(* A float within 15 bits comes out of the word less than 2^-16 nearer to  *)
(* zero, with its sign; packing it again gives the word back, except for a *)
(* negative one that vanished: it comes out as -0, whose sign is not sent. *)
FloatsSurvive ==
    /\ float.in.whole < 2^15 =>
        /\ float.out.whole = float.in.whole
        /\ float.in.part - float.out.part \in 0..(FractionUnits \div 2^16) - 1
        /\ float.out.neg = Negative(float.in)
    /\ float.again # float.word <=>
        float.word.sign = 1 /\ float.word.whole = 0 /\ float.word.fraction = 0

WireFormatsOK == HeadersAreRead /\ PullsTheLastDatum /\ FloatsSurvive
=============================================================================
