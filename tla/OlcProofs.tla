------------------------------ MODULE OlcProofs ------------------------------
(***************************************************************************)
(* Theorems about the olc server and its clients, for any set of clients   *)
(* and impostors and any number of messages.  OlcInv follows every body    *)
(* through the places it passes, from the end that emits it to what the    *)
(* other side keeps: posted, queue_out_, msg_temp_out_, the stream,        *)
(* msg_temp_in_, queue_in_.  OrderInv follows the order of a client's      *)
(* messages, when its user waits for one to be through before the next.    *)
(***************************************************************************)
EXTENDS OlcNetworking, FiniteSetTheorems, SequenceTheorems, TLAPS

MessageIds == Ids \cup {"none", "unknown", "close"}
ClientBodies == (1..MaxSends) \cup {NoBody, Junk}

\* What the end e may emit: a client no client's id, the server not the id of
\* the client it talks to; an impostor not the right answer.
Emitted(e) == IF e[2] = "client" THEN ClientBodies ELSE Bodies \ {e[1]}
MessageFrom(e) == [id : MessageIds, body : Emitted(e)]
WordFrom(e) == {"challenge", "wrong"} \cup (IF e[1] \in Impostors THEN {} ELSE {"right"})
PieceFrom(e) == {Word(answer) : answer \in WordFrom(e)}
                  \cup {Header(m) : m \in MessageFrom(e)} \cup {Body(m) : m \in MessageFrom(e)}

\* What the owners' queues hold: the server's, and those of the client c.
FromClients == [remote : validated, msg : [id : MessageIds, body : ClientBodies]]
FromServer(c) == [remote : Clients, msg : MessageFrom(ServerEnd(c))]

Outgoing ==
    \A e \in Ends :
        /\ posted[e] \in Seq(MessageFrom(e)) /\ queue_out[e] \in Seq(MessageFrom(e))
        /\ temp_out[e] \in MessageFrom(e)
        /\ wire[e] \in Seq(PieceFrom(e))
        /\ temp_in[e] \in MessageFrom(Peer(e))

Incoming ==
    /\ queue_in[Server] \in Seq(FromClients) /\ handled \in Seq(FromClients)
    /\ \A c \in Clients : /\ queue_in[c] \in Seq(FromServer(c))
                          /\ shown[c] \in Seq(MessageFrom(ServerEnd(c)))

\* Messages are read from a client that answered, and no impostor did.
Checked ==
    /\ validated \cap Impostors = {}
    /\ \A c \in Clients : reading[ServerEnd(c)] \in {"header", "body", "garbled"} => c \in validated

OlcInv == OlcTypeOK /\ Outgoing /\ Incoming /\ Checked

-----------------------------------------------------------------------------
\* The two ends of a connection.
LEMMA EndFacts ==
    ASSUME NEW e \in Ends
    PROVE  /\ e[1] \in Clients /\ e[2] \in {"server", "client"} /\ e = <<e[1], e[2]>>
           /\ Peer(e) \in Ends /\ Peer(e) # e /\ Peer(Peer(e)) = e /\ Peer(e)[1] = e[1]
           /\ Peer(e)[2] = "client" <=> e[2] = "server"
           /\ OwnerOf(e) \in Clients \cup {Server}
BY DEF Ends, Peer, OwnerOf

LEMMA ClientEnds ==
    ASSUME NEW c \in Clients
    PROVE  /\ ServerEnd(c) \in Ends /\ ClientEnd(c) \in Ends /\ ServerEnd(c) # ClientEnd(c)
           /\ ServerEnd(c)[1] = c /\ ServerEnd(c)[2] = "server"
           /\ ClientEnd(c)[1] = c /\ ClientEnd(c)[2] = "client"
           /\ Peer(ServerEnd(c)) = ClientEnd(c) /\ Peer(ClientEnd(c)) = ServerEnd(c)
           /\ OwnerOf(ServerEnd(c)) = Server /\ OwnerOf(ClientEnd(c)) = c
           /\ c # Server
BY OlcConstants DEF Ends, ServerEnd, ClientEnd, Peer, OwnerOf

\* What an end may emit are bodies and messages.
LEMMA Emits ==
    ASSUME NEW e \in Ends
    PROVE  /\ Emitted(e) \subseteq Bodies /\ MessageFrom(e) \subseteq Messages
           /\ PieceFrom(e) \subseteq Pieces
           /\ NoBody \in Emitted(e) /\ Junk \in Emitted(e)
           /\ NoMessage \in MessageFrom(e) /\ Closing \in MessageFrom(e)
<1>1. Emitted(e) \subseteq Bodies
  BY DEF Emitted, Bodies, ClientBodies
<1>2. NoBody \in Emitted(e) /\ Junk \in Emitted(e)
  BY EndFacts, NetworkingConstants DEF Emitted, Bodies, ClientBodies
<1>3. MessageFrom(e) \subseteq Messages
  BY <1>1 DEF MessageFrom, Messages, MessageIds
<1>4. PieceFrom(e) \subseteq Pieces
  BY <1>3 DEF PieceFrom, Pieces, WordFrom
<1>5. QED
  BY <1>1, <1>2, <1>3, <1>4 DEF NoMessage, Closing, Message, MessageFrom, MessageIds

\* A body is known by its piece, and by nothing else.
LEMMA PieceFacts ==
    ASSUME NEW e \in Ends, NEW piece \in PieceFrom(e)
    PROVE  /\ piece[1] \in {"word", "header", "body"}
           /\ piece[1] = "header" => piece[2] \in MessageIds
           /\ piece[1] = "body" => piece[2] \in Emitted(e)
           /\ piece = Word("right") => e[1] \notin Impostors
<1>1. CASE piece \in {Word(answer) : answer \in WordFrom(e)}
  BY <1>1 DEF Word, WordFrom
<1>2. CASE piece \in {Header(m) : m \in MessageFrom(e)}
  BY <1>2 DEF Header, Word, MessageFrom
<1>3. CASE piece \in {Body(m) : m \in MessageFrom(e)}
  BY <1>3 DEF Body, Word, MessageFrom
<1>4. QED
  BY <1>1, <1>2, <1>3 DEF PieceFrom

\* The front of a sequence, and its ends.
LEMMA HeadAndTail ==
    ASSUME NEW S, NEW q \in Seq(S), q # <<>>
    PROVE  Head(q) \in S /\ Tail(q) \in Seq(S)
OBVIOUS

LEMMA Appended ==
    ASSUME NEW S, NEW q \in Seq(S), NEW x \in S
    PROVE  Append(q, x) \in Seq(S) /\ Append(q, x) # <<>>
<1>1. Len(q) \in Nat /\ Len(Append(q, x)) = Len(q) + 1 /\ Len(<<>>) = 0
  OBVIOUS
<1>2. QED
  BY <1>1

LEMMA InASet ==
    ASSUME NEW S, NEW T, S \subseteq T, NEW q \in Seq(S)
    PROVE  q \in Seq(T)
OBVIOUS

LEMMA OneElement == ASSUME NEW S, NEW x \in S PROVE <<x>> \in Seq(S)
OBVIOUS

WriteRecords == [kind : {"word", "header", "body"}, ok : BOOLEAN]

\* The variables that are not the connection's.
Others == <<connections, server, handled, client, sent, shown>>

-----------------------------------------------------------------------------
\* Starting a write leaves the streams well formed.
LEMMA WriteStarts ==
    ASSUME OlcInv, NEW e \in Ends, NEW rest \in Seq(WriteRecords),
           NEW kind \in {"word", "header", "body"}, NEW piece \in PieceFrom(e),
           StartWrite(e, rest, kind, piece)
    PROVE  /\ writes' \in [Ends -> Seq(WriteRecords)] /\ wire' \in [Ends -> Seq(Pieces)]
           /\ \A f \in Ends : wire'[f] \in Seq(PieceFrom(f))
<1>1. PICK ok \in CanWrite(e) :
          /\ writes' = [writes EXCEPT ![e] = Append(rest, [kind |-> kind, ok |-> ok])]
          /\ wire' = IF ok /\ sock[Peer(e)] # "closed"
                     THEN [wire EXCEPT ![e] = Append(@, piece)] ELSE wire
  BY DEF StartWrite
<1>2. [kind |-> kind, ok |-> ok] \in WriteRecords
  BY DEF CanWrite, WriteRecords
<1>3. writes' \in [Ends -> Seq(WriteRecords)]
  BY <1>1, <1>2, Appended DEF OlcInv, OlcTypeOK, WriteRecords
<1>4. Append(wire[e], piece) \in Seq(PieceFrom(e))
  BY Appended DEF OlcInv, Outgoing
<1>5. Append(wire[e], piece) \in Seq(Pieces)
  BY <1>4, Emits, InASet
<1>6. QED
  BY <1>1, <1>3, <1>4, <1>5 DEF OlcInv, OlcTypeOK, Outgoing

\* The header of the next message.
LEMMA HeaderStarts ==
    ASSUME OlcInv, NEW e \in Ends, NEW rest \in Seq(WriteRecords),
           NEW q \in Seq(MessageFrom(e)), q # <<>>, WriteHeader(e, rest, q)
    PROVE  /\ writes' \in [Ends -> Seq(WriteRecords)] /\ wire' \in [Ends -> Seq(Pieces)]
           /\ temp_out' \in [Ends -> Messages] /\ queue_out' \in [Ends -> Seq(Messages)]
           /\ \A f \in Ends : /\ wire'[f] \in Seq(PieceFrom(f))
                              /\ temp_out'[f] \in MessageFrom(f)
                              /\ queue_out'[f] \in Seq(MessageFrom(f))
<1>1. Head(q) \in MessageFrom(e) /\ Tail(q) \in Seq(MessageFrom(e))
  BY HeadAndTail
<1>2. Head(q) \in Messages /\ Tail(q) \in Seq(Messages)
  BY <1>1, Emits, InASet
<1>3. Header(Head(q)) \in PieceFrom(e)
  BY <1>1 DEF PieceFrom
<1>4. QED
  BY <1>1, <1>2, <1>3, WriteStarts DEF WriteHeader, OlcInv, OlcTypeOK, Outgoing

\* The message after the one that is through.
LEMMA NextStarts ==
    ASSUME OlcInv, NEW e \in Ends, writes[e] # <<>>, NextMessage(e)
    PROVE  /\ writes' \in [Ends -> Seq(WriteRecords)] /\ wire' \in [Ends -> Seq(Pieces)]
           /\ temp_out' \in [Ends -> Messages] /\ queue_out' \in [Ends -> Seq(Messages)]
           /\ \A f \in Ends : /\ wire'[f] \in Seq(PieceFrom(f))
                              /\ temp_out'[f] \in MessageFrom(f)
                              /\ queue_out'[f] \in Seq(MessageFrom(f))
<1>1. Tail(writes[e]) \in Seq(WriteRecords)
  BY HeadAndTail DEF OlcInv, OlcTypeOK, WriteRecords
<1>2. queue_out[e] \in Seq(MessageFrom(e))
  BY DEF OlcInv, Outgoing
<1>3. CASE queue_out[e] # <<>>
  BY <1>1, <1>2, <1>3, HeaderStarts DEF NextMessage
<1>4. CASE queue_out[e] = <<>>
  BY <1>1, <1>4 DEF NextMessage, OlcInv, OlcTypeOK, Outgoing, WriteRecords
<1>5. QED
  BY <1>3, <1>4

\* What does not touch the queues of received messages and the reads.
LEMMA NothingReceived ==
    ASSUME OlcInv, UNCHANGED <<queue_in, validated, reading, handled, shown>>
    PROVE  Incoming' /\ Checked'
BY DEF OlcInv, Incoming, Checked, FromClients

-----------------------------------------------------------------------------
\* The handlers of a connection, one lemma for those that write.
LEMMA WriteHandlers ==
    ASSUME OlcInv, NEW e \in Ends, UNCHANGED Others,
           RunSend(e) \/ WroteHeader(e) \/ WroteBody(e)
    PROVE  OlcInv'
<1> USE DEF Others
<1>1. UNCHANGED <<sock, reading, temp_in, queue_in, validated, handled, shown>>
  BY DEF RunSend, WroteHeader, WroteBody
<1>2. /\ writes' \in [Ends -> Seq(WriteRecords)] /\ wire' \in [Ends -> Seq(Pieces)]
      /\ temp_out' \in [Ends -> Messages] /\ queue_out' \in [Ends -> Seq(Messages)]
      /\ posted' \in [Ends -> Seq(Messages)]
      /\ \A f \in Ends : /\ wire'[f] \in Seq(PieceFrom(f))
                         /\ temp_out'[f] \in MessageFrom(f)
                         /\ queue_out'[f] \in Seq(MessageFrom(f))
                         /\ posted'[f] \in Seq(MessageFrom(f))
  <2>1. CASE RunSend(e)
    <3>1. Head(posted[e]) \in MessageFrom(e) /\ Tail(posted[e]) \in Seq(MessageFrom(e))
      BY <2>1, HeadAndTail DEF RunSend, OlcInv, Outgoing
    <3>2. /\ Append(queue_out[e], Head(posted[e])) \in Seq(MessageFrom(e))
          /\ Append(queue_out[e], Head(posted[e])) # <<>>
      BY <3>1, Appended DEF OlcInv, Outgoing
    <3>3. /\ Tail(posted[e]) \in Seq(Messages)
          /\ Append(queue_out[e], Head(posted[e])) \in Seq(Messages)
      BY <3>1, <3>2, Emits, InASet
    <3>4. writes[e] \in Seq(WriteRecords)
      BY DEF OlcInv, OlcTypeOK, WriteRecords
    <3>5. posted' = [posted EXCEPT ![e] = Tail(@)]
      BY <2>1 DEF RunSend
    <3>6. CASE queue_out[e] = <<>>
      <4>1. WriteHeader(e, writes[e], Append(queue_out[e], Head(posted[e])))
        BY <2>1, <3>6 DEF RunSend
      <4>2. QED
        BY <4>1, <3>1, <3>2, <3>3, <3>4, <3>5, HeaderStarts DEF OlcInv, OlcTypeOK, Outgoing
    <3>7. CASE queue_out[e] # <<>>
      <4>1. /\ queue_out' = [queue_out EXCEPT ![e] = Append(@, Head(posted[e]))]
            /\ UNCHANGED <<writes, wire, temp_out>>
        BY <2>1, <3>7 DEF RunSend, OlcInv, OlcTypeOK
      <4>2. QED
        BY <3>1, <3>2, <3>3, <3>5, <4>1 DEF OlcInv, OlcTypeOK, Outgoing, WriteRecords
    <3>8. QED
      BY <3>6, <3>7
  <2>2. CASE WroteHeader(e)
    <3>1. writes[e] # <<>> /\ UNCHANGED posted
      BY <2>2 DEF WroteHeader, Completes
    <3>2. CASE temp_out[e].body # NoBody
      <4>1. Tail(writes[e]) \in Seq(WriteRecords)
        BY <3>1, HeadAndTail DEF OlcInv, OlcTypeOK, WriteRecords
      <4>2. Body(temp_out[e]) \in PieceFrom(e)
        BY DEF OlcInv, Outgoing, PieceFrom
      <4>3. /\ StartWrite(e, Tail(writes[e]), "body", Body(temp_out[e]))
            /\ UNCHANGED <<queue_out, temp_out>>
        BY <2>2, <3>2 DEF WroteHeader
      <4>4. /\ writes' \in [Ends -> Seq(WriteRecords)] /\ wire' \in [Ends -> Seq(Pieces)]
            /\ \A f \in Ends : wire'[f] \in Seq(PieceFrom(f))
        BY <4>1, <4>2, <4>3, WriteStarts
      <4>5. QED
        BY <3>1, <4>3, <4>4 DEF OlcInv, OlcTypeOK, Outgoing
    <3>3. CASE temp_out[e].body = NoBody
      BY <2>2, <3>1, <3>3, NextStarts DEF WroteHeader, OlcInv, OlcTypeOK, Outgoing
    <3>4. QED
      BY <3>2, <3>3
  <2>3. CASE WroteBody(e)
    <3>1. writes[e] # <<>> /\ UNCHANGED posted /\ NextMessage(e)
      BY <2>3 DEF WroteBody, Completes
    <3>2. QED
      BY <3>1, NextStarts DEF OlcInv, OlcTypeOK, Outgoing
  <2>4. QED
    BY <2>1, <2>2, <2>3
<1>3. OlcTypeOK'
  BY <1>1, <1>2 DEF OlcInv, OlcTypeOK, WriteRecords
<1>4. Outgoing'
  BY <1>1, <1>2 DEF OlcInv, Outgoing, MessageFrom, PieceFrom, Emitted
<1>5. QED
  BY <1>1, <1>3, <1>4, NothingReceived DEF OlcInv
\* The handlers that close this end, or do nothing but end a write.
LEMMA ClosingHandlers ==
    ASSUME OlcInv, NEW e \in Ends, UNCHANGED Others,
           RunClose(e) \/ WroteValidation(e) \/ WriteFailed(e) \/ ReadFailed(e)
    PROVE  OlcInv'
<1> USE DEF Others
<1>1. UNCHANGED <<wire, queue_out, temp_out, temp_in, queue_in, validated>>
  BY DEF RunClose, WroteValidation, WriteFailed, ReadFailed
<1>2. /\ sock' \in [Ends -> {"new", "open", "closed"}]
      /\ writes' \in [Ends -> Seq(WriteRecords)]
      /\ posted' \in [Ends -> Seq(Messages)]
      /\ \A f \in Ends : posted'[f] \in Seq(MessageFrom(f))
      /\ reading' \in [Ends -> {"none", "validation", "header", "body", "garbled"}]
      /\ \A f \in Ends : reading'[f] = reading[f] \/ f[2] = "client" \/ reading'[f] = "none"
  <2>1. CASE RunClose(e)
    <3>1. Tail(posted[e]) \in Seq(MessageFrom(e))
      BY <2>1, HeadAndTail DEF RunClose, OlcInv, Outgoing
    <3>2. Tail(posted[e]) \in Seq(Messages)
      BY <3>1, Emits, InASet
    <3>3. QED
      BY <2>1, <3>1, <3>2 DEF RunClose, Close, OlcInv, OlcTypeOK, Outgoing, WriteRecords
  <2>2. CASE WroteValidation(e) \/ WriteFailed(e) \/ ReadFailed(e)
    <3>1. writes[e] # <<>> => Tail(writes[e]) \in Seq(WriteRecords)
      BY HeadAndTail DEF OlcInv, OlcTypeOK, WriteRecords
    <3>3. UNCHANGED posted
      BY <2>2 DEF WroteValidation, WriteFailed, ReadFailed
    <3>4. \/ writes[e] # <<>> /\ writes' = [writes EXCEPT ![e] = Tail(@)]
          \/ UNCHANGED writes
      BY <2>2 DEF WroteValidation, WriteFailed, ReadFailed, Completes
    <3>5. UNCHANGED sock \/ sock' = [sock EXCEPT ![e] = "closed"]
      BY <2>2 DEF WroteValidation, WriteFailed, ReadFailed, Close
    <3>6. \/ UNCHANGED reading \/ reading' = [reading EXCEPT ![e] = "none"]
          \/ e[2] = "client" /\ reading' = [reading EXCEPT ![e] = "header"]
      BY <2>2 DEF WroteValidation, WriteFailed, ReadFailed, StartRead
    <3>7. writes' \in [Ends -> Seq(WriteRecords)]
      BY <3>1, <3>4 DEF OlcInv, OlcTypeOK, WriteRecords
    <3>8. QED
      BY <3>3, <3>5, <3>6, <3>7 DEF OlcInv, OlcTypeOK, Outgoing
  <2>3. QED
    BY <2>1, <2>2
<1>3. OlcTypeOK'
  BY <1>1, <1>2 DEF OlcInv, OlcTypeOK, WriteRecords
<1>4. Outgoing'
  BY <1>1, <1>2 DEF OlcInv, Outgoing, MessageFrom, PieceFrom, Emitted
<1>5. Incoming'
  BY <1>1 DEF OlcInv, Incoming, FromClients
<1>6. Checked'
  BY <1>1, <1>2, ClientEnds DEF OlcInv, Checked
<1>7. QED
  BY <1>3, <1>4, <1>5, <1>6 DEF OlcInv

\* Reading a piece leaves well formed streams.
LEMMA PieceTaken ==
    ASSUME OlcInv, NEW e \in Ends, Arrived(e) # {}
    PROVE  /\ Arrived(e) = {Head(wire[Peer(e)])} /\ Head(wire[Peer(e)]) \in PieceFrom(Peer(e))
           /\ Tail(wire[Peer(e)]) \in Seq(PieceFrom(Peer(e)))
           /\ Tail(wire[Peer(e)]) \in Seq(Pieces)
<1>1. wire[Peer(e)] \in Seq(PieceFrom(Peer(e))) /\ Peer(e) \in Ends /\ wire[Peer(e)] # <<>>
  BY EndFacts DEF OlcInv, Outgoing, Arrived
<1>2. QED
  BY <1>1, HeadAndTail, Emits, InASet DEF Arrived

\* The handshake: the server checks the answer, the client gives it.
LEMMA HandshakeHandlers ==
    ASSUME OlcInv, NEW e \in Ends, UNCHANGED Others, CheckAnswer(e) \/ Answer(e)
    PROVE  OlcInv'
<1> USE DEF Others
<1> DEFINE p == Peer(e)
<1>1. p \in Ends /\ p # e /\ Arrived(e) # {}
  BY EndFacts DEF CheckAnswer, Answer
<1>2. /\ Arrived(e) = {Head(wire[p])} /\ Head(wire[p]) \in PieceFrom(p)
      /\ Tail(wire[p]) \in Seq(PieceFrom(p)) /\ Tail(wire[p]) \in Seq(Pieces)
  BY <1>1, PieceTaken
<1>3. CASE CheckAnswer(e)
  <2>1. /\ wire' = [wire EXCEPT ![p] = Tail(@)]
        /\ UNCHANGED <<writes, queue_out, temp_out, temp_in, posted, queue_in>>
    BY <1>3 DEF CheckAnswer, Take
  <2>2. \/ /\ Head(wire[p]) = Word("right") /\ validated' = validated \cup {e[1]}
           /\ reading' = [reading EXCEPT ![e] = "header"] /\ UNCHANGED sock
        \/ /\ sock' = [sock EXCEPT ![e] = "closed"]
           /\ reading' = [reading EXCEPT ![e] = "none"] /\ UNCHANGED validated
    BY <1>2, <1>3 DEF CheckAnswer, StartRead, Close
  <2>3. e[2] = "server" /\ e[1] \in Clients /\ e = ServerEnd(e[1]) /\ p[1] = e[1]
    BY <1>3, EndFacts DEF CheckAnswer, ServerEnd
  <2>4. /\ validated \subseteq validated' /\ validated' \subseteq Clients
        /\ validated' \cap Impostors = {}
    BY <1>1, <1>2, <2>2, <2>3, PieceFacts DEF OlcInv, OlcTypeOK, Checked
  <2>5. OlcTypeOK'
    BY <1>2, <2>1, <2>2, <2>4 DEF OlcInv, OlcTypeOK
  <2>6. Outgoing'
    BY <1>2, <2>1 DEF OlcInv, OlcTypeOK, Outgoing
  <2>7. Incoming'
    <3>1. FromClients \subseteq FromClients'
      BY <2>4 DEF FromClients
    <3>2. queue_in'[Server] \in Seq(FromClients') /\ handled' \in Seq(FromClients')
      BY <2>1, <3>1, InASet DEF OlcInv, Incoming
    <3>3. QED
      BY <2>1, <3>2 DEF OlcInv, Incoming
  <2>8. Checked'
    <3>1. ASSUME NEW c \in Clients, reading'[ServerEnd(c)] \in {"header", "body", "garbled"}
          PROVE  c \in validated'
      <4>1. CASE ServerEnd(c) # e
        BY <2>2, <2>4, <3>1, <4>1, ClientEnds DEF OlcInv, OlcTypeOK, Checked
      <4>2. CASE ServerEnd(c) = e
        <5>1. e[1] = c
          BY <4>2, ClientEnds
        <5>2. reading'[e] # "none"
          BY <3>1, <4>2
        <5>3. QED
          BY <2>2, <5>1, <5>2 DEF OlcInv, OlcTypeOK
      <4>3. QED
        BY <4>1, <4>2
    <3>2. QED
      BY <2>4, <3>1 DEF Checked
  <2>9. QED
    BY <2>5, <2>6, <2>7, <2>8 DEF OlcInv
<1>4. CASE Answer(e)
  <2> DEFINE word == Word(IF e[1] \in Impostors THEN "wrong" ELSE "right")
  <2>1. UNCHANGED <<sock, queue_out, temp_out, temp_in, posted, queue_in, validated>>
    BY <1>4 DEF Answer
  <2>2. reading' = [reading EXCEPT ![e] = "none"]
    BY <1>4 DEF Answer, StartRead
  <2>3. PICK ok \in CanWrite(e) :
            /\ writes' = [writes EXCEPT ![e] = Append(@, [kind |-> "word", ok |-> ok])]
            /\ wire' = [wire EXCEPT ![p] = Tail(@), ![e] = IF ok THEN Append(@, word) ELSE @]
    BY <1>4 DEF Answer
  <2>4. word \in PieceFrom(e)
    BY DEF PieceFrom, WordFrom
  <2>5. Append(wire[e], word) \in Seq(PieceFrom(e)) /\ Append(wire[e], word) \in Seq(Pieces)
    BY <2>4, Appended, Emits, InASet DEF OlcInv, Outgoing
  <2>6. writes' \in [Ends -> Seq(WriteRecords)]
    <3>1. [kind |-> "word", ok |-> ok] \in WriteRecords
      BY DEF CanWrite, WriteRecords
    <3>2. QED
      BY <2>3, <3>1, Appended DEF OlcInv, OlcTypeOK, WriteRecords
  <2>7. wire' \in [Ends -> Seq(Pieces)] /\ \A f \in Ends : wire'[f] \in Seq(PieceFrom(f))
    BY <1>1, <1>2, <2>3, <2>5 DEF OlcInv, OlcTypeOK, Outgoing
  <2>8. OlcTypeOK'
    BY <2>1, <2>2, <2>6, <2>7 DEF OlcInv, OlcTypeOK, WriteRecords
  <2>9. Outgoing'
    BY <2>1, <2>7 DEF OlcInv, Outgoing, PieceFrom, MessageFrom, Emitted
  <2>10. Incoming' /\ Checked'
    BY <2>1, <2>2, ClientEnds DEF OlcInv, OlcTypeOK, Incoming, FromClients, Checked
  <2>11. QED
    BY <2>8, <2>9, <2>10 DEF OlcInv
<1>5. QED
  BY <1>3, <1>4
\* What a read that is allowed to adds to the queue of its owner belongs there.
LEMMA Received ==
    ASSUME OlcInv, NEW e \in Ends, NEW m \in MessageFrom(Peer(e)),
           reading[e] \in {"header", "body", "garbled"}, AddToIncoming(e, m),
           UNCHANGED <<validated, handled, shown>>
    PROVE  Incoming' /\ queue_in' \in [Clients \cup {Server} -> Seq(OwnedMessages)]
<1> DEFINE owned == [remote |-> e[1], msg |-> m]
<1>1. queue_in' = [queue_in EXCEPT ![OwnerOf(e)] = Append(@, owned)]
  BY DEF AddToIncoming
<1>2. owned \in OwnedMessages
  BY EndFacts, Emits DEF OwnedMessages
<1>3. queue_in' \in [Clients \cup {Server} -> Seq(OwnedMessages)]
  BY <1>1, <1>2, EndFacts, Appended DEF OlcInv, OlcTypeOK
<1>4. CASE e[2] = "server"
  <2>1. OwnerOf(e) = Server /\ e[1] \in validated /\ Peer(e)[2] = "client"
    BY <1>4, EndFacts DEF OwnerOf, OlcInv, Checked, ServerEnd
  <2>2. owned \in FromClients
    BY <2>1 DEF FromClients, MessageFrom, Emitted
  <2>3. queue_in'[Server] \in Seq(FromClients)
    BY <1>1, <2>1, <2>2, Appended DEF OlcInv, OlcTypeOK, Incoming
  <2>4. \A c \in Clients : queue_in'[c] = queue_in[c]
    BY <1>1, <2>1, ClientEnds DEF OlcInv, OlcTypeOK
  <2>5. QED
    BY <1>3, <2>3, <2>4 DEF OlcInv, Incoming, FromClients
<1>5. CASE e[2] = "client"
  <2>1. OwnerOf(e) = e[1] /\ e[1] \in Clients /\ Peer(e) = ServerEnd(e[1])
    BY <1>5, EndFacts DEF OwnerOf, Peer, ServerEnd
  <2>2. owned \in FromServer(e[1])
    BY <2>1 DEF FromServer
  <2>3. queue_in'[e[1]] \in Seq(FromServer(e[1]))
    BY <1>1, <2>1, <2>2, Appended DEF OlcInv, OlcTypeOK, Incoming
  <2>4. queue_in'[Server] = queue_in[Server]
        /\ \A c \in Clients \ {e[1]} : queue_in'[c] = queue_in[c]
    BY <1>1, <2>1, ClientEnds DEF OlcInv, OlcTypeOK
  <2>5. QED
    BY <1>3, <2>3, <2>4 DEF OlcInv, Incoming, FromClients
<1>6. QED
  BY <1>4, <1>5, EndFacts

\* The handlers that read messages.
LEMMA ReadHandlers ==
    ASSUME OlcInv, NEW e \in Ends, UNCHANGED Others,
           ReadHeader(e) \/ ReadBody(e) \/ ReadGarbled(e)
    PROVE  OlcInv'
<1> USE DEF Others
<1> DEFINE p == Peer(e)
           piece == Head(wire[p])
<1>1. /\ p \in Ends /\ p # e /\ Arrived(e) # {}
      /\ reading[e] \in {"header", "body", "garbled"}
      /\ wire' = [wire EXCEPT ![p] = Tail(@)]
      /\ UNCHANGED <<sock, writes, queue_out, temp_out, posted, validated, handled, shown>>
  BY EndFacts DEF ReadHeader, ReadBody, ReadGarbled, Take
<1>2. /\ Arrived(e) = {piece} /\ piece \in PieceFrom(p)
      /\ Tail(wire[p]) \in Seq(PieceFrom(p)) /\ Tail(wire[p]) \in Seq(Pieces)
  BY <1>1, PieceTaken
<1>3. NoBody \in Emitted(p) /\ Junk \in Emitted(p) /\ temp_in[e] \in MessageFrom(p)
  BY <1>1, Emits DEF OlcInv, Outgoing
<1>4. /\ \E m \in MessageFrom(p) : UNCHANGED temp_in \/ temp_in' = [temp_in EXCEPT ![e] = m]
      /\ (\E m \in MessageFrom(p) : AddToIncoming(e, m)) \/ UNCHANGED queue_in
      /\ \E what \in {"header", "body", "garbled"} : reading' = [reading EXCEPT ![e] = what]
  <2>1. CASE ReadHeader(e)
    <3>1. CASE piece[1] = "header"
      <4> DEFINE m == [temp_in[e] EXCEPT !.id = piece[2]]
      <4>1. m \in MessageFrom(p)
        BY <1>1, <1>2, <1>3, <3>1, PieceFacts DEF MessageFrom
      <4>2. temp_in' = [temp_in EXCEPT ![e].id = piece[2]]
        BY <1>2, <2>1, <3>1 DEF ReadHeader
      <4>3. temp_in' = [temp_in EXCEPT ![e] = m] /\ temp_in'[e] = m
        BY <4>2 DEF OlcInv, OlcTypeOK
      <4>4. QED
        BY <1>2, <2>1, <3>1, <4>1, <4>3 DEF ReadHeader, StartRead
    <3>2. CASE piece[1] # "header"
      BY <1>2, <1>3, <2>1, <3>2 DEF ReadHeader, StartRead
    <3>3. QED
      BY <3>1, <3>2
  <2>2. CASE ReadBody(e)
    <3> DEFINE m == [temp_in[e] EXCEPT !.body = IF piece[1] = "body" THEN piece[2] ELSE Junk]
    <3>1. m \in MessageFrom(p)
      BY <1>1, <1>2, <1>3, PieceFacts DEF MessageFrom
    <3>2. temp_in' = [temp_in EXCEPT ![e].body = IF piece[1] = "body" THEN piece[2] ELSE Junk]
      BY <1>2, <2>2 DEF ReadBody
    <3>3. temp_in' = [temp_in EXCEPT ![e] = m] /\ temp_in'[e] = m
      BY <3>2 DEF OlcInv, OlcTypeOK
    <3>4. QED
      BY <1>2, <2>2, <3>1, <3>3 DEF ReadBody, StartRead
  <2>3. CASE ReadGarbled(e)
    <3>1. Message("unknown", Junk) \in MessageFrom(p)
      BY <1>3 DEF Message, MessageFrom, MessageIds
    <3>2. reading' = [reading EXCEPT ![e] = "garbled"]
      BY <2>3 DEF ReadGarbled, OlcInv, OlcTypeOK
    <3>3. QED
      BY <2>3, <3>1, <3>2, <1>3 DEF ReadGarbled
  <2>4. QED
    BY <2>1, <2>2, <2>3
<1>5. Incoming' /\ queue_in' \in [Clients \cup {Server} -> Seq(OwnedMessages)]
  BY <1>1, <1>4, Received DEF OlcInv, OlcTypeOK, Incoming, FromClients
<1>6. temp_in' \in [Ends -> Messages] /\ \A f \in Ends : temp_in'[f] \in MessageFrom(Peer(f))
  BY <1>1, <1>4, Emits DEF OlcInv, OlcTypeOK, Outgoing
<1>7. OlcTypeOK'
  BY <1>1, <1>2, <1>4, <1>5, <1>6 DEF OlcInv, OlcTypeOK
<1>8. Outgoing'
  BY <1>1, <1>2, <1>6 DEF OlcInv, OlcTypeOK, Outgoing
<1>9. Checked'
  BY <1>1, <1>4, ClientEnds DEF OlcInv, OlcTypeOK, Checked
<1>10. QED
  BY <1>5, <1>7, <1>8, <1>9 DEF OlcInv

\* Every handler.
LEMMA Handlers ==
    ASSUME OlcInv, NEW e \in Ends, Handler(e), UNCHANGED Others
    PROVE  OlcInv'
BY WriteHandlers, ClosingHandlers, HandshakeHandlers, ReadHandlers DEF Handler

-----------------------------------------------------------------------------
\* Posting something an end may emit.
LEMMA Posted ==
    ASSUME OlcInv, NEW e \in Ends, NEW m \in MessageFrom(e), Post(e, m)
    PROVE  posted' \in [Ends -> Seq(Messages)]
           /\ \A f \in Ends : posted'[f] \in Seq(MessageFrom(f))
<1>1. Append(posted[e], m) \in Seq(MessageFrom(e))
  BY Appended DEF OlcInv, Outgoing
<1>2. Append(posted[e], m) \in Seq(Messages)
  BY <1>1, Emits, InASet
<1>3. QED
  BY <1>1, <1>2 DEF Post, OlcInv, OlcTypeOK, Outgoing

\* What leaves the streams, the messages and the queues alone.
LEMMA StreamsKept ==
    ASSUME OlcInv, UNCHANGED <<wire, queue_out, temp_out, temp_in>>,
           \A f \in Ends : posted'[f] \in Seq(MessageFrom(f))
    PROVE  Outgoing'
BY DEF OlcInv, Outgoing, MessageFrom, PieceFrom, Emitted

\* The user's steps and the connection being made.
LEMMA ClientSteps ==
    ASSUME OlcInv, NEW c \in Clients,
           Connect(c) \/ Connected(c) \/ UserSend(c) \/ Disconnect(c) \/ Destroyed(c)
    PROVE  OlcInv'
<1> DEFINE e == ClientEnd(c)
<1>1. e \in Ends /\ e[2] = "client" /\ OwnerOf(e) = c /\ c # Server
  BY ClientEnds
<1>2. UNCHANGED <<wire, queue_out, temp_out, temp_in, validated, connections, server,
                  handled, shown>>
  BY DEF Connect, Connected, UserSend, Disconnect, Destroyed
<1>3. /\ sock' \in [Ends -> {"new", "open", "closed"}]
      /\ reading' \in [Ends -> {"none", "validation", "header", "body", "garbled"}]
      /\ \A f \in Ends : reading'[f] = reading[f] \/ f = e
  BY <1>1 DEF Connect, Connected, Refused, UserSend, Disconnect, Destroyed, Close, StartRead,
              OlcInv, OlcTypeOK
<1>4. writes' \in [Ends -> Seq(WriteRecords)]
  <2>1. UNCHANGED writes \/ writes' = [writes EXCEPT ![e] = <<>>]
    BY DEF Connect, Connected, UserSend, Disconnect, Destroyed
  <2>2. writes \in [Ends -> Seq(WriteRecords)] /\ <<>> \in Seq(WriteRecords)
    BY DEF OlcInv, OlcTypeOK, WriteRecords
  <2>3. QED
    BY <1>1, <2>1, <2>2
<1>5. client' \in [Clients -> {"new", "connecting", "running", "leaving", "gone"}]
  <2>1. \/ UNCHANGED client
        \/ \E to \in {"connecting", "running", "leaving", "gone"} :
              client' = [client EXCEPT ![c] = to]
    BY DEF Connect, Connected, UserSend, Disconnect, Destroyed
  <2>2. QED
    BY <2>1 DEF OlcInv, OlcTypeOK
<1>6. /\ posted' \in [Ends -> Seq(Messages)]
      /\ \A f \in Ends : posted'[f] \in Seq(MessageFrom(f))
  <2>1. CASE UserSend(c)
    <3>1. PICK m \in {Message("Ping", Len(sent[c]) + 1), Message("All", NoBody)} : Post(e, m)
      BY <2>1 DEF UserSend
    <3>2. Len(sent[c]) + 1 \in 1..MaxSends
      BY <2>1, NetworkingConstants DEF UserSend, OlcInv, OlcTypeOK
    <3>3. m \in MessageFrom(e)
      BY <1>1, <3>1, <3>2 DEF MessageFrom, Emitted, ClientBodies, MessageIds, Message, Ids
    <3>4. QED
      BY <1>1, <3>1, <3>3, Posted
  <2>2. CASE Disconnect(c)
    BY <1>1, <2>2, Posted, Emits DEF Disconnect, OlcInv, OlcTypeOK, Outgoing
  <2>3. CASE Destroyed(c)
    BY <1>1, <2>3 DEF Destroyed, OlcInv, OlcTypeOK, Outgoing
  <2>4. CASE UNCHANGED posted
    BY <2>4 DEF OlcInv, OlcTypeOK, Outgoing
  <2>5. QED
    BY <2>1, <2>2, <2>3, <2>4 DEF Connect, Connected
<1>7. sent' \in [Clients -> Seq(Messages)]
  <2>1. CASE UserSend(c)
    <3>1. PICK m \in {Message("Ping", Len(sent[c]) + 1), Message("All", NoBody)} :
              sent' = [sent EXCEPT ![c] = Append(@, m)]
      BY <2>1 DEF UserSend
    <3>2. Len(sent[c]) + 1 \in 1..MaxSends
      BY <2>1, NetworkingConstants DEF UserSend, OlcInv, OlcTypeOK
    <3>3. m \in Messages
      BY <3>1, <3>2 DEF Messages, Bodies, Message, Ids
    <3>4. QED
      BY <3>1, <3>3, Appended DEF OlcInv, OlcTypeOK
  <2>2. CASE UNCHANGED sent
    BY <2>2 DEF OlcInv, OlcTypeOK
  <2>3. QED
    BY <2>1, <2>2 DEF Connect, Connected, Disconnect, Destroyed
<1>8. UNCHANGED queue_in \/ queue_in' = [queue_in EXCEPT ![c] = <<>>]
  BY DEF Connect, Connected, UserSend, Disconnect, Destroyed
<1>9. queue_in' \in [Clients \cup {Server} -> Seq(OwnedMessages)]
  <2>1. queue_in \in [Clients \cup {Server} -> Seq(OwnedMessages)]
        /\ <<>> \in Seq(OwnedMessages)
    BY DEF OlcInv, OlcTypeOK
  <2>2. QED
    BY <1>8, <2>1
<1>10. OlcTypeOK'
  BY <1>2, <1>3, <1>4, <1>5, <1>6, <1>7, <1>9 DEF OlcInv, OlcTypeOK, WriteRecords
<1>11. Outgoing'
  BY <1>2, <1>6, StreamsKept
<1>12. Incoming'
  <2>1. queue_in'[Server] = queue_in[Server]
    BY <1>1, <1>8 DEF OlcInv, OlcTypeOK
  <2>2. \A d \in Clients : queue_in'[d] = queue_in[d] \/ queue_in'[d] = <<>>
    BY <1>8 DEF OlcInv, OlcTypeOK
  <2>3. \A d \in Clients : queue_in'[d] \in Seq(FromServer(d))
    <3>1. \A d \in Clients : queue_in[d] \in Seq(FromServer(d)) /\ <<>> \in Seq(FromServer(d))
      BY DEF OlcInv, Incoming
    <3>2. QED
      BY <2>2, <3>1
  <2>4. QED
    <3>1. queue_in'[Server] \in Seq(FromClients') /\ handled' \in Seq(FromClients')
      BY <1>2, <2>1 DEF OlcInv, Incoming, FromClients
    <3>2. \A d \in Clients : shown'[d] \in Seq(MessageFrom(ServerEnd(d)))
      BY <1>2 DEF OlcInv, Incoming
    <3>3. QED
      BY <2>3, <3>1, <3>2 DEF Incoming
<1>13. Checked'
  BY <1>1, <1>2, <1>3, ClientEnds DEF OlcInv, Checked
<1>14. QED
  BY <1>10, <1>11, <1>12, <1>13 DEF OlcInv

\* The user takes a message, and the server's main thread does.
LEMMA MessagesTaken ==
    ASSUME OlcInv, (\E c \in Clients : UserReceive(c)) \/ PopFront
    PROVE  OlcInv'
<1>1. UNCHANGED <<sock, reading, writes, wire, queue_out, temp_out, temp_in, posted,
                  validated, connections, client, sent>>
  BY DEF UserReceive, PopFront
<1>2. Outgoing'
  BY <1>1, StreamsKept DEF OlcInv, Outgoing
<1>3. Checked'
  BY <1>1 DEF OlcInv, Checked
<1>4. CASE \E c \in Clients : UserReceive(c)
  <2>1. PICK c \in Clients : UserReceive(c)
    BY <1>4
  <2>2. /\ queue_in[c] # <<>> /\ queue_in' = [queue_in EXCEPT ![c] = Tail(@)]
        /\ shown' = [shown EXCEPT ![c] = Append(@, Head(queue_in[c]).msg)]
        /\ UNCHANGED <<server, handled>>
    BY <2>1 DEF UserReceive
  <2>3. Head(queue_in[c]) \in FromServer(c) /\ Tail(queue_in[c]) \in Seq(FromServer(c))
    BY <2>2, HeadAndTail DEF OlcInv, Incoming
  <2>4. Head(queue_in[c]) \in OwnedMessages /\ Tail(queue_in[c]) \in Seq(OwnedMessages)
    BY <2>2, HeadAndTail DEF OlcInv, OlcTypeOK
  <2>5. /\ Append(shown[c], Head(queue_in[c]).msg) \in Seq(MessageFrom(ServerEnd(c)))
        /\ Append(shown[c], Head(queue_in[c]).msg) \in Seq(Messages)
    BY <2>3, <2>4, Appended DEF FromServer, OwnedMessages, OlcInv, OlcTypeOK, Incoming
  <2>6. OlcTypeOK'
    BY <1>1, <2>2, <2>4, <2>5 DEF OlcInv, OlcTypeOK
  <2>7. Incoming'
    <3>1. queue_in'[Server] = queue_in[Server]
      BY <2>2, ClientEnds DEF OlcInv, OlcTypeOK
    <3>2. \A d \in Clients : queue_in'[d] \in Seq(FromServer(d))
      BY <2>2, <2>3, ClientEnds DEF OlcInv, OlcTypeOK, Incoming
    <3>3. \A d \in Clients : shown'[d] \in Seq(MessageFrom(ServerEnd(d)))
      BY <2>2, <2>5 DEF OlcInv, OlcTypeOK, Incoming
    <3>4. QED
      BY <1>1, <2>2, <3>1, <3>2, <3>3
      DEF OlcInv, Incoming, FromClients, FromServer, MessageFrom, Emitted
  <2>8. QED
    BY <1>2, <1>3, <2>6, <2>7 DEF OlcInv
<1>5. CASE PopFront
  <2>1. /\ queue_in[Server] # <<>> /\ queue_in' = [queue_in EXCEPT ![Server] = Tail(@)]
        /\ handled' = Append(handled, Head(queue_in[Server]))
        /\ server' = "handling" /\ UNCHANGED shown
    BY <1>5 DEF PopFront
  <2>2. Head(queue_in[Server]) \in FromClients /\ Tail(queue_in[Server]) \in Seq(FromClients)
    BY <2>1, HeadAndTail DEF OlcInv, Incoming
  <2>3. Head(queue_in[Server]) \in OwnedMessages /\ Tail(queue_in[Server]) \in Seq(OwnedMessages)
    BY <2>1, HeadAndTail DEF OlcInv, OlcTypeOK
  <2>4. handled' \in Seq(FromClients) /\ handled' \in Seq(OwnedMessages) /\ handled' # <<>>
    BY <2>1, <2>2, <2>3, Appended DEF OlcInv, OlcTypeOK, Incoming
  <2>5. OlcTypeOK'
    BY <1>1, <2>1, <2>3, <2>4 DEF OlcInv, OlcTypeOK
  <2>6. Incoming'
    BY <1>1, <2>1, <2>2, <2>4, ClientEnds
    DEF OlcInv, OlcTypeOK, Incoming, FromClients, FromServer, MessageFrom, Emitted
  <2>7. QED
    BY <1>2, <1>3, <2>5, <2>6 DEF OlcInv
<1>6. QED
  BY <1>4, <1>5

\* A connection is accepted.
LEMMA AcceptStep ==
    ASSUME OlcInv, NEW c \in Clients, Accept(c)
    PROVE  OlcInv'
<1> DEFINE e == ServerEnd(c)
<1>1. e \in Ends
  BY ClientEnds
<1>2. /\ connections' = connections \cup {c}
      /\ sock' = [sock EXCEPT ![e] = "open"]
      /\ reading' = [reading EXCEPT ![e] = "validation"]
      /\ UNCHANGED wire \/ wire' = [wire EXCEPT ![e] = <<Word("challenge")>>]
      /\ UNCHANGED <<queue_out, temp_out, temp_in, posted, queue_in, validated, server,
                     handled, client, sent, shown>>
  BY DEF Accept, StartRead
<1>3. Word("challenge") \in PieceFrom(e)
  BY DEF PieceFrom, WordFrom
<1>4. <<Word("challenge")>> \in Seq(PieceFrom(e)) /\ <<Word("challenge")>> \in Seq(Pieces)
  BY <1>1, <1>3, OneElement, Emits, InASet
<1>5. PICK ok \in BOOLEAN : writes' = [writes EXCEPT ![e] = <<[kind |-> "word", ok |-> ok]>>]
  BY DEF Accept
<1>6. writes' \in [Ends -> Seq(WriteRecords)]
  <2>1. [kind |-> "word", ok |-> ok] \in WriteRecords
    BY DEF WriteRecords
  <2>2. <<[kind |-> "word", ok |-> ok]>> \in Seq(WriteRecords)
    BY <2>1, OneElement
  <2>3. QED
    BY <1>1, <1>5, <2>2 DEF OlcInv, OlcTypeOK, WriteRecords
<1>7. OlcTypeOK'
  BY <1>1, <1>2, <1>4, <1>6 DEF OlcInv, OlcTypeOK, WriteRecords
<1>8. Outgoing'
  <2>1. \A f \in Ends : wire'[f] \in Seq(PieceFrom(f))
    BY <1>1, <1>2, <1>4 DEF OlcInv, OlcTypeOK, Outgoing
  <2>2. QED
    BY <1>2, <2>1 DEF OlcInv, Outgoing, MessageFrom, PieceFrom, Emitted
<1>9. Incoming'
  BY <1>2 DEF OlcInv, Incoming, FromClients
<1>10. Checked'
  <2>1. \A d \in Clients : reading'[ServerEnd(d)] \in {"header", "body", "garbled"}
                              => reading[ServerEnd(d)] = reading'[ServerEnd(d)]
    BY <1>1, <1>2, ClientEnds DEF OlcInv, OlcTypeOK
  <2>2. QED
    BY <1>2, <2>1 DEF OlcInv, Checked
<1>11. QED
  BY <1>7, <1>8, <1>9, <1>10 DEF OlcInv

\* The server answers a message.
LEMMA AnswerStep ==
    ASSUME OlcInv, OnMessage
    PROVE  OlcInv'
<1>1. /\ server = "handling" /\ server' = "updating"
      /\ UNCHANGED <<sock, reading, writes, wire, queue_out, temp_out, temp_in, queue_in,
                     validated, handled, client, sent, shown>>
  BY DEF OnMessage
<1>2. InHand \in FromClients /\ InHand.remote \in Clients
  <2>1. handled \in Seq(FromClients) /\ handled # <<>>
    BY <1>1 DEF OlcInv, OlcTypeOK, Incoming
  <2>2. Len(handled) \in 1..Len(handled)
    BY <2>1
  <2>3. handled[Len(handled)] \in FromClients
    BY <2>1, <2>2
  <2>4. QED
    BY <2>3 DEF InHand, FromClients, OlcInv, OlcTypeOK
<1>3. /\ posted' \in [Ends -> Seq(Messages)] /\ connections' \subseteq Clients
      /\ \A f \in Ends : posted'[f] \in Seq(MessageFrom(f))
  <2>1. CASE Bounce
    <3>1. ServerEnd(InHand.remote) \in Ends
      BY <1>2, ClientEnds
    <3>2. InHand.msg.body \in Bodies \ {InHand.remote}
      BY <1>2, NetworkingConstants DEF FromClients, ClientBodies, Bodies
    <3>3. InHand.msg \in MessageFrom(ServerEnd(InHand.remote))
      BY <1>2, <3>2, ClientEnds DEF FromClients, MessageFrom, Emitted
    <3>4. QED
      BY <2>1, <3>1, <3>3, Posted DEF Bounce, OlcInv, OlcTypeOK
  <2>2. CASE MessageAllClients
    <3> DEFINE m == Message("Message", InHand.remote)
               to == (connections \ {InHand.remote}) \cap Alive
    <3>1. /\ posted' = [e \in Ends |-> IF e[2] = "server" /\ e[1] \in to
                                       THEN Append(posted[e], m) ELSE posted[e]]
          /\ connections' = connections \cap Alive
      BY <2>2 DEF MessageAllClients
    <3>2. ASSUME NEW f \in Ends
          PROVE  posted'[f] \in Seq(MessageFrom(f)) /\ posted'[f] \in Seq(Messages)
      <4>1. CASE f[2] = "server" /\ f[1] \in to
        <5>1. m \in MessageFrom(f)
          BY <1>2, <4>1 DEF Message, MessageFrom, MessageIds, Ids, Emitted, Bodies
        <5>2. Append(posted[f], m) \in Seq(MessageFrom(f))
          BY <5>1, Appended DEF OlcInv, Outgoing
        <5>3. QED
          BY <3>1, <4>1, <5>2, Emits, InASet
      <4>2. CASE ~(f[2] = "server" /\ f[1] \in to)
        BY <3>1, <4>2 DEF OlcInv, OlcTypeOK, Outgoing
      <4>3. QED
        BY <4>1, <4>2
    <3>3. QED
      BY <3>1, <3>2 DEF OlcInv, OlcTypeOK
  <2>3. CASE UNCHANGED <<posted, connections>>
    BY <2>3 DEF OlcInv, OlcTypeOK, Outgoing
  <2>4. QED
    BY <2>1, <2>2, <2>3 DEF OnMessage
<1>4. OlcTypeOK'
  BY <1>1, <1>3 DEF OlcInv, OlcTypeOK
<1>5. Outgoing'
  BY <1>1, <1>3, StreamsKept
<1>6. QED
  BY <1>1, <1>4, <1>5, NothingReceived DEF OlcInv

-----------------------------------------------------------------------------
\* OlcInv is an inductive invariant.
LEMMA OlcInitial == Init => OlcInv
<1> SUFFICES ASSUME Init PROVE OlcInv
  OBVIOUS
<1>1. OlcTypeOK
  BY OlcConstants DEF Init, ConnInit, OlcTypeOK, NoMessage, Message, Messages, Bodies
<1>2. Outgoing
  <2>1. \A e \in Ends : temp_out[e] \in MessageFrom(e) /\ temp_in[e] \in MessageFrom(Peer(e))
    BY Emits, EndFacts DEF Init, ConnInit
  <2>2. QED
    BY <2>1 DEF Init, ConnInit, Outgoing
<1>3. Incoming /\ Checked
  BY ClientEnds DEF Init, ConnInit, Incoming, Checked
<1>4. QED
  BY <1>1, <1>2, <1>3 DEF OlcInv

LEMMA OlcStutters == ASSUME OlcInv, UNCHANGED vars PROVE OlcInv'
<1>1. OlcTypeOK' /\ Checked'
  BY DEF OlcInv, OlcTypeOK, Checked, vars, connVars
<1>2. Outgoing'
  BY DEF OlcInv, Outgoing, vars, connVars, MessageFrom, PieceFrom, Emitted
<1>3. Incoming'
  BY DEF OlcInv, Incoming, vars, connVars, FromClients, FromServer, MessageFrom, Emitted
<1>4. QED
  BY <1>1, <1>2, <1>3 DEF OlcInv

LEMMA OlcInductive == OlcInv /\ [Next]_vars => OlcInv'
<1> SUFFICES ASSUME OlcInv, [Next]_vars PROVE OlcInv'
  OBVIOUS
<1>1. ASSUME NEW c \in Clients, ClientStep(c) PROVE OlcInv'
  <2>1. CASE ClientHandler(c)
    BY <2>1, Handlers, ClientEnds DEF ClientHandler, Others
  <2>2. QED
    BY <1>1, <2>1, ClientSteps, MessagesTaken DEF ClientStep
<1>2. ASSUME NEW c \in Clients, Accept(c) \/ ServerHandler(c) PROVE OlcInv'
  BY <1>2, AcceptStep, Handlers, ClientEnds DEF ServerHandler, Others
<1>3. CASE PopFront \/ OnMessage
  BY <1>3, MessagesTaken, AnswerStep
<1>4. CASE UNCHANGED vars
  BY <1>4, OlcStutters
<1>5. QED
  BY <1>1, <1>2, <1>3, <1>4 DEF Next, ServerStep

LEMMA OlcInvariant == Spec => []OlcInv
<1>1. QED
  BY OlcInitial, OlcInductive, PTL DEF Spec

\* The queues, the streams and the messages on their way are what the code
\* takes them for, whatever the peers send and however handlers fail.
THEOREM OlcTypes == Spec => []OlcTypeOK
<1>1. OlcInv => OlcTypeOK
  BY DEF OlcInv
<1>2. QED
  BY <1>1, OlcInvariant, PTL

\* HandshakeFirst: a message is queued and handled only when its client gave
\* the answer to the server's word, which an impostor cannot.
THEOREM Handshake == Spec => []HandshakeFirst
<1>1. OlcInv => HandshakeFirst
  <2> SUFFICES ASSUME OlcInv PROVE HandshakeFirst
    OBVIOUS
  <2>1. /\ \A i \in 1..Len(queue_in[Server]) : queue_in[Server][i] \in FromClients
        /\ \A i \in 1..Len(handled) : handled[i] \in FromClients
    BY DEF OlcInv, Incoming
  <2>2. QED
    BY <2>1 DEF OlcInv, Checked, FromClients, HandshakeFirst
<1>2. QED
  BY <1>1, OlcInvariant, PTL

\* NoEcho: no client is shown a broadcast of its own, for any number of
\* clients, and whatever is torn from the stream by closing sockets.
THEOREM NoClientHearsItself == Spec => []NoEcho
<1>1. OlcInv => NoEcho
  <2> SUFFICES ASSUME OlcInv, NEW c \in Clients, NEW i \in 1..Len(shown[c])
               PROVE  shown[c][i].body # c
    BY DEF NoEcho
  <2>1. shown[c][i] \in MessageFrom(ServerEnd(c))
    BY DEF OlcInv, Incoming
  <2>2. QED
    BY <2>1, ClientEnds DEF MessageFrom, Emitted
<1>2. QED
  BY <1>1, OlcInvariant, PTL

-----------------------------------------------------------------------------
(* The order of a client's messages, for a user that is patient.           *)
(*                                                                         *)
(* The reader of a stream expects the handshake's word, a header or a body *)
(* and counts the messages that are through; reading the stream leads it   *)
(* from where the server is to where the client's writer goes on.          *)

After(piece) == IF piece[1] = "header" /\ piece[3] THEN "body" ELSE "header"
Expected(first, stream, i) == IF i > 1 THEN After(stream[i - 1]) ELSE first

\* What the reader expects comes, as the messages of toSend have it; `after'
\* of them are through then.
Reads(toSend, what, piece, n, after) ==
    \/ what = "validation" /\ piece[1] = "word" /\ after = n
    \/ /\ what = "header" /\ n < Len(toSend) /\ piece = Header(toSend[n + 1])
       /\ after = IF toSend[n + 1].body = NoBody THEN n + 1 ELSE n
    \/ what = "body" /\ n < Len(toSend) /\ piece = Body(toSend[n + 1]) /\ after = n + 1

\* at[i]: how many are through before the i-th piece.
Leads(stream, toSend, first, from, what, to) ==
    \E at \in [1..(Len(stream) + 1) -> Nat] :
        /\ at[1] = from
        /\ \A i \in 1..Len(stream) :
              Reads(toSend, Expected(first, stream, i), stream[i], at[i], at[i + 1])
        /\ what = Expected(first, stream, Len(stream) + 1) /\ to = at[Len(stream) + 1]

\* All that reached the server, taken or waiting; how many are from c.
Arrivals == handled \o queue_in[Server]
Number(c) == CountFrom(c, Arrivals, Len(Arrivals))

\* The client's end: what it will write goes on where the stream ends.
OnlyClosing(tasks) == \A i \in 1..Len(tasks) : tasks[i] = Closing
Outstanding(e, kind, ok) == writes[e] = <<[kind |-> kind, ok |-> ok]>>
Newest(c) == sent[c][Len(sent[c])]

Unanswered(c, what, n) ==
    /\ what = "validation" /\ n = 0 /\ sent[c] = <<>>
    /\ reading[ClientEnd(c)] \in {"none", "validation"}
    /\ writes[ClientEnd(c)] = <<>> /\ OnlyClosing(posted[ClientEnd(c)])
Failing(c) ==
    /\ reading[ClientEnd(c)] # "validation" /\ OnlyClosing(posted[ClientEnd(c)])
    /\ \E kind \in {"word", "header", "body"} : Outstanding(ClientEnd(c), kind, FALSE)
Answered(c, what, n) ==
    /\ what = "header" /\ n = 0 /\ sent[c] = <<>>
    /\ reading[ClientEnd(c)] = "none"
    /\ Outstanding(ClientEnd(c), "word", TRUE) /\ OnlyClosing(posted[ClientEnd(c)])
Idle(c, what, n) ==
    /\ what = "header" /\ n = Len(sent[c])
    /\ writes[ClientEnd(c)] = <<>> /\ OnlyClosing(posted[ClientEnd(c)])
Sending(c, what, n) ==
    /\ what = "header" /\ sent[c] # <<>> /\ n + 1 = Len(sent[c])
    /\ posted[ClientEnd(c)] # <<>> /\ Head(posted[ClientEnd(c)]) = Newest(c)
    /\ OnlyClosing(Tail(posted[ClientEnd(c)]))
    /\ writes[ClientEnd(c)] = <<>>
HeaderOut(c, what, n) ==
    /\ sent[c] # <<>> /\ temp_out[ClientEnd(c)] = Newest(c)
    /\ IF Newest(c).body = NoBody THEN what = "header" /\ n = Len(sent[c])
       ELSE what = "body" /\ n + 1 = Len(sent[c])
    /\ Outstanding(ClientEnd(c), "header", TRUE) /\ OnlyClosing(posted[ClientEnd(c)])
BodyOut(c, what, n) ==
    /\ what = "header" /\ n = Len(sent[c])
    /\ Outstanding(ClientEnd(c), "body", TRUE) /\ OnlyClosing(posted[ClientEnd(c)])
Talking(c, what, n) ==
    /\ reading[ClientEnd(c)] \in {"header", "body", "garbled"}
    /\ Idle(c, what, n) \/ Sending(c, what, n) \/ HeaderOut(c, what, n) \/ BodyOut(c, what, n)

Writes(c, what, n) ==
    \/ sock[ClientEnd(c)] = "closed"
    \/ Unanswered(c, what, n) \/ Failing(c) \/ Answered(c, what, n) \/ Talking(c, what, n)

\* The server's end.
First(c) == IF sock[ServerEnd(c)] = "new" THEN "validation" ELSE reading[ServerEnd(c)]
BodyToCome(c) ==
    First(c) = "body" =>
        Number(c) < Len(sent[c]) /\ temp_in[ServerEnd(c)].id = sent[c][Number(c) + 1].id
Joined(c) ==
    \E what \in {"validation", "header", "body"} : \E n \in Nat :
        /\ Leads(wire[ClientEnd(c)], sent[c], First(c), Number(c), what, n)
        /\ Writes(c, what, n)
InStep(c) ==
    sock[ServerEnd(c)] # "closed" =>
        Joined(c) /\ First(c) \in {"validation", "header", "body"} /\ BodyToCome(c)

\* A connection in the making; messages do not pile up in queue_out_.
Connecting(c) ==
    /\ client[c] = "new" => sock[ClientEnd(c)] = "new"
    /\ client[c] = "connecting" => sock[ClientEnd(c)] = "open"
    /\ client[c] \in {"new", "connecting"} =>
          /\ reading[ClientEnd(c)] = "none" /\ writes[ClientEnd(c)] = <<>>
          /\ posted[ClientEnd(c)] = <<>>

OrderOf(c) ==
    /\ AsSent(c, Arrivals, sent[c]) /\ InStep(c)
    /\ Connecting(c) /\ queue_out[ClientEnd(c)] = <<>>

OrderInv == \A c \in Clients : OrderOf(c)

-----------------------------------------------------------------------------
\* Counting the messages of one client.
LEMMA CountType ==
    ASSUME NEW c, NEW s, NEW i \in Nat
    PROVE  CountFrom(c, s, i) \in Nat /\ IsFiniteSet({j \in 1..i : s[j].remote = c})
<1>1. IsFiniteSet(1..i)
  BY FS_Interval
<1>2. IsFiniteSet({j \in 1..i : s[j].remote = c})
  BY <1>1, FS_Subset
<1>3. QED
  BY <1>2, FS_CardinalityType DEF CountFrom

LEMMA CountAlike ==
    ASSUME NEW c, NEW s, NEW t, NEW i \in Nat, \A j \in 1..i : t[j] = s[j]
    PROVE  CountFrom(c, t, i) = CountFrom(c, s, i)
<1>1. {j \in 1..i : t[j].remote = c} = {j \in 1..i : s[j].remote = c}
  OBVIOUS
<1>2. QED
  BY <1>1 DEF CountFrom

LEMMA CountNext ==
    ASSUME NEW c, NEW s, NEW i \in Nat
    PROVE  CountFrom(c, s, i + 1) =
               IF s[i + 1].remote = c THEN CountFrom(c, s, i) + 1 ELSE CountFrom(c, s, i)
<1> DEFINE those == {j \in 1..i : s[j].remote = c}
<1>1. CASE s[i + 1].remote = c
  <2>1. {j \in 1..(i + 1) : s[j].remote = c} = those \cup {i + 1}
    BY <1>1
  <2>2. i + 1 \notin those
    OBVIOUS
  <2>3. IsFiniteSet(those)
    BY CountType
  <2>4. Cardinality(those \cup {i + 1}) = Cardinality(those) + 1
    BY <2>2, <2>3, FS_AddElement
  <2>5. QED
    BY <1>1, <2>1, <2>4 DEF CountFrom
<1>2. CASE s[i + 1].remote # c
  <2>1. {j \in 1..(i + 1) : s[j].remote = c} = those
    BY <1>2
  <2>2. QED
    BY <1>2, <2>1 DEF CountFrom
<1>3. QED
  BY <1>1, <1>2

\* One more message, of c or of another.
LEMMA OneMore ==
    ASSUME NEW c, NEW s \in Seq(OwnedMessages), NEW m \in OwnedMessages, NEW t, t = Append(s, m),
           NEW toSend \in Seq(Messages), AsSent(c, s, toSend)
    PROVE  /\ CountFrom(c, t, Len(t)) = CountFrom(c, s, Len(s)) + (IF m.remote = c THEN 1 ELSE 0)
           /\ \/ m.remote # c
              \/ /\ CountFrom(c, s, Len(s)) < Len(toSend)
                 /\ m.msg.id = toSend[CountFrom(c, s, Len(s)) + 1].id
              => AsSent(c, t, toSend)
<1>1. Len(s) \in Nat /\ Len(t) = Len(s) + 1 /\ t[Len(s) + 1] = m
      /\ \A j \in 1..Len(s) : t[j] = s[j]
  OBVIOUS
<1>2. ASSUME NEW i \in 0..Len(s) PROVE CountFrom(c, t, i) = CountFrom(c, s, i)
  <2>1. i \in Nat /\ \A j \in 1..i : t[j] = s[j]
    BY <1>1
  <2>2. QED
    BY <2>1, CountAlike
<1>3. CountFrom(c, t, Len(s)) = CountFrom(c, s, Len(s)) /\ CountFrom(c, s, Len(s)) \in Nat
  <2>1. Len(s) \in 0..Len(s) /\ Len(s) \in Nat
    BY <1>1
  <2>2. QED
    BY <1>2, <2>1, CountType
<1>4. CountFrom(c, t, Len(t)) = CountFrom(c, s, Len(s)) + (IF m.remote = c THEN 1 ELSE 0)
  <2>1. CountFrom(c, t, Len(s) + 1) =
            IF t[Len(s) + 1].remote = c THEN CountFrom(c, t, Len(s)) + 1
                                        ELSE CountFrom(c, t, Len(s))
    <3>1. Len(s) \in Nat
      BY <1>1
    <3>2. QED
      BY <3>1, CountNext
  <2>2. QED
    BY <1>1, <1>3, <2>1
<1>5. ASSUME \/ m.remote # c
             \/ /\ CountFrom(c, s, Len(s)) < Len(toSend)
                /\ m.msg.id = toSend[CountFrom(c, s, Len(s)) + 1].id
      PROVE  AsSent(c, t, toSend)
  <2> SUFFICES ASSUME NEW i \in 1..Len(t), t[i].remote = c
               PROVE  /\ CountFrom(c, t, i) <= Len(toSend)
                      /\ t[i].msg.id = toSend[CountFrom(c, t, i)].id
    BY DEF AsSent
  <2>1. CASE i \in 1..Len(s)
    <3>1. t[i] = s[i] /\ CountFrom(c, t, i) = CountFrom(c, s, i)
      BY <1>1, <1>2, <2>1
    <3>2. QED
      BY <2>1, <3>1 DEF AsSent
  <2>2. CASE i = Len(s) + 1
    <3>1. t[i] = m /\ m.remote = c
      BY <1>1, <2>2
    <3>2. CountFrom(c, t, i) = CountFrom(c, s, Len(s)) + 1
      BY <1>1, <1>4, <2>2, <3>1
    <3>3. QED
      BY <1>3, <1>5, <3>1, <3>2
  <2>3. QED
    BY <1>1, <2>1, <2>2
<1>6. QED
  BY <1>4, <1>5

\* What was sent so far stays in place.
LEMMA LongerOrder ==
    ASSUME NEW c, NEW s \in Seq(OwnedMessages), NEW toSend \in Seq(Messages), NEW m \in Messages,
           AsSent(c, s, toSend)
    PROVE  AsSent(c, s, Append(toSend, m))
<1> SUFFICES ASSUME NEW i \in 1..Len(s), s[i].remote = c
             PROVE  /\ CountFrom(c, s, i) <= Len(Append(toSend, m))
                    /\ s[i].msg.id = Append(toSend, m)[CountFrom(c, s, i)].id
  BY DEF AsSent
<1>1. /\ CountFrom(c, s, i) <= Len(toSend)
      /\ s[i].msg.id = toSend[CountFrom(c, s, i)].id
  BY DEF AsSent
<1>2. CountFrom(c, s, i) \in Nat /\ CountFrom(c, s, i) # 0
  <2> DEFINE those == {j \in 1..i : s[j].remote = c}
  <2>1. i \in Nat /\ i \in those
    OBVIOUS
  <2>2. /\ IsFiniteSet(those) /\ CountFrom(c, s, i) \in Nat
        /\ CountFrom(c, s, i) = Cardinality(those)
    BY <2>1, CountType DEF CountFrom
  <2> HIDE DEF those
  <2>3. QED
    BY <2>1, <2>2, FS_EmptySet, SMTT(30)
<1>3. CountFrom(c, s, i) \in 1..Len(toSend)
  BY <1>1, <1>2
<1>4. QED
  BY <1>1, <1>3

-----------------------------------------------------------------------------
\* Reading a stream piece by piece.
LEMMA LeadsNowhere ==
    ASSUME NEW toSend, NEW first, NEW from \in Nat
    PROVE  Leads(<<>>, toSend, first, from, first, from)
<1> DEFINE at == [i \in 1..1 |-> from]
<1>1. at \in [1..(Len(<<>>) + 1) -> Nat] /\ at[1] = from /\ at[Len(<<>>) + 1] = from
  OBVIOUS
<1>2. first = Expected(first, <<>>, Len(<<>>) + 1) /\ 1..Len(<<>>) = {}
  BY DEF Expected
<1> HIDE DEF at
<1>3. QED
  BY <1>1, <1>2 DEF Leads

LEMMA LeadsOn ==
    ASSUME NEW stream \in Seq(Pieces), stream # <<>>, NEW toSend, NEW first, NEW from,
           NEW what, NEW to, Leads(stream, toSend, first, from, what, to)
    PROVE  \E n \in Nat : /\ Reads(toSend, first, stream[1], from, n)
                          /\ Leads(Tail(stream), toSend, After(stream[1]), n, what, to)
<1>1. PICK at \in [1..(Len(stream) + 1) -> Nat] :
          /\ at[1] = from
          /\ \A i \in 1..Len(stream) :
                Reads(toSend, Expected(first, stream, i), stream[i], at[i], at[i + 1])
          /\ what = Expected(first, stream, Len(stream) + 1) /\ to = at[Len(stream) + 1]
  BY DEF Leads
<1> DEFINE rest == Tail(stream)
           next == After(stream[1])
           on == [i \in 1..(Len(rest) + 1) |-> at[i + 1]]
<1>2. /\ Len(stream) \in Nat /\ Len(stream) >= 1 /\ Len(rest) = Len(stream) - 1
      /\ \A i \in 1..Len(rest) : rest[i] = stream[i + 1]
  OBVIOUS
<1>3. \A i \in 1..(Len(rest) + 1) : Expected(next, rest, i) = Expected(first, stream, i + 1)
  BY <1>2 DEF Expected
<1>4. on \in [1..(Len(rest) + 1) -> Nat] /\ on[1] = at[2] /\ on[Len(rest) + 1] = to
  BY <1>1, <1>2
<1>5. \A i \in 1..Len(rest) : Reads(toSend, Expected(next, rest, i), rest[i], on[i], on[i + 1])
  <2> SUFFICES ASSUME NEW i \in 1..Len(rest)
               PROVE  Reads(toSend, Expected(next, rest, i), rest[i], on[i], on[i + 1])
    OBVIOUS
  <2>1. /\ i + 1 \in 1..Len(stream) /\ rest[i] = stream[i + 1]
        /\ on[i] = at[i + 1] /\ on[i + 1] = at[(i + 1) + 1]
    BY <1>2
  <2>2. Reads(toSend, Expected(first, stream, i + 1), stream[i + 1], at[i + 1], at[(i + 1) + 1])
    BY <1>1, <2>1
  <2>3. QED
    BY <1>3, <2>1, <2>2
<1>6. Leads(rest, toSend, next, at[2], what, to)
  <2>1. what = Expected(next, rest, Len(rest) + 1)
    BY <1>1, <1>2, <1>3
  <2>2. QED
    BY <1>4, <1>5, <2>1 DEF Leads
<1>7. Reads(toSend, first, stream[1], from, at[2]) /\ at[2] \in Nat
  <2>1. 1 \in 1..Len(stream) /\ Expected(first, stream, 1) = first /\ 2 \in 1..(Len(stream) + 1)
    BY <1>2 DEF Expected
  <2>2. Reads(toSend, Expected(first, stream, 1), stream[1], at[1], at[1 + 1])
    BY <1>1, <2>1
  <2>3. QED
    BY <1>1, <2>1, <2>2
<1>8. QED
  BY <1>6, <1>7

LEMMA LeadsFurther ==
    ASSUME NEW stream \in Seq(Pieces), NEW piece \in Pieces, NEW toSend, NEW first, NEW from,
           NEW what, NEW to, NEW n \in Nat,
           Leads(stream, toSend, first, from, what, to), Reads(toSend, what, piece, to, n)
    PROVE  Leads(Append(stream, piece), toSend, first, from, After(piece), n)
<1>1. PICK at \in [1..(Len(stream) + 1) -> Nat] :
          /\ at[1] = from
          /\ \A i \in 1..Len(stream) :
                Reads(toSend, Expected(first, stream, i), stream[i], at[i], at[i + 1])
          /\ what = Expected(first, stream, Len(stream) + 1) /\ to = at[Len(stream) + 1]
  BY DEF Leads
<1> DEFINE more == Append(stream, piece)
           on == [i \in 1..(Len(more) + 1) |-> IF i = Len(more) + 1 THEN n ELSE at[i]]
<1>2. /\ Len(stream) \in Nat /\ Len(more) = Len(stream) + 1 /\ more[Len(more)] = piece
      /\ \A i \in 1..Len(stream) : more[i] = stream[i]
  OBVIOUS
<1>3. /\ on \in [1..(Len(more) + 1) -> Nat] /\ on[1] = from /\ on[Len(more) + 1] = n
      /\ \A i \in 1..Len(more) : on[i] = at[i]
  BY <1>1, <1>2
<1>4. \A i \in 1..Len(more) : Expected(first, more, i) = Expected(first, stream, i)
  BY <1>2 DEF Expected
<1>5. \A i \in 1..Len(more) : Reads(toSend, Expected(first, more, i), more[i], on[i], on[i + 1])
  <2> SUFFICES ASSUME NEW i \in 1..Len(more)
               PROVE  Reads(toSend, Expected(first, more, i), more[i], on[i], on[i + 1])
    OBVIOUS
  <2>1. CASE i \in 1..Len(stream)
    <3>1. on[i] = at[i] /\ on[i + 1] = at[i + 1] /\ more[i] = stream[i]
      BY <1>2, <1>3, <2>1
    <3>2. QED
      BY <1>1, <1>4, <2>1, <3>1
  <2>2. CASE i = Len(more)
    <3>1. on[i] = to /\ on[i + 1] = n /\ more[i] = piece /\ Expected(first, more, i) = what
      BY <1>1, <1>2, <1>3, <1>4, <2>2
    <3>2. QED
      BY <3>1
  <2>3. QED
    BY <1>2, <2>1, <2>2
<1>6. After(piece) = Expected(first, more, Len(more) + 1)
  BY <1>2 DEF Expected
<1>7. QED
  BY <1>3, <1>5, <1>6 DEF Leads

LEMMA LongerStream ==
    ASSUME NEW stream \in Seq(Pieces), NEW toSend \in Seq(Messages), NEW m \in Messages,
           NEW first, NEW from, NEW what, NEW to, Leads(stream, toSend, first, from, what, to)
    PROVE  Leads(stream, Append(toSend, m), first, from, what, to)
<1>1. PICK at \in [1..(Len(stream) + 1) -> Nat] :
          /\ at[1] = from
          /\ \A i \in 1..Len(stream) :
                Reads(toSend, Expected(first, stream, i), stream[i], at[i], at[i + 1])
          /\ what = Expected(first, stream, Len(stream) + 1) /\ to = at[Len(stream) + 1]
  BY DEF Leads
<1>2. ASSUME NEW i \in 1..Len(stream)
      PROVE  Reads(Append(toSend, m), Expected(first, stream, i), stream[i], at[i], at[i + 1])
  <2>1. at[i] \in Nat /\ Reads(toSend, Expected(first, stream, i), stream[i], at[i], at[i + 1])
    BY <1>1
  <2>2. at[i] < Len(toSend) =>
            at[i] < Len(Append(toSend, m)) /\ Append(toSend, m)[at[i] + 1] = toSend[at[i] + 1]
    BY <2>1
  <2>3. QED
    BY <2>1, <2>2 DEF Reads
<1>3. QED
  BY <1>1, <1>2 DEF Leads

-----------------------------------------------------------------------------
\* What a handler leaves alone, and what it may add to the owner's queue.
LEMMA HandlerFrame ==
    ASSUME OlcInv, NEW e \in Ends, Handler(e)
    PROVE  /\ \A f \in Ends \ {e} :
                 /\ sock'[f] = sock[f] /\ reading'[f] = reading[f] /\ writes'[f] = writes[f]
                 /\ posted'[f] = posted[f] /\ temp_out'[f] = temp_out[f]
                 /\ temp_in'[f] = temp_in[f] /\ queue_out'[f] = queue_out[f]
           /\ \A f \in Ends \ {e, Peer(e)} : wire'[f] = wire[f]
           /\ \A o \in (Clients \cup {Server}) \ {OwnerOf(e)} : queue_in'[o] = queue_in[o]
<1> USE DEF OlcInv, OlcTypeOK
<1>1. CASE RunSend(e) \/ RunClose(e)
  BY <1>1, ZenonT(30) DEF RunSend, RunClose, WriteHeader, StartWrite, Close
<1>2. CASE WroteHeader(e) \/ WroteBody(e)
  BY <1>2 DEF WroteHeader, WroteBody, NextMessage, WriteHeader, StartWrite
<1>3. CASE WroteValidation(e) \/ WriteFailed(e)
  BY <1>3 DEF WroteValidation, WriteFailed, StartRead, Close
<1>4. CASE CheckAnswer(e)
  BY <1>4 DEF CheckAnswer, StartRead, Close, Take
<1>5. CASE Answer(e)
  BY <1>5 DEF Answer, StartRead
<1>6. CASE ReadHeader(e)
  BY <1>6, EndFacts, SMTT(30) DEF ReadHeader, StartRead, AddToIncoming, Take
<1>7. CASE ReadBody(e)
  BY <1>7, EndFacts DEF ReadBody, StartRead, AddToIncoming, Take
<1>8. CASE ReadGarbled(e)
  BY <1>8, EndFacts DEF ReadGarbled, AddToIncoming, Take
<1>9. CASE ReadFailed(e)
  BY <1>9 DEF ReadFailed, StartRead, Close
<1>10. QED
  BY <1>1, <1>2, <1>3, <1>4, <1>5, <1>6, <1>7, <1>8, <1>9 DEF Handler

\* The parts that the order of c's messages depends on.
ClientPart(c) ==
    <<sock[ClientEnd(c)], reading[ClientEnd(c)], writes[ClientEnd(c)], posted[ClientEnd(c)],
      temp_out[ClientEnd(c)], queue_out[ClientEnd(c)], client[c], sent[c]>>
ServerPart(c) == <<sock[ServerEnd(c)], reading[ServerEnd(c)], temp_in[ServerEnd(c)]>>

LEMMA WritesKept ==
    ASSUME NEW c \in Clients, ClientPart(c)' = ClientPart(c), NEW what, NEW n, Writes(c, what, n)
    PROVE  Writes(c, what, n)'
BY DEF ClientPart, Writes, Unanswered, Failing, Answered, Talking, Idle, Sending, HeaderOut,
       BodyOut, Newest, Outstanding

\* Nothing of c's connection changed, and no message of c arrived.
LEMMA Untouched ==
    ASSUME NEW c \in Clients, OrderOf(c),
           ClientPart(c)' = ClientPart(c), ServerPart(c)' = ServerPart(c),
           wire'[ClientEnd(c)] = wire[ClientEnd(c)], Number(c)' = Number(c),
           AsSent(c, Arrivals', sent[c])
    PROVE  OrderOf(c)'
<1>1. Connecting(c)' /\ (queue_out[ClientEnd(c)] = <<>>)'
  BY DEF OrderOf, Connecting, ClientPart
<1>2. AsSent(c, Arrivals, sent[c])'
  BY DEF ClientPart
<1>3. First(c)' = First(c) /\ (BodyToCome(c) => BodyToCome(c)')
  BY DEF ClientPart, ServerPart, First, BodyToCome
<1>4. Joined(c) => Joined(c)'
  <2> SUFFICES ASSUME NEW what \in {"validation", "header", "body"}, NEW n \in Nat,
                      Leads(wire[ClientEnd(c)], sent[c], First(c), Number(c), what, n),
                      Writes(c, what, n)
               PROVE  Joined(c)'
    BY DEF Joined
  <2>1. Leads(wire[ClientEnd(c)], sent[c], First(c), Number(c), what, n)'
    BY <1>3 DEF ClientPart
  <2>2. Writes(c, what, n)'
    BY WritesKept
  <2>3. QED
    BY <2>1, <2>2 DEF Joined
<1>5. InStep(c)'
  BY <1>3, <1>4 DEF OrderOf, InStep, ServerPart
<1>6. QED
  BY <1>1, <1>2, <1>5 DEF OrderOf

-----------------------------------------------------------------------------
\* What reaches the server.
LEMMA ArrivalTypes ==
    ASSUME OlcInv
    PROVE  /\ Arrivals \in Seq(OwnedMessages) /\ Len(Arrivals) \in Nat
           /\ \A c \in Clients : /\ Number(c) \in Nat /\ sent[c] \in Seq(Messages)
                                 /\ wire[ClientEnd(c)] \in Seq(Pieces)
<1>1. handled \in Seq(OwnedMessages) /\ queue_in[Server] \in Seq(OwnedMessages)
  BY DEF OlcInv, OlcTypeOK
<1>2. Arrivals \in Seq(OwnedMessages) /\ Len(Arrivals) \in Nat
  BY <1>1 DEF Arrivals
<1>3. QED
  BY <1>2, CountType, ClientEnds DEF Number, OlcInv, OlcTypeOK

LEMMA NoArrival ==
    ASSUME UNCHANGED handled, queue_in'[Server] = queue_in[Server]
    PROVE  Arrivals' = Arrivals /\ \A c \in Clients : Number(c)' = Number(c)
<1>1. Arrivals' = Arrivals
  BY DEF Arrivals
<1>2. QED
  BY <1>1 DEF Number

LEMMA NewArrival ==
    ASSUME OlcInv, NEW m \in OwnedMessages, UNCHANGED handled,
           queue_in'[Server] = Append(queue_in[Server], m),
           NEW c \in Clients, AsSent(c, Arrivals, sent[c])
    PROVE  /\ Number(c)' = Number(c) + (IF m.remote = c THEN 1 ELSE 0)
           /\ \/ m.remote # c
              \/ Number(c) < Len(sent[c]) /\ m.msg.id = sent[c][Number(c) + 1].id
              => AsSent(c, Arrivals', sent[c])
<1>1. Arrivals' = Append(Arrivals, m)
  <2>1. handled \in Seq(OwnedMessages) /\ queue_in[Server] \in Seq(OwnedMessages)
    BY DEF OlcInv, OlcTypeOK
  <2>2. Arrivals' = handled \o Append(queue_in[Server], m)
    BY DEF Arrivals
  <2>3. QED
    BY <2>1, <2>2 DEF Arrivals
<1>2. Arrivals \in Seq(OwnedMessages) /\ sent[c] \in Seq(Messages)
  BY ArrivalTypes
<1>3. Number(c)' = CountFrom(c, Arrivals', Len(Arrivals'))
  BY DEF Number
<1>4. QED
  BY <1>1, <1>2, <1>3, OneMore DEF Number

\* A handler adds one message of the connection's client, or nothing.
LEMMA HandlerAdds ==
    ASSUME OlcInv, NEW e \in Ends, Handler(e)
    PROVE  \/ queue_in'[OwnerOf(e)] = queue_in[OwnerOf(e)]
           \/ \E m \in OwnedMessages :
                 /\ m.remote = e[1]
                 /\ queue_in'[OwnerOf(e)] = Append(queue_in[OwnerOf(e)], m)
<1>1. OwnerOf(e) \in Clients \cup {Server} /\ e[1] \in Clients
  BY EndFacts
<1>2. ASSUME NEW m \in Messages, AddToIncoming(e, m)
      PROVE  \E n \in OwnedMessages :
                 /\ n.remote = e[1]
                 /\ queue_in'[OwnerOf(e)] = Append(queue_in[OwnerOf(e)], n)
  <2>1. [remote |-> e[1], msg |-> m] \in OwnedMessages
    BY <1>1 DEF OwnedMessages
  <2>2. queue_in'[OwnerOf(e)] = Append(queue_in[OwnerOf(e)], [remote |-> e[1], msg |-> m])
    BY <1>1, <1>2 DEF AddToIncoming, OlcInv, OlcTypeOK
  <2>3. QED
    BY <2>1, <2>2
<1>3. CASE ReadHeader(e)
  <2>1. UNCHANGED queue_in \/ (\E piece \in Arrived(e) :
            piece[1] = "header" /\ temp_in' = [temp_in EXCEPT ![e].id = piece[2]]
            /\ AddToIncoming(e, temp_in'[e]))
    BY <1>3 DEF ReadHeader
  <2>2. ASSUME NEW piece \in Arrived(e), piece[1] = "header",
               temp_in' = [temp_in EXCEPT ![e].id = piece[2]]
        PROVE  temp_in'[e] \in Messages
    <3>1. piece \in PieceFrom(Peer(e))
      BY HeadAndTail, EndFacts DEF Arrived, OlcInv, Outgoing
    <3>2. piece[2] \in MessageIds
      BY <2>2, <3>1, EndFacts, PieceFacts
    <3>3. QED
      BY <2>2, <3>2 DEF OlcInv, OlcTypeOK, Messages, MessageIds
  <2>3. QED
    BY <1>2, <2>1, <2>2
<1>4. CASE ReadBody(e)
  <2>1. PICK piece \in Arrived(e) :
            temp_in' = [temp_in EXCEPT ![e].body = IF piece[1] = "body" THEN piece[2] ELSE Junk]
    BY <1>4 DEF ReadBody
  <2>2. piece \in PieceFrom(Peer(e))
    BY HeadAndTail, EndFacts DEF Arrived, OlcInv, Outgoing
  <2>3. piece[1] = "body" => piece[2] \in Bodies
    BY <2>2, EndFacts, PieceFacts, Emits
  <2>4. temp_in'[e] \in Messages
    <3>1. PICK body \in Bodies : temp_in' = [temp_in EXCEPT ![e].body = body]
      <4>1. Junk \in Bodies
        BY DEF Bodies
      <4>2. QED
        BY <2>1, <2>3, <4>1
    <3>2. temp_in[e] \in Messages /\ temp_in'[e] = [temp_in[e] EXCEPT !.body = body]
      BY <3>1 DEF OlcInv, OlcTypeOK
    <3>3. QED
      BY <3>2 DEF Messages
  <2>5. QED
    BY <1>2, <1>4, <2>4 DEF ReadBody
<1>5. CASE ReadGarbled(e)
  <2>1. Message("unknown", Junk) \in Messages
    BY DEF Message, Messages, Bodies
  <2>2. QED
    BY <1>2, <1>5, <2>1 DEF ReadGarbled
<1>6. CASE UNCHANGED queue_in
  BY <1>6
<1>7. QED
  BY <1>3, <1>4, <1>5, <1>6 DEF Handler, RunSend, RunClose, WroteHeader, WroteBody,
     WroteValidation, WriteFailed, CheckAnswer, Answer, ReadFailed

\* Whose end it is and which of them are others.
LEMMA OtherEnds ==
    ASSUME NEW c \in Clients, NEW d \in Clients, c # d
    PROVE  /\ ServerEnd(c) \notin {ServerEnd(d), ClientEnd(d)}
           /\ ClientEnd(c) \notin {ServerEnd(d), ClientEnd(d)}
BY DEF ServerEnd, ClientEnd

\* A handler of another client's connection.
LEMMA OtherHandlers ==
    ASSUME OlcInv, NEW c \in Clients, NEW d \in Clients, c # d, OrderOf(c),
           NEW e \in {ServerEnd(d), ClientEnd(d)}, Handler(e),
           UNCHANGED <<handled, client, sent>>
    PROVE  OrderOf(c)'
<1>1. /\ e \in Ends /\ ServerEnd(c) \in Ends \ {e, Peer(e)}
      /\ ClientEnd(c) \in Ends \ {e, Peer(e)} /\ e[1] = d
  BY ClientEnds, OtherEnds
<1>2. ServerPart(c)' = ServerPart(c) /\ ClientPart(c)' = ClientPart(c)
      /\ wire'[ClientEnd(c)] = wire[ClientEnd(c)]
  BY <1>1, HandlerFrame DEF ServerPart, ClientPart
<1>3. AsSent(c, Arrivals, sent[c]) /\ Number(c) \in Nat
  BY ArrivalTypes DEF OrderOf
<1>4. Number(c)' = Number(c) /\ AsSent(c, Arrivals', sent[c])
  <2>1. CASE queue_in'[Server] = queue_in[Server]
    BY <1>3, <2>1, NoArrival
  <2>2. CASE \E m \in OwnedMessages :
                 m.remote = d /\ queue_in'[Server] = Append(queue_in[Server], m)
    <3>1. PICK m \in OwnedMessages :
                 m.remote = d /\ queue_in'[Server] = Append(queue_in[Server], m)
      BY <2>2
    <3>2. QED
      BY <1>3, <3>1, NewArrival
  <2>3. QED
    <3>1. CASE OwnerOf(e) = Server
      BY <1>1, <2>1, <2>2, <3>1, HandlerAdds
    <3>2. CASE OwnerOf(e) # Server
      BY <1>1, <2>1, <3>2, HandlerFrame
    <3>3. QED
      BY <3>1, <3>2
<1>5. QED
  BY <1>2, <1>4, Untouched

-----------------------------------------------------------------------------
\* The handlers of c's own context.
OwnStep(c) ==
    /\ OlcInv /\ OrderOf(c)
    /\ Handler(ClientEnd(c)) /\ UNCHANGED Others

LEMMA OwnFrame ==
    ASSUME NEW c \in Clients, OwnStep(c)
    PROVE  /\ ServerPart(c)' = ServerPart(c) /\ Number(c)' = Number(c)
           /\ AsSent(c, Arrivals', sent[c]) /\ client'[c] = client[c] /\ sent'[c] = sent[c]
           /\ client[c] \notin {"new", "connecting"} /\ Connecting(c)'
<1>1. ClientEnd(c) \in Ends /\ ServerEnd(c) \in Ends \ {ClientEnd(c)}
      /\ OwnerOf(ClientEnd(c)) # Server
  BY ClientEnds
<1>2. OlcInv /\ Handler(ClientEnd(c)) /\ UNCHANGED <<handled, client, sent>>
  BY DEF OwnStep, Others
<1>3. ServerPart(c)' = ServerPart(c) /\ queue_in'[Server] = queue_in[Server]
  BY <1>1, <1>2, HandlerFrame DEF ServerPart
<1>4. Arrivals' = Arrivals /\ Number(c)' = Number(c)
  BY <1>2, <1>3, NoArrival
<1>5. client[c] \notin {"new", "connecting"}
  <2> SUFFICES ASSUME client[c] \in {"new", "connecting"} PROVE FALSE
    OBVIOUS
  <2>1. reading[ClientEnd(c)] = "none" /\ writes[ClientEnd(c)] = <<>> /\ posted[ClientEnd(c)] = <<>>
    BY DEF OwnStep, OrderOf, Connecting
  <2>2. QED
    BY <1>2, <2>1 DEF Handler, RunSend, RunClose, WroteHeader, WroteBody, WroteValidation,
       WriteFailed, Completes, CheckAnswer, Answer, ReadHeader, ReadBody, ReadGarbled, ReadFailed
<1>6. Connecting(c)'
  BY <1>2, <1>5 DEF Connecting
<1>7. QED
  BY <1>2, <1>3, <1>4, <1>5, <1>6 DEF OwnStep, OrderOf

\* Enough to show after such a step: the stream leads to where the writer is.
LEMMA OwnStepEnds ==
    ASSUME NEW c \in Clients, OwnStep(c), queue_out'[ClientEnd(c)] = <<>>,
           \/ sock[ServerEnd(c)] = "closed"
           \/ \E what \in {"validation", "header", "body"} : \E n \in Nat :
                 /\ Leads(wire'[ClientEnd(c)], sent[c], First(c), Number(c), what, n)
                 /\ Writes(c, what, n)'
    PROVE  OrderOf(c)'
<1>1. First(c)' = First(c) /\ BodyToCome(c)' = BodyToCome(c)
      /\ sock'[ServerEnd(c)] = sock[ServerEnd(c)]
  BY OwnFrame DEF ServerPart, First, BodyToCome
<1>2. sock[ServerEnd(c)] # "closed" => Joined(c)'
  BY <1>1, OwnFrame DEF Joined
<1>3. InStep(c)'
  BY <1>1, <1>2 DEF OwnStep, OrderOf, InStep
<1>4. QED
  BY <1>3, OwnFrame DEF OrderOf

\* A write that starts: the piece is on the stream, or the write fails; the
\* stream is not read any more when the server's end is closed.
LEMMA StartedWrite ==
    ASSUME OlcInv, NEW c \in Clients, NEW rest, NEW kind, NEW piece,
           StartWrite(ClientEnd(c), rest, kind, piece), sock[ServerEnd(c)] # "closed"
    PROVE  \/ /\ sock[ClientEnd(c)] = "open"
              /\ writes'[ClientEnd(c)] = Append(rest, [kind |-> kind, ok |-> TRUE])
              /\ wire'[ClientEnd(c)] = Append(wire[ClientEnd(c)], piece)
           \/ /\ writes'[ClientEnd(c)] = Append(rest, [kind |-> kind, ok |-> FALSE])
              /\ wire'[ClientEnd(c)] = wire[ClientEnd(c)]
<1>1. ClientEnd(c) \in Ends /\ Peer(ClientEnd(c)) = ServerEnd(c)
  BY ClientEnds
<1>2. QED
  BY <1>1, ZenonT(30) DEF StartWrite, CanWrite, OlcInv, OlcTypeOK

LEMMA FirstOfAll == ASSUME NEW x PROVE Append(<<>>, x) = <<x>>
OBVIOUS

LEMMA ClosingToo ==
    ASSUME NEW tasks \in Seq(Messages), NEW more \in {tasks, Append(tasks, Closing)}
    PROVE  /\ OnlyClosing(tasks) => OnlyClosing(more)
           /\ tasks # <<>> /\ OnlyClosing(Tail(tasks)) =>
                 more # <<>> /\ Head(more) = Head(tasks) /\ OnlyClosing(Tail(more))
<1>1. Closing \in Messages
  BY DEF Closing, Message, Messages, Bodies
<1> HIDE DEF Closing
<1>2. CASE more = Append(tasks, Closing)
  <2>1. /\ Len(tasks) \in Nat /\ Len(more) = Len(tasks) + 1 /\ more[Len(tasks) + 1] = Closing
        /\ more \in Seq(Messages) /\ \A i \in 1..Len(tasks) : more[i] = tasks[i]
    BY <1>1, <1>2
  <2>2. OnlyClosing(tasks) => OnlyClosing(more)
    BY <2>1 DEF OnlyClosing
  <2>3. ASSUME tasks # <<>>, OnlyClosing(Tail(tasks))
        PROVE  more # <<>> /\ Head(more) = Head(tasks) /\ OnlyClosing(Tail(more))
    <3>1. Len(tasks) >= 1 /\ more # <<>> /\ Head(more) = Head(tasks)
      BY <2>1, <2>3
    <3>2. /\ Len(Tail(more)) = Len(tasks) /\ \A i \in 1..Len(tasks) : Tail(more)[i] = more[i + 1]
      BY <2>1, <3>1
    <3>3. \A i \in 1..(Len(tasks) - 1) : tasks[i + 1] = Closing
      BY <2>3, <3>1 DEF OnlyClosing
    <3>4. OnlyClosing(Tail(more))
      BY <2>1, <3>1, <3>2, <3>3 DEF OnlyClosing
    <3>5. QED
      BY <3>1, <3>4
  <2>4. QED
    BY <2>2, <2>3
<1>3. QED
  BY <1>2

LEMMA ClosingOnly ==
    ASSUME NEW c \in Clients, OlcInv, posted[ClientEnd(c)] # <<>>
    PROVE  /\ OnlyClosing(posted[ClientEnd(c)]) => Head(posted[ClientEnd(c)]) = Closing
           /\ OnlyClosing(posted[ClientEnd(c)]) => OnlyClosing(Tail(posted[ClientEnd(c)]))
<1>1. posted[ClientEnd(c)] \in Seq(Messages)
  BY ClientEnds DEF OlcInv, OlcTypeOK
<1>2. QED
  BY <1>1 DEF OnlyClosing

\* Where the stream stands before the step.
LEMMA Before ==
    ASSUME NEW c \in Clients, OrderOf(c), sock[ServerEnd(c)] # "closed"
    PROVE  \E what \in {"validation", "header", "body"} : \E n \in Nat :
              /\ Leads(wire[ClientEnd(c)], sent[c], First(c), Number(c), what, n)
              /\ Writes(c, what, n)
BY DEF OrderOf, InStep, Joined

\* The task of send writes the header of the one message.
LEMMA OwnSend ==
    ASSUME NEW c \in Clients, OwnStep(c), RunSend(ClientEnd(c))
    PROVE  OrderOf(c)'
<1> DEFINE e == ClientEnd(c)
<1>1. /\ e \in Ends /\ posted[e] # <<>> /\ Head(posted[e]) # Closing /\ OlcInv /\ queue_out[e] = <<>>
      /\ posted'[e] = Tail(posted[e]) /\ UNCHANGED <<sock, reading, sent>>
  BY ClientEnds DEF OwnStep, OrderOf, RunSend, OlcInv, OlcTypeOK, Others
<1>2. /\ posted[e] \in Seq(Messages) /\ Head(posted[e]) \in Messages
      /\ sent[c] \in Seq(Messages) /\ wire[e] \in Seq(Pieces)
  BY <1>1, HeadAndTail DEF OlcInv, OlcTypeOK
<1> PICK m \in Messages : m = Head(posted[e])
  BY <1>2
<1>3. WriteHeader(e, writes[e], <<m>>)
  BY <1>1 DEF RunSend
<1>4. /\ queue_out'[e] = <<>> /\ temp_out'[e] = m
      /\ StartWrite(e, writes[e], "header", Header(m))
  BY <1>1, <1>3 DEF WriteHeader, OlcInv, OlcTypeOK
<1>5. CASE sock[ServerEnd(c)] = "closed"
  BY <1>4, <1>5, OwnStepEnds
<1>6. CASE sock[ServerEnd(c)] # "closed"
  <2>1. PICK what \in {"validation", "header", "body"}, n \in Nat :
              /\ Leads(wire[e], sent[c], First(c), Number(c), what, n)
              /\ Writes(c, what, n)
    BY <1>6, Before DEF OwnStep
  <2>2. \/ /\ sock[e] = "open" /\ wire'[e] = Append(wire[e], Header(m))
           /\ writes'[e] = Append(writes[e], [kind |-> "header", ok |-> TRUE])
        \/ /\ wire'[e] = wire[e]
           /\ writes'[e] = Append(writes[e], [kind |-> "header", ok |-> FALSE])
    BY <1>1, <1>4, <1>6, StartedWrite
  <2>3. CASE sock[e] = "closed"
    <3>1. Writes(c, what, n)' /\ wire'[e] = wire[e]
      BY <1>1, <2>2, <2>3 DEF Writes
    <3>2. QED
      BY <1>4, <2>1, <3>1, OwnStepEnds
  <2>4. CASE sock[e] # "closed"
    <3>1. ~OnlyClosing(posted[e])
      BY <1>1, ClosingOnly
    <3>2. Sending(c, what, n) /\ reading[e] \in {"header", "body", "garbled"}
      BY <2>1, <2>4, <3>1 DEF Writes, Unanswered, Failing, Answered, Talking, Idle, HeaderOut, BodyOut
    <3>3. /\ what = "header" /\ sent[c] # <<>> /\ n + 1 = Len(sent[c]) /\ m = Newest(c)
          /\ OnlyClosing(posted[e])' /\ writes[e] = <<>>
      BY <1>1, <3>2 DEF Sending, OnlyClosing
    <3>4. Newest(c)' = Newest(c)
      BY <1>1 DEF Newest
    <3>5. CASE /\ wire'[e] = Append(wire[e], Header(m))
               /\ writes'[e] = Append(writes[e], [kind |-> "header", ok |-> TRUE])
      <4>1. Header(m) \in Pieces
        BY <1>2 DEF Pieces
      <4>2. PICK k \in Nat : k = IF m.body = NoBody THEN n + 1 ELSE n
        OBVIOUS
      <4> Reads(sent[c], what, Header(m), n, k)
        BY <1>2, <3>3, <4>2 DEF Reads, Newest
      <4>3. After(Header(m)) = IF m.body = NoBody THEN "header" ELSE "body"
        BY DEF After, Header
      <4>4. Leads(wire'[e], sent[c], First(c), Number(c), After(Header(m)), k)
        BY <1>2, <2>1, <3>5, <4>1, LeadsFurther
      <4>5. HeaderOut(c, After(Header(m)), k)'
        <5>1. writes'[e] = <<[kind |-> "header", ok |-> TRUE]>>
          BY <3>3, <3>5
        <5>2. temp_out'[e] = Newest(c)' /\ sent'[c] = sent[c] /\ OnlyClosing(posted[e])'
          BY <1>1, <1>4, <3>3, <3>4
        <5>3. Newest(c)' = m /\ Len(sent[c]) \in Nat
          BY <1>2, <3>3, <3>4
        <5>4. IF m.body = NoBody THEN After(Header(m)) = "header" /\ k = Len(sent[c])
                                 ELSE After(Header(m)) = "body" /\ k + 1 = Len(sent[c])
          BY <3>3, <4>2, <4>3
        <5>5. QED
          BY <3>3, <5>1, <5>2, <5>3, <5>4 DEF HeaderOut, Outstanding
      <4>6. Writes(c, After(Header(m)), k)'
        BY <1>1, <3>2, <4>5 DEF Writes, Talking
      <4>7. QED
        BY <1>4, <4>3, <4>4, <4>6, OwnStepEnds
    <3>6. CASE /\ wire'[e] = wire[e]
               /\ writes'[e] = Append(writes[e], [kind |-> "header", ok |-> FALSE])
      <4>1. Failing(c)'
        <5>1. Outstanding(e, "header", FALSE)'
          BY <3>3, <3>6 DEF Outstanding
        <5>2. QED
          BY <1>1, <3>2, <3>3, <5>1 DEF Failing
      <4>2. Writes(c, what, n)' /\ wire'[e] = wire[e]
        BY <3>6, <4>1 DEF Writes
      <4>3. QED
        BY <1>4, <2>1, <4>2, OwnStepEnds
    <3>7. QED
      BY <2>2, <3>5, <3>6
  <2>5. QED
    BY <2>3, <2>4
<1>7. QED
  BY <1>5, <1>6

\* The header was written: the body follows, or the writer is idle.
LEMMA OwnWroteHeader ==
    ASSUME NEW c \in Clients, OwnStep(c), WroteHeader(ClientEnd(c))
    PROVE  OrderOf(c)'
<1> DEFINE e == ClientEnd(c)
<1>1. /\ e \in Ends /\ OlcInv /\ queue_out[e] = <<>> /\ UNCHANGED <<sock, reading, sent, posted>>
      /\ writes[e] # <<>> /\ Head(writes[e]) = [kind |-> "header", ok |-> TRUE]
  BY ClientEnds DEF OwnStep, OrderOf, WroteHeader, Completes, Others
<1>2. /\ sent[c] \in Seq(Messages) /\ wire[e] \in Seq(Pieces) /\ temp_out[e] \in Messages
      /\ writes \in [Ends -> Seq(WriteRecords)]
  BY <1>1 DEF OlcInv, OlcTypeOK, WriteRecords
<1> PICK m \in Messages : m = temp_out[e]
  BY <1>2
<1>3. CASE m.body = NoBody
  <2>1. /\ writes' = [writes EXCEPT ![e] = Tail(@)] /\ UNCHANGED <<wire, queue_out, temp_out>>
    BY <1>1, <1>3 DEF WroteHeader, NextMessage
  <2>2. CASE sock[ServerEnd(c)] = "closed"
    BY <1>1, <2>1, <2>2, OwnStepEnds
  <2>3. CASE sock[ServerEnd(c)] # "closed"
    <3>1. PICK what \in {"validation", "header", "body"}, n \in Nat :
                /\ Leads(wire[e], sent[c], First(c), Number(c), what, n)
                /\ Writes(c, what, n)
      BY <2>3, Before DEF OwnStep
    <3>2. CASE sock[e] = "closed"
      BY <1>1, <2>1, <3>1, <3>2, OwnStepEnds DEF Writes
    <3>3. CASE sock[e] # "closed"
      <4>1. HeaderOut(c, what, n) /\ reading[e] \in {"header", "body", "garbled"}
        BY <1>1, <3>1, <3>3 DEF Writes, Unanswered, Failing, Answered, Talking, Idle, Sending,
           BodyOut, Outstanding
      <4>2. what = "header" /\ n = Len(sent[c]) /\ OnlyClosing(posted[e]) /\ Tail(writes[e]) = <<>>
        BY <1>3, <4>1 DEF HeaderOut, Outstanding
      <4>3. Idle(c, what, n)'
        BY <1>1, <1>2, <2>1, <4>2 DEF Idle
      <4>4. Writes(c, what, n)'
        BY <1>1, <4>1, <4>3 DEF Writes, Talking
      <4>5. QED
        BY <1>1, <2>1, <3>1, <4>4, OwnStepEnds
    <3>4. QED
      BY <3>2, <3>3
  <2>4. QED
    BY <2>2, <2>3
<1>4. CASE m.body # NoBody
  <2>1. StartWrite(e, Tail(writes[e]), "body", Body(m)) /\ UNCHANGED <<queue_out, temp_out>>
    BY <1>1, <1>4 DEF WroteHeader
  <2>2. CASE sock[ServerEnd(c)] = "closed"
    BY <1>1, <2>1, <2>2, OwnStepEnds
  <2>3. CASE sock[ServerEnd(c)] # "closed"
    <3>1. PICK what \in {"validation", "header", "body"}, n \in Nat :
                /\ Leads(wire[e], sent[c], First(c), Number(c), what, n)
                /\ Writes(c, what, n)
      BY <2>3, Before DEF OwnStep
    <3>2. \/ /\ sock[e] = "open" /\ wire'[e] = Append(wire[e], Body(m))
             /\ writes'[e] = Append(Tail(writes[e]), [kind |-> "body", ok |-> TRUE])
          \/ /\ wire'[e] = wire[e]
             /\ writes'[e] = Append(Tail(writes[e]), [kind |-> "body", ok |-> FALSE])
      BY <1>1, <2>1, <2>3, StartedWrite
    <3>3. CASE sock[e] = "closed"
      BY <1>1, <2>1, <3>1, <3>2, <3>3, OwnStepEnds DEF Writes
    <3>4. CASE sock[e] # "closed"
      <4>1. HeaderOut(c, what, n) /\ reading[e] \in {"header", "body", "garbled"}
        BY <1>1, <3>1, <3>4 DEF Writes, Unanswered, Failing, Answered, Talking, Idle, Sending,
           BodyOut, Outstanding
      <4>2. /\ what = "body" /\ n + 1 = Len(sent[c]) /\ OnlyClosing(posted[e])
            /\ Tail(writes[e]) = <<>> /\ m = sent[c][n + 1]
        BY <1>2, <1>4, <4>1 DEF HeaderOut, Outstanding, Newest
      <4>3. OnlyClosing(posted[e])'
        BY <1>1, <4>2 DEF OnlyClosing
      <4>4. CASE /\ wire'[e] = Append(wire[e], Body(m))
                 /\ writes'[e] = Append(Tail(writes[e]), [kind |-> "body", ok |-> TRUE])
        <5>1. PICK k \in Nat : k = n + 1
          OBVIOUS
        <5>2. Reads(sent[c], what, Body(m), n, k)
          BY <1>2, <4>2, <5>1 DEF Reads
        <5>3. Body(m) \in Pieces /\ After(Body(m)) = "header"
          BY DEF Pieces, After, Body
        <5>4. Leads(wire'[e], sent[c], First(c), Number(c), "header", k)
          BY <1>2, <3>1, <4>4, <5>2, <5>3, LeadsFurther
        <5>5. Outstanding(e, "body", TRUE)'
          <6>1. writes'[e] = <<[kind |-> "body", ok |-> TRUE]>>
            BY <4>2, <4>4, FirstOfAll
          <6>2. QED
            BY <6>1 DEF Outstanding
        <5>6. BodyOut(c, "header", k)'
          BY <1>1, <4>2, <4>3, <5>1, <5>5 DEF BodyOut
        <5>7. Writes(c, "header", k)'
          BY <1>1, <4>1, <5>6 DEF Writes, Talking
        <5>8. QED
          BY <1>1, <2>1, <5>4, <5>7, OwnStepEnds
      <4>5. CASE /\ wire'[e] = wire[e]
                 /\ writes'[e] = Append(Tail(writes[e]), [kind |-> "body", ok |-> FALSE])
        <5>1. Outstanding(e, "body", FALSE)'
          <6>1. writes'[e] = <<[kind |-> "body", ok |-> FALSE]>>
            BY <4>2, <4>5, FirstOfAll
          <6>2. QED
            BY <6>1 DEF Outstanding
        <5>2. Failing(c)'
          BY <1>1, <4>1, <4>3, <5>1 DEF Failing
        <5>3. Writes(c, what, n)'
          BY <5>2 DEF Writes
        <5>4. QED
          BY <1>1, <2>1, <3>1, <4>5, <5>3, OwnStepEnds
      <4>6. QED
        BY <3>2, <4>4, <4>5
    <3>5. QED
      BY <3>3, <3>4
  <2>4. QED
    BY <2>2, <2>3
<1>5. QED
  BY <1>3, <1>4

\* The body was written, or the answer to the handshake's word.
LEMMA OwnWrote ==
    ASSUME NEW c \in Clients, OwnStep(c),
           WroteBody(ClientEnd(c)) \/ WroteValidation(ClientEnd(c))
    PROVE  OrderOf(c)'
<1> DEFINE e == ClientEnd(c)
<1>1. /\ e \in Ends /\ e[2] = "client" /\ OlcInv /\ queue_out[e] = <<>>
      /\ UNCHANGED <<sock, sent, posted>>
  BY ClientEnds DEF OwnStep, OrderOf, WroteBody, WroteValidation, Others
<1>2. writes' = [writes EXCEPT ![e] = Tail(@)] /\ UNCHANGED <<wire, queue_out, temp_out>>
  BY <1>1 DEF WroteBody, WroteValidation, NextMessage
<1>3. CASE sock[ServerEnd(c)] = "closed"
  BY <1>1, <1>2, <1>3, OwnStepEnds
<1>4. CASE sock[ServerEnd(c)] # "closed"
  <2>1. PICK what \in {"validation", "header", "body"}, n \in Nat :
              /\ Leads(wire[e], sent[c], First(c), Number(c), what, n)
              /\ Writes(c, what, n)
    BY <1>4, Before DEF OwnStep
  <2>2. CASE sock[e] = "closed"
    BY <1>1, <1>2, <2>1, <2>2, OwnStepEnds DEF Writes
  <2>3. CASE sock[e] # "closed"
    <3>1. /\ writes[e] # <<>> /\ writes \in [Ends -> Seq(WriteRecords)]
          /\ sent[c] \in Seq(Messages) /\ reading' \in [Ends -> {"none", "validation", "header", "body", "garbled"}]
      BY <1>1 DEF OlcInv, OlcTypeOK, WriteRecords, WroteBody, WroteValidation, Completes, StartRead
    <3>2. /\ what = "header" /\ n = Len(sent[c]) /\ OnlyClosing(posted[e])
          /\ Tail(writes[e]) = <<>> /\ reading'[e] \in {"header", "body", "garbled"}
      <4>1. CASE WroteBody(e)
        <5>1. Head(writes[e]) = [kind |-> "body", ok |-> TRUE] /\ UNCHANGED reading
          BY <4>1 DEF WroteBody, Completes
        <5>2. BodyOut(c, what, n) /\ reading[e] \in {"header", "body", "garbled"}
          BY <2>1, <2>3, <3>1, <5>1 DEF Writes, Unanswered, Failing, Answered, Talking, Idle,
             Sending, HeaderOut, Outstanding
        <5>3. QED
          BY <5>1, <5>2 DEF BodyOut, Outstanding
      <4>2. CASE WroteValidation(e)
        <5>1. Head(writes[e]) = [kind |-> "word", ok |-> TRUE] /\ reading'[e] = "header"
          BY <1>1, <4>2 DEF WroteValidation, Completes, StartRead, OlcInv, OlcTypeOK
        <5>2. Answered(c, what, n)
          BY <2>1, <2>3, <3>1, <5>1 DEF Writes, Unanswered, Failing, Talking, Idle,
             Sending, HeaderOut, BodyOut, Outstanding
        <5>3. QED
          BY <5>1, <5>2 DEF Answered, Outstanding
      <4>3. QED
        BY <4>1, <4>2
    <3>3. Idle(c, what, n)'
      BY <1>1, <1>2, <3>1, <3>2 DEF Idle, OnlyClosing
    <3>4. Writes(c, what, n)'
      BY <1>1, <3>2, <3>3 DEF Writes, Talking
    <3>5. QED
      BY <1>1, <1>2, <2>1, <3>4, OwnStepEnds
  <2>4. QED
    BY <2>2, <2>3
<1>5. QED
  BY <1>3, <1>4

\* The answer to the word goes on the stream before any message.
LEMMA OwnAnswer ==
    ASSUME NEW c \in Clients, OwnStep(c), Answer(ClientEnd(c))
    PROVE  OrderOf(c)'
<1> DEFINE e == ClientEnd(c)
           answer == Word(IF c \in Impostors THEN "wrong" ELSE "right")
<1>1. /\ e \in Ends /\ e[1] = c /\ Peer(e) \in Ends /\ Peer(e) # e /\ OlcInv /\ queue_out[e] = <<>>
      /\ UNCHANGED <<sock, sent, posted, queue_out>> /\ reading[e] = "validation"
      /\ reading'[e] = "none"
  <2>1. /\ e \in Ends /\ e[1] = c /\ Peer(e) \in Ends /\ Peer(e) # e
    BY ClientEnds
  <2>2. /\ OlcInv /\ queue_out[e] = <<>> /\ UNCHANGED <<sock, sent, posted, queue_out>>
        /\ reading[e] = "validation" /\ reading' = [reading EXCEPT ![e] = "none"]
    BY DEF OwnStep, OrderOf, Answer, Others, StartRead
  <2>3. QED
    BY <2>1, <2>2 DEF OlcInv, OlcTypeOK
<1>2. /\ sent[c] \in Seq(Messages) /\ wire \in [Ends -> Seq(Pieces)]
      /\ writes \in [Ends -> Seq(WriteRecords)]
  BY <1>1 DEF OlcInv, OlcTypeOK, WriteRecords
<1>3. \/ /\ writes'[e] = Append(writes[e], [kind |-> "word", ok |-> TRUE])
         /\ wire'[e] = Append(wire[e], answer)
      \/ /\ writes'[e] = Append(writes[e], [kind |-> "word", ok |-> FALSE])
         /\ wire'[e] = wire[e]
  BY <1>1, <1>2 DEF Answer, CanWrite
<1>4. CASE sock[ServerEnd(c)] = "closed"
  BY <1>1, <1>4, OwnStepEnds
<1>5. CASE sock[ServerEnd(c)] # "closed"
  <2>1. PICK what \in {"validation", "header", "body"}, n \in Nat :
              /\ Leads(wire[e], sent[c], First(c), Number(c), what, n)
              /\ Writes(c, what, n)
    BY <1>5, Before DEF OwnStep
  <2>2. Unanswered(c, what, n)
    <3>1. sock[e] = "open"
      BY DEF Answer, Arrived
    <3>2. QED
      BY <1>1, <2>1, <3>1 DEF Writes, Failing, Answered, Talking
  <2>3. what = "validation" /\ n = 0 /\ sent[c] = <<>> /\ writes[e] = <<>>
        /\ OnlyClosing(posted[e])'
    BY <1>1, <2>2 DEF Unanswered, OnlyClosing
  <2>4. CASE /\ writes'[e] = Append(writes[e], [kind |-> "word", ok |-> TRUE])
             /\ wire'[e] = Append(wire[e], answer)
    <3>1. answer \in Pieces /\ After(answer) = "header" /\ answer[1] = "word"
      BY DEF Pieces, Word, After
    <3>2. Reads(sent[c], what, answer, n, 0)
      BY <2>3, <3>1 DEF Reads
    <3>3. Leads(wire'[e], sent[c], First(c), Number(c), "header", 0)
      BY <1>1, <1>2, <2>1, <2>4, <3>1, <3>2, LeadsFurther
    <3>4. Outstanding(e, "word", TRUE)'
      BY <2>3, <2>4 DEF Outstanding
    <3>5. Answered(c, "header", 0)'
      BY <1>1, <2>3, <3>4 DEF Answered
    <3>6. Writes(c, "header", 0)'
      BY <3>5 DEF Writes
    <3>7. QED
      BY <1>1, <3>3, <3>6, OwnStepEnds
  <2>5. CASE /\ writes'[e] = Append(writes[e], [kind |-> "word", ok |-> FALSE])
             /\ wire'[e] = wire[e]
    <3>1. Outstanding(e, "word", FALSE)'
      BY <2>3, <2>5 DEF Outstanding
    <3>2. Failing(c)'
      BY <1>1, <2>3, <3>1 DEF Failing
    <3>3. Writes(c, what, n)'
      BY <3>2 DEF Writes
    <3>4. QED
      BY <1>1, <2>1, <2>5, <3>3, OwnStepEnds
  <2>6. QED
    BY <1>3, <2>4, <2>5
<1>6. QED
  BY <1>4, <1>5

\* The client's end is closed, or reads what the server wrote.
LEMMA OwnOther ==
    ASSUME NEW c \in Clients, OwnStep(c),
           \/ RunClose(ClientEnd(c)) \/ WriteFailed(ClientEnd(c)) \/ ReadFailed(ClientEnd(c))
           \/ ReadHeader(ClientEnd(c)) \/ ReadBody(ClientEnd(c)) \/ ReadGarbled(ClientEnd(c))
    PROVE  OrderOf(c)'
<1> DEFINE e == ClientEnd(c)
<1>1. /\ e \in Ends /\ Peer(e) # e /\ OlcInv /\ queue_out[e] = <<>> /\ UNCHANGED <<queue_out, sent>>
  BY ClientEnds DEF OwnStep, OrderOf, Others, RunClose, WriteFailed, ReadFailed, ReadHeader,
     ReadBody, ReadGarbled
<1>2. wire'[e] = wire[e]
  BY <1>1, EndFacts DEF RunClose, WriteFailed, ReadFailed, ReadHeader, ReadBody, ReadGarbled, Take,
     OlcInv, OlcTypeOK
<1>3. CASE sock[ServerEnd(c)] = "closed"
  BY <1>1, <1>3, OwnStepEnds
<1>4. CASE sock[ServerEnd(c)] # "closed"
  <2>1. PICK what \in {"validation", "header", "body"}, n \in Nat :
              /\ Leads(wire[e], sent[c], First(c), Number(c), what, n)
              /\ Writes(c, what, n)
    BY <1>4, Before DEF OwnStep
  <2>2. Writes(c, what, n)'
    <3>1. CASE RunClose(e) \/ WriteFailed(e) \/ ReadFailed(e)
      <4>1. sock'[e] = "closed"
        BY <1>1, <3>1 DEF RunClose, WriteFailed, ReadFailed, Close, OlcInv, OlcTypeOK
      <4>2. QED
        BY <4>1 DEF Writes
    <3>2. CASE ReadHeader(e) \/ ReadBody(e) \/ ReadGarbled(e)
      <4>1. /\ UNCHANGED <<sock, writes, temp_out, posted>>
            /\ reading[e] \in {"header", "body", "garbled"}
            /\ reading'[e] \in {"header", "body", "garbled"}
        BY <1>1, <3>2 DEF ReadHeader, ReadBody, ReadGarbled, StartRead, OlcInv, OlcTypeOK
      <4>2. sock[e] = "closed" \/ Failing(c) \/ Talking(c, what, n)
        BY <2>1, <4>1 DEF Writes, Unanswered, Answered
      <4>3. Failing(c) => Failing(c)'
        BY <4>1 DEF Failing, OnlyClosing, Outstanding
      <4>4. Talking(c, what, n) => Talking(c, what, n)'
        BY <1>1, <4>1 DEF Talking, Idle, Sending, HeaderOut, BodyOut, OnlyClosing, Outstanding, Newest
      <4>5. QED
        BY <4>1, <4>2, <4>3, <4>4 DEF Writes
    <3>3. QED
      BY <3>1, <3>2
  <2>3. QED
    BY <1>1, <1>2, <2>1, <2>2, OwnStepEnds
<1>5. QED
  BY <1>3, <1>4

LEMMA OwnHandlers ==
    ASSUME NEW c \in Clients, OwnStep(c)
    PROVE  OrderOf(c)'
<1>1. ~CheckAnswer(ClientEnd(c))
  BY ClientEnds DEF CheckAnswer
<1>2. QED
  BY <1>1, OwnSend, OwnWroteHeader, OwnWrote, OwnAnswer, OwnOther DEF OwnStep, Handler

-----------------------------------------------------------------------------
\* The handlers of the server's end of c's connection.
PeerStep(c) ==
    /\ OlcInv /\ OrderOf(c)
    /\ Handler(ServerEnd(c)) /\ UNCHANGED Others

LEMMA PeerFrame ==
    ASSUME NEW c \in Clients, PeerStep(c)
    PROVE  /\ ClientPart(c)' = ClientPart(c) /\ UNCHANGED <<handled, client, sent>> /\ OlcInv'
           /\ Connecting(c)' /\ queue_out'[ClientEnd(c)] = <<>>
<1>1. ServerEnd(c) \in Ends /\ ClientEnd(c) \in Ends \ {ServerEnd(c)}
  BY ClientEnds
<1>2. OlcInv /\ OrderOf(c) /\ Handler(ServerEnd(c)) /\ UNCHANGED Others
  BY DEF PeerStep
<1>3. OlcInv' /\ UNCHANGED <<handled, client, sent>>
  BY <1>1, <1>2, Handlers DEF Others
<1>4. ClientPart(c)' = ClientPart(c)
  BY <1>1, <1>2, <1>3, HandlerFrame DEF ClientPart
<1>5. QED
  BY <1>2, <1>3, <1>4 DEF OrderOf, Connecting, ClientPart

\* Enough to show after such a step.
LEMMA PeerStepEnds ==
    ASSUME NEW c \in Clients, PeerStep(c), AsSent(c, Arrivals', sent[c]),
           \/ sock'[ServerEnd(c)] = "closed"
           \/ /\ First(c)' \in {"validation", "header", "body"} /\ BodyToCome(c)'
              /\ \E what \in {"validation", "header", "body"} : \E n \in Nat :
                    /\ Leads(wire'[ClientEnd(c)], sent[c], First(c)', Number(c)', what, n)
                    /\ Writes(c, what, n)
    PROVE  OrderOf(c)'
<1>1. sent' = sent
  BY PeerFrame
<1>2. AsSent(c, Arrivals, sent[c])'
  BY <1>1
<1>3. InStep(c)'
  <2>1. CASE sock'[ServerEnd(c)] = "closed"
    BY <2>1 DEF InStep
  <2>2. CASE sock'[ServerEnd(c)] # "closed"
    <3>1. PICK what \in {"validation", "header", "body"}, n \in Nat :
                /\ Leads(wire'[ClientEnd(c)], sent[c], First(c)', Number(c)', what, n)
                /\ Writes(c, what, n)
      BY <2>2
    <3>2. Writes(c, what, n)'
      BY <3>1, WritesKept, PeerFrame
    <3>3. Joined(c)'
      BY <1>1, <3>1, <3>2 DEF Joined
    <3>4. QED
      BY <2>2, <3>3 DEF InStep
  <2>3. QED
    BY <2>1, <2>2
<1>4. QED
  BY <1>2, <1>3, PeerFrame DEF OrderOf

\* The handlers that write, and those that close the server's end.
LEMMA PeerWrites ==
    ASSUME NEW c \in Clients, PeerStep(c),
           \/ RunSend(ServerEnd(c)) \/ WroteHeader(ServerEnd(c)) \/ WroteBody(ServerEnd(c))
           \/ WroteValidation(ServerEnd(c))
           \/ RunClose(ServerEnd(c)) \/ WriteFailed(ServerEnd(c)) \/ ReadFailed(ServerEnd(c))
    PROVE  OrderOf(c)'
<1> DEFINE e == ServerEnd(c)
<1>1. /\ e \in Ends /\ e[2] = "server" /\ ClientEnd(c) \in Ends /\ ClientEnd(c) # e /\ OlcInv
      /\ OrderOf(c)
  BY ClientEnds DEF PeerStep
<1>2. UNCHANGED <<queue_in, handled, temp_in>>
  BY PeerFrame
  DEF RunSend, WroteHeader, WroteBody, WroteValidation, RunClose, WriteFailed, ReadFailed
<1>3. Number(c)' = Number(c) /\ AsSent(c, Arrivals', sent[c])
  BY <1>1, <1>2, NoArrival DEF OrderOf
<1>4. CASE RunSend(e) \/ WroteHeader(e) \/ WroteBody(e) \/ WroteValidation(e)
  <2>1. UNCHANGED <<sock, reading>>
    BY <1>1, <1>4 DEF RunSend, WroteHeader, WroteBody, WroteValidation
  <2>2. wire'[ClientEnd(c)] = wire[ClientEnd(c)]
    <3>1. CASE RunSend(e)
      BY <1>1, <3>1 DEF RunSend, WriteHeader, StartWrite, OlcInv, OlcTypeOK
    <3>2. CASE WroteHeader(e) \/ WroteBody(e)
      BY <1>1, <3>2, ZenonT(30) DEF WroteHeader, WroteBody, NextMessage, WriteHeader, StartWrite,
         OlcInv, OlcTypeOK
    <3>3. CASE WroteValidation(e)
      BY <1>1, <3>3 DEF WroteValidation, StartWrite, OlcInv, OlcTypeOK
    <3>4. QED
      BY <1>4, <3>1, <3>2, <3>3
  <2>3. ServerPart(c)' = ServerPart(c)
    BY <1>2, <2>1 DEF ServerPart
  <2>4. QED
    BY <1>1, <1>3, <2>2, <2>3, PeerFrame, Untouched
<1>5. CASE RunClose(e) \/ WriteFailed(e) \/ ReadFailed(e)
  <2>1. sock'[e] = "closed"
    BY <1>1, <1>5 DEF RunClose, WriteFailed, ReadFailed, Close, OlcInv, OlcTypeOK
  <2>2. QED
    BY <1>3, <2>1, PeerStepEnds
<1>6. QED
  BY <1>4, <1>5

\* What the server reads next is what it expects, and leads on.
LEMMA PeerReads ==
    ASSUME NEW c \in Clients, PeerStep(c), Arrived(ServerEnd(c)) # {}, Take(ServerEnd(c))
    PROVE  \E piece \in Pieces : \E n \in Nat :
              /\ Arrived(ServerEnd(c)) = {piece}
              /\ sock[ServerEnd(c)] = "open" /\ First(c) = reading[ServerEnd(c)]
              /\ Reads(sent[c], First(c), piece, Number(c), n)
              /\ \E what \in {"validation", "header", "body"} : \E to \in Nat :
                    /\ Leads(wire'[ClientEnd(c)], sent[c], After(piece), n, what, to)
                    /\ Writes(c, what, to)
<1> DEFINE e == ServerEnd(c)
           stream == wire[ClientEnd(c)]
<1>1. e \in Ends /\ ClientEnd(c) \in Ends /\ Peer(e) = ClientEnd(c) /\ OlcInv /\ OrderOf(c)
  BY ClientEnds DEF PeerStep
<1>2. /\ stream \in Seq(Pieces) /\ stream # <<>> /\ Arrived(e) = {Head(stream)}
      /\ sock[e] = "open" /\ First(c) = reading[e]
  BY <1>1, ArrivalTypes DEF Arrived, First
<1>3. wire'[ClientEnd(c)] = Tail(stream)
  BY <1>1 DEF Take, OlcInv, OlcTypeOK
<1>4. PICK what \in {"validation", "header", "body"}, to \in Nat :
            /\ Leads(stream, sent[c], First(c), Number(c), what, to)
            /\ Writes(c, what, to)
  BY <1>1, <1>2, Before
<1>5. PICK n \in Nat : /\ Reads(sent[c], First(c), stream[1], Number(c), n)
                       /\ Leads(Tail(stream), sent[c], After(stream[1]), n, what, to)
  BY <1>2, <1>4, LeadsOn
<1>6. stream[1] \in Pieces /\ Arrived(e) = {stream[1]}
  BY <1>2
<1>7. QED
  BY <1>2, <1>3, <1>4, <1>5, <1>6

\* The answer is right, or the server's end closed.
LEMMA PeerChecks ==
    ASSUME NEW c \in Clients, PeerStep(c), CheckAnswer(ServerEnd(c))
    PROVE  OrderOf(c)'
<1> DEFINE e == ServerEnd(c)
<1>1. /\ e \in Ends /\ OlcInv /\ OrderOf(c) /\ Arrived(e) # {} /\ Take(e)
      /\ reading[e] = "validation" /\ UNCHANGED <<queue_in, handled>>
  BY ClientEnds, PeerFrame DEF PeerStep, CheckAnswer
<1>2. Number(c)' = Number(c) /\ AsSent(c, Arrivals', sent[c])
  BY <1>1, NoArrival DEF OrderOf
<1>3. PICK piece \in Pieces, n \in Nat :
              /\ Arrived(e) = {piece} /\ sock[e] = "open" /\ First(c) = reading[e]
              /\ Reads(sent[c], First(c), piece, Number(c), n)
              /\ \E what \in {"validation", "header", "body"} : \E to \in Nat :
                    /\ Leads(wire'[ClientEnd(c)], sent[c], After(piece), n, what, to)
                    /\ Writes(c, what, to)
  BY <1>1, PeerReads
<1>4. n = Number(c) /\ After(piece) = "header"
  BY <1>1, <1>3 DEF Reads, After
<1>5. CASE piece = Word("right")
  <2>1. UNCHANGED sock /\ reading'[e] = "header"
    BY <1>1, <1>3, <1>5 DEF CheckAnswer, StartRead, OlcInv, OlcTypeOK
  <2>2. First(c)' = "header"
    BY <1>3, <2>1 DEF First
  <2>3. QED
    BY <1>2, <1>3, <1>4, <2>2, PeerStepEnds DEF BodyToCome
<1>6. CASE piece # Word("right")
  <2>1. sock'[e] = "closed"
    BY <1>1, <1>3, <1>6 DEF CheckAnswer, Close, OlcInv, OlcTypeOK
  <2>2. QED
    BY <1>2, <2>1, PeerStepEnds
<1>7. QED
  BY <1>5, <1>6

\* A message is added: it is c's next.
LEMMA PeerAdds ==
    ASSUME NEW c \in Clients, PeerStep(c), AddToIncoming(ServerEnd(c), temp_in'[ServerEnd(c)]),
           Number(c) < Len(sent[c]),
           temp_in'[ServerEnd(c)].id = sent[c][Number(c) + 1].id
    PROVE  Number(c)' = Number(c) + 1 /\ AsSent(c, Arrivals', sent[c])
<1> DEFINE m == [remote |-> c, msg |-> temp_in'[ServerEnd(c)]]
<1>1. /\ ServerEnd(c) \in Ends /\ OwnerOf(ServerEnd(c)) = Server /\ ServerEnd(c)[1] = c
      /\ OlcInv /\ OlcInv' /\ UNCHANGED handled /\ AsSent(c, Arrivals, sent[c])
  BY ClientEnds, PeerFrame DEF PeerStep, OrderOf
<1>2. m \in OwnedMessages
  BY <1>1 DEF OlcInv, OlcTypeOK, OwnedMessages
<1>3. queue_in'[Server] = Append(queue_in[Server], m)
  BY <1>1 DEF AddToIncoming, OlcInv, OlcTypeOK
<1>4. m.remote = c /\ m.msg.id = sent[c][Number(c) + 1].id
  OBVIOUS
<1> HIDE DEF m
<1>5. QED
  BY <1>1, <1>2, <1>3, <1>4, NewArrival

\* The server reads a header or a body of c's next message.
LEMMA PeerReadsMessages ==
    ASSUME NEW c \in Clients, PeerStep(c), ReadHeader(ServerEnd(c)) \/ ReadBody(ServerEnd(c))
    PROVE  OrderOf(c)'
<1> DEFINE e == ServerEnd(c)
           next == sent[c][Number(c) + 1]
<1>1. /\ e \in Ends /\ OlcInv /\ OrderOf(c) /\ Arrived(e) # {} /\ Take(e)
      /\ UNCHANGED <<sock, handled, sent>> /\ temp_in[e] \in Messages
  BY ClientEnds, PeerFrame DEF PeerStep, ReadHeader, ReadBody, OlcInv, OlcTypeOK
<1>2. PICK piece \in Pieces, n \in Nat :
              /\ Arrived(e) = {piece} /\ sock[e] = "open" /\ First(c) = reading[e]
              /\ Reads(sent[c], First(c), piece, Number(c), n)
              /\ \E what \in {"validation", "header", "body"} : \E to \in Nat :
                    /\ Leads(wire'[ClientEnd(c)], sent[c], After(piece), n, what, to)
                    /\ Writes(c, what, to)
  BY <1>1, PeerReads
<1>3. First(c)' = reading'[e]
  BY <1>1, <1>2 DEF First
<1>4. AsSent(c, Arrivals, sent[c]) /\ BodyToCome(c)
  BY <1>1, <1>2 DEF OrderOf, InStep
<1>5. CASE ReadHeader(e)
  <2>1. /\ Number(c) < Len(sent[c]) /\ piece = Header(next)
        /\ n = IF next.body = NoBody THEN Number(c) + 1 ELSE Number(c)
    BY <1>2, <1>5 DEF Reads, ReadHeader
  <2>2. piece[1] = "header" /\ piece[2] = next.id /\ piece[3] = (next.body # NoBody)
    BY <2>1 DEF Header
  <2>3. /\ temp_in' = [temp_in EXCEPT ![e].id = piece[2]]
        /\ IF piece[3] THEN StartRead(e, "body") /\ UNCHANGED queue_in
           ELSE AddToIncoming(e, temp_in'[e]) /\ StartRead(e, "header")
    BY <1>2, <1>5, <2>2 DEF ReadHeader
  <2>4. temp_in'[e].id = next.id
    BY <1>1, <2>2, <2>3 DEF OlcInv, OlcTypeOK, Messages
  <2>5. CASE next.body = NoBody
    <3>1. AddToIncoming(e, temp_in'[e]) /\ reading'[e] = "header" /\ After(piece) = "header"
      BY <1>1, <2>2, <2>3, <2>5 DEF StartRead, After, OlcInv, OlcTypeOK
    <3>2. Number(c)' = n /\ AsSent(c, Arrivals', sent[c])
      BY <2>1, <2>4, <2>5, <3>1, PeerAdds
    <3>3. BodyToCome(c)'
      BY <1>3, <3>1 DEF BodyToCome
    <3>4. QED
      BY <1>2, <1>3, <3>1, <3>2, <3>3, PeerStepEnds
  <2>6. CASE next.body # NoBody
    <3>1. UNCHANGED queue_in /\ reading'[e] = "body" /\ After(piece) = "body"
      <4>1. piece[3]
        BY <2>2, <2>6
      <4>2. UNCHANGED queue_in /\ StartRead(e, "body")
        BY <2>3, <4>1
      <4>3. After(piece) = "body"
        BY <2>2, <4>1 DEF After
      <4>4. QED
        BY <1>1, <4>2, <4>3 DEF StartRead, OlcInv, OlcTypeOK
    <3>2. Number(c)' = Number(c) /\ Number(c) = n /\ AsSent(c, Arrivals', sent[c])
      BY <1>1, <1>4, <2>1, <2>6, <3>1, NoArrival
    <3>3. BodyToCome(c)'
      BY <1>1, <2>1, <2>4, <3>2 DEF BodyToCome
    <3>4. QED
      BY <1>2, <1>3, <3>1, <3>2, <3>3, PeerStepEnds
  <2>7. QED
    BY <2>5, <2>6
<1>6. CASE ReadBody(e)
  <2>1. /\ Number(c) < Len(sent[c]) /\ piece = Body(next) /\ n = Number(c) + 1
        /\ temp_in[e].id = next.id
    BY <1>2, <1>4, <1>6 DEF Reads, ReadBody, BodyToCome
  <2>2. piece[1] = "body" /\ After(piece) = "header"
    BY <2>1 DEF Body, After
  <2>3. /\ temp_in' = [temp_in EXCEPT ![e].body = piece[2]]
        /\ StartRead(e, "header") /\ AddToIncoming(e, temp_in'[e])
    BY <1>2, <1>6, <2>2 DEF ReadBody
  <2>4. temp_in'[e].id = next.id /\ reading'[e] = "header"
    BY <1>1, <2>1, <2>3 DEF StartRead, OlcInv, OlcTypeOK, Messages
  <2>5. Number(c)' = n /\ AsSent(c, Arrivals', sent[c])
    BY <2>1, <2>3, <2>4, PeerAdds
  <2>6. BodyToCome(c)'
    BY <1>3, <2>4 DEF BodyToCome
  <2>7. QED
    BY <1>2, <1>3, <2>2, <2>4, <2>5, <2>6, PeerStepEnds
<1>7. QED
  BY <1>5, <1>6

LEMMA PeerHandlers ==
    ASSUME NEW c \in Clients, PeerStep(c)
    PROVE  OrderOf(c)'
<1>1. ~Answer(ServerEnd(c))
  BY ClientEnds DEF Answer
<1>2. ~ReadGarbled(ServerEnd(c))
  <2> SUFFICES ASSUME ReadGarbled(ServerEnd(c)) PROVE FALSE
    OBVIOUS
  <2>1. sock[ServerEnd(c)] = "open" /\ reading[ServerEnd(c)] = "garbled"
    BY DEF ReadGarbled, Arrived
  <2>2. QED
    BY <2>1 DEF PeerStep, OrderOf, InStep, First
<1>3. QED
  BY <1>1, <1>2, PeerWrites, PeerChecks, PeerReadsMessages DEF PeerStep, Handler

-----------------------------------------------------------------------------
\* Steps that add nothing to what reached the server.
LEMMA Quiet ==
    ASSUME NEW c \in Clients, OrderOf(c), UNCHANGED handled, queue_in'[Server] = queue_in[Server],
           ClientPart(c)' = ClientPart(c), ServerPart(c)' = ServerPart(c),
           wire'[ClientEnd(c)] = wire[ClientEnd(c)]
    PROVE  OrderOf(c)'
BY NoArrival, Untouched DEF OrderOf

\* A step of another client, or another connection accepted.
LEMMA OtherSteps ==
    ASSUME OlcInv, NEW c \in Clients, NEW d \in Clients, c # d, OrderOf(c),
           \/ Connect(d) \/ Connected(d) \/ UserSend(d) \/ UserReceive(d) \/ Disconnect(d)
           \/ Destroyed(d) \/ Accept(d)
    PROVE  OrderOf(c)'
<1>1. /\ ServerEnd(c) \in Ends \ {ServerEnd(d), ClientEnd(d)} /\ d # Server
      /\ ClientEnd(c) \in Ends \ {ServerEnd(d), ClientEnd(d)}
  BY ClientEnds, OtherEnds
<1> USE <1>1 DEF ClientPart, ServerPart, OlcInv, OlcTypeOK
<1>2. CASE Connect(d) \/ Connected(d)
  BY <1>2, Quiet DEF Connect, Connected, Refused, StartRead, Close
<1>3. CASE UserSend(d)
  BY <1>3, Quiet DEF UserSend, Post
<1>4. CASE UserReceive(d)
  BY <1>4, Quiet DEF UserReceive
<1>5. CASE Disconnect(d)
  BY <1>5, Quiet DEF Disconnect, Post
<1>6. CASE Destroyed(d)
  BY <1>6, Quiet DEF Destroyed, StartRead, Close
<1>7. CASE Accept(d)
  BY <1>7, Quiet DEF Accept, StartRead
<1>8. QED
  BY <1>2, <1>3, <1>4, <1>5, <1>6, <1>7

\* Enough to show of a step of c that sends nothing.
LEMMA ClientStepEnds ==
    ASSUME NEW c \in Clients, OrderOf(c), UNCHANGED handled, queue_in'[Server] = queue_in[Server],
           ServerPart(c)' = ServerPart(c), wire'[ClientEnd(c)] = wire[ClientEnd(c)],
           sent'[c] = sent[c], queue_out'[ClientEnd(c)] = queue_out[ClientEnd(c)],
           Connecting(c)',
           \A what, n : Writes(c, what, n) => Writes(c, what, n)'
    PROVE  OrderOf(c)'
<1>1. Arrivals' = Arrivals /\ Number(c)' = Number(c)
  BY NoArrival
<1>2. First(c)' = First(c) /\ BodyToCome(c)' = BodyToCome(c)
      /\ sock'[ServerEnd(c)] = sock[ServerEnd(c)]
  BY <1>1 DEF ServerPart, First, BodyToCome
<1>3. Joined(c) => Joined(c)'
  <2> SUFFICES ASSUME NEW what \in {"validation", "header", "body"}, NEW n \in Nat,
                      Leads(wire[ClientEnd(c)], sent[c], First(c), Number(c), what, n),
                      Writes(c, what, n)
               PROVE  Joined(c)'
    BY DEF Joined
  <2>1. Leads(wire'[ClientEnd(c)], sent'[c], First(c)', Number(c)', what, n)
    BY <1>1, <1>2
  <2>2. QED
    BY <2>1 DEF Joined
<1>4. InStep(c)'
  BY <1>2, <1>3 DEF OrderOf, InStep
<1>5. QED
  BY <1>1, <1>4 DEF OrderOf

\* The connection is made, or the client leaves.
LEMMA OwnUserSteps ==
    ASSUME OlcInv, NEW c \in Clients, OrderOf(c),
           Connect(c) \/ Connected(c) \/ UserReceive(c) \/ Disconnect(c) \/ Destroyed(c)
    PROVE  OrderOf(c)'
<1> DEFINE e == ClientEnd(c)
<1>1. /\ e \in Ends /\ ServerEnd(c) \in Ends \ {e} /\ c # Server /\ Connecting(c)
      /\ queue_out[e] = <<>>
  BY ClientEnds DEF OrderOf
<1>0. CASE Connected(c) /\ Refused(c)
  <2>1. /\ UNCHANGED <<handled, queue_out, sent, posted, reading, writes>>
        /\ queue_in'[Server] = queue_in[Server] /\ sock'[ServerEnd(c)] = "closed"
        /\ sock'[e] = sock[e] /\ client'[c] = "running"
    BY <1>0, <1>1 DEF Connected, Refused, StartRead, Close, OlcInv, OlcTypeOK
  <2>2. Arrivals' = Arrivals /\ InStep(c)' /\ Connecting(c)'
    BY <2>1, NoArrival DEF InStep, Connecting
  <2>3. QED
    BY <1>1, <2>1, <2>2 DEF OrderOf
<1> SUFFICES ASSUME ~(Connected(c) /\ Refused(c)) PROVE OrderOf(c)'
  BY <1>0
<1>2. /\ UNCHANGED <<handled, wire, queue_out, sent, temp_out>>
      /\ queue_in'[Server] = queue_in[Server] /\ ServerPart(c)' = ServerPart(c)
  BY <1>1 DEF Connect, Connected, UserReceive, Disconnect, Destroyed, StartRead, Close, ServerPart,
     OlcInv, OlcTypeOK
<1>3. CASE Connect(c)
  <2>1. client[c] = "new" /\ client'[c] = "connecting" /\ sock'[e] = "open" /\ sock[e] = "new"
        /\ UNCHANGED <<reading, writes, posted>>
    BY <1>1, <1>3 DEF Connect, Connecting, OlcInv, OlcTypeOK
  <2>2. Connecting(c)'
    BY <1>1, <2>1 DEF Connecting
  <2>3. ASSUME NEW what, NEW n, Writes(c, what, n)
        PROVE  Writes(c, what, n)'
    BY <1>2, <2>1, <2>3 DEF Writes, Unanswered, Failing, Answered, Talking, Idle, Sending, HeaderOut,
       BodyOut, Newest, Outstanding
  <2>4. QED
    BY <1>2, <2>2, <2>3, ClientStepEnds
<1>4. CASE Connected(c)
  <2>1. /\ client[c] = "connecting" /\ client'[c] = "running" /\ UNCHANGED <<writes, posted>>
        /\ sock'[e] = "closed" \/ (reading'[e] = "validation" /\ UNCHANGED sock)
    BY <1>1, <1>4 DEF Connected, StartRead, Close, OlcInv, OlcTypeOK
  <2>2. Connecting(c)'
    BY <2>1 DEF Connecting
  <2>3. reading[e] = "none" /\ writes[e] = <<>>
    BY <1>1, <2>1 DEF Connecting
  <2>4. ASSUME NEW what, NEW n, Writes(c, what, n)
        PROVE  Writes(c, what, n)'
    <3>1. CASE sock'[e] = "closed"
      BY <3>1 DEF Writes
    <3>2. CASE reading'[e] = "validation" /\ UNCHANGED sock
      <4>1. sock[e] = "closed" \/ Unanswered(c, what, n)
        BY <2>3, <2>4 DEF Writes, Failing, Answered, Talking, Outstanding
      <4>2. Unanswered(c, what, n) => Unanswered(c, what, n)'
        BY <1>2, <2>1, <3>2 DEF Unanswered, OnlyClosing
      <4>3. QED
        BY <3>2, <4>1, <4>2 DEF Writes
    <3>3. QED
      BY <2>1, <3>1, <3>2
  <2>5. QED
    BY <1>2, <2>2, <2>4, ClientStepEnds
<1>5. CASE UserReceive(c)
  <2>1. ClientPart(c)' = ClientPart(c)
    BY <1>5 DEF UserReceive, ClientPart
  <2>2. QED
    BY <1>2, <2>1, Quiet
<1>6. CASE Disconnect(c)
  <2>1. /\ client'[c] = "leaving" /\ UNCHANGED <<sock, reading, writes>>
        /\ posted[e] \in Seq(Messages)
        /\ posted'[e] \in {posted[e], Append(posted[e], Closing)}
    BY <1>1, <1>6 DEF Disconnect, Post, OlcInv, OlcTypeOK
  <2>2. Connecting(c)'
    BY <2>1 DEF Connecting
  <2>3. OnlyClosing(posted[e]) => OnlyClosing(posted'[e])
    BY <2>1, ClosingToo
  <2>4. posted[e] # <<>> /\ OnlyClosing(Tail(posted[e])) =>
            /\ posted'[e] # <<>> /\ Head(posted'[e]) = Head(posted[e])
            /\ OnlyClosing(Tail(posted'[e]))
    BY <2>1, ClosingToo
  <2>5. ASSUME NEW what, NEW n, Writes(c, what, n)
        PROVE  Writes(c, what, n)'
    BY <1>2, <2>1, <2>3, <2>4, <2>5 DEF Writes, Unanswered, Failing, Answered, Talking, Idle,
       Sending, HeaderOut, BodyOut, Newest, Outstanding
  <2>6. QED
    BY <1>2, <2>2, <2>5, ClientStepEnds
<1>7. CASE Destroyed(c)
  <2>1. sock'[e] = "closed" /\ client'[c] = "gone"
    BY <1>1, <1>7 DEF Destroyed, Close, OlcInv, OlcTypeOK
  <2>2. Connecting(c)'
    BY <2>1 DEF Connecting
  <2>3. \A what, n : Writes(c, what, n)'
    BY <2>1 DEF Writes
  <2>4. QED
    BY <1>2, <2>2, <2>3, ClientStepEnds
<1>8. QED
  BY <1>3, <1>4, <1>5, <1>6, <1>7

\* A patient user sends: the last message is through.
LEMMA OwnUserSend ==
    ASSUME OlcInv, NEW c \in Clients, OrderOf(c), Patient, UserSend(c)
    PROVE  OrderOf(c)'
<1> DEFINE e == ClientEnd(c)
<1>1. e \in Ends /\ ServerEnd(c) \in Ends \ {e} /\ Connecting(c) /\ queue_out[e] = <<>>
  BY ClientEnds DEF OrderOf
<1>2. PICK m \in {Message("Ping", Len(sent[c]) + 1), Message("All", NoBody)} :
          Post(e, m) /\ sent' = [sent EXCEPT ![c] = Append(@, m)]
  BY DEF UserSend
<1>3. /\ Through(c) /\ sock[e] = "open" /\ sent[c] \in Seq(Messages)
      /\ UNCHANGED <<sock, reading, writes, wire, queue_out, temp_out, temp_in, queue_in, handled,
                     client>>
  BY DEF UserSend, IsConnected, OlcInv, OlcTypeOK
<1>4. m \in Messages
  <2>1. Len(sent[c]) + 1 \in 1..MaxSends
    BY <1>3, NetworkingConstants DEF UserSend
  <2>2. QED
    BY <1>2, <2>1 DEF Messages, Bodies, Message, Ids
<1>5. reading[e] = "header" /\ posted[e] = <<>> /\ writes[e] = <<>>
  BY <1>3 DEF Through
<1>6. sent'[c] = Append(sent[c], m) /\ posted'[e] = <<m>>
  BY <1>1, <1>2, <1>5, FirstOfAll DEF Post, OlcInv, OlcTypeOK
<1>7. Arrivals' = Arrivals /\ Number(c)' = Number(c) /\ Arrivals \in Seq(OwnedMessages)
      /\ Number(c) \in Nat /\ wire[e] \in Seq(Pieces)
  BY <1>3, NoArrival, ArrivalTypes
<1>8. AsSent(c, Arrivals, sent[c])'
  <2>1. AsSent(c, Arrivals, Append(sent[c], m))
    BY <1>3, <1>4, <1>7, LongerOrder DEF OrderOf
  <2>2. QED
    BY <1>6, <1>7, <2>1
<1>9. InStep(c)'
  <2> SUFFICES ASSUME sock[ServerEnd(c)] # "closed"
               PROVE  Joined(c)' /\ First(c)' \in {"validation", "header", "body"} /\ BodyToCome(c)'
    BY <1>3 DEF InStep
  <2>1. First(c)' = First(c) /\ First(c) \in {"validation", "header", "body"} /\ BodyToCome(c)
    BY <1>3 DEF First, OrderOf, InStep
  <2>2. BodyToCome(c)'
    BY <1>3, <1>4, <1>6, <1>7, <2>1 DEF BodyToCome
  <2>3. PICK what \in {"validation", "header", "body"}, n \in Nat :
              /\ Leads(wire[e], sent[c], First(c), Number(c), what, n)
              /\ Writes(c, what, n)
    BY Before
  <2>4. what = "header" /\ n = Len(sent[c])
    BY <1>3, <1>5, <2>3 DEF Writes, Unanswered, Failing, Answered, Talking, Idle, Sending, HeaderOut,
       BodyOut, Outstanding
  <2>5. Leads(wire'[e], sent'[c], First(c)', Number(c)', what, n)
    BY <1>3, <1>4, <1>6, <1>7, <2>1, <2>3, LongerStream
  <2>6. Sending(c, what, n)'
    <3>1. /\ Len(sent'[c]) = Len(sent[c]) + 1 /\ sent'[c][Len(sent'[c])] = m /\ sent'[c] # <<>>
      BY <1>3, <1>4, <1>6
    <3>2. posted'[e] # <<>> /\ Head(posted'[e]) = m /\ Tail(posted'[e]) = <<>>
      BY <1>6
    <3>3. OnlyClosing(Tail(posted[e]))'
      <4>1. 1..Len(Tail(posted'[e])) = {}
        BY <3>2
      <4>2. QED
        BY <4>1 DEF OnlyClosing
    <3>4. QED
      BY <1>3, <1>5, <2>4, <3>1, <3>2, <3>3 DEF Sending, Newest
  <2>7. Writes(c, what, n)'
    BY <1>3, <1>5, <2>6 DEF Writes, Talking
  <2>8. QED
    BY <2>1, <2>2, <2>5, <2>7 DEF Joined
<1>10. Connecting(c)'
  BY <1>1, <1>3, <1>5 DEF Connecting
<1>11. QED
  BY <1>1, <1>3, <1>8, <1>9, <1>10 DEF OrderOf

\* c's connection is accepted.
LEMMA OwnAccept ==
    ASSUME OlcInv, NEW c \in Clients, OrderOf(c), Accept(c)
    PROVE  OrderOf(c)'
<1> DEFINE e == ServerEnd(c)
<1>1. e \in Ends /\ ClientEnd(c) \in Ends \ {e}
  BY ClientEnds
<1>2. /\ sock[e] = "new" /\ sock'[e] = "open" /\ reading'[e] = "validation"
      /\ UNCHANGED <<queue_in, handled, sent, queue_out>>
      /\ wire'[ClientEnd(c)] = wire[ClientEnd(c)] /\ ClientPart(c)' = ClientPart(c)
  BY <1>1 DEF Accept, StartRead, ClientPart, OlcInv, OlcTypeOK
<1>3. Arrivals' = Arrivals /\ Number(c)' = Number(c)
  BY <1>2, NoArrival
<1>4. First(c) = "validation" /\ First(c)' = "validation"
  BY <1>2 DEF First
<1>5. Joined(c)'
  <2>1. PICK what \in {"validation", "header", "body"}, n \in Nat :
              /\ Leads(wire[ClientEnd(c)], sent[c], First(c), Number(c), what, n)
              /\ Writes(c, what, n)
    BY <1>2, Before
  <2>2. Writes(c, what, n)'
    BY <1>2, <2>1, WritesKept
  <2>3. Leads(wire'[ClientEnd(c)], sent'[c], First(c)', Number(c)', what, n)
    BY <1>2, <1>3, <1>4, <2>1
  <2>4. QED
    BY <2>2, <2>3 DEF Joined
<1>6. InStep(c)' /\ Connecting(c)'
  BY <1>2, <1>4, <1>5 DEF InStep, BodyToCome, OrderOf, Connecting, ClientPart
<1>7. QED
  BY <1>2, <1>3, <1>6 DEF OrderOf

LEMMA MovedOver ==
    ASSUME NEW S, NEW s \in Seq(S), NEW q \in Seq(S), q # <<>>
    PROVE  Append(s, Head(q)) \o Tail(q) = s \o q
<1> DEFINE one == Append(s, Head(q))
           left == one \o Tail(q)
           right == s \o q
<1>1. /\ Len(s) \in Nat /\ Len(q) \in Nat /\ Len(q) >= 1 /\ Head(q) = q[1] /\ Head(q) \in S
      /\ Tail(q) \in Seq(S) /\ Len(Tail(q)) = Len(q) - 1
      /\ \A i \in 1..(Len(q) - 1) : Tail(q)[i] = q[i + 1]
  OBVIOUS
<1>2. /\ one \in Seq(S) /\ Len(one) = Len(s) + 1 /\ one[Len(s) + 1] = q[1]
      /\ \A i \in 1..Len(s) : one[i] = s[i]
  BY <1>1
<1> HIDE DEF one
<1>3. /\ left \in Seq(S) /\ right \in Seq(S) /\ Len(left) = Len(right)
      /\ Len(left) = Len(s) + Len(q)
  BY <1>1, <1>2
<1>4. ASSUME NEW i \in 1..Len(left) PROVE left[i] = right[i]
  <2>1. CASE i \in 1..Len(s)
    BY <1>1, <1>2, <2>1
  <2>2. CASE i = Len(s) + 1
    BY <1>1, <1>2, <2>2
  <2>3. CASE i \in (Len(s) + 2)..(Len(s) + Len(q))
    <3>1. left[i] = Tail(q)[i - (Len(s) + 1)]
      BY <1>1, <1>2, <2>3
    <3>2. i - (Len(s) + 1) \in 1..(Len(q) - 1) /\ right[i] = q[i - Len(s)]
      BY <1>1, <2>3
    <3>3. QED
      BY <1>1, <3>1, <3>2
  <2>4. QED
    BY <1>1, <1>3, <2>1, <2>2, <2>3
<1> HIDE DEF left, right
<1>5. left = right
  BY <1>3, <1>4, SeqEqual
<1>6. QED
  BY <1>5 DEF left, right, one

\* The server's main thread: a message moves from the queue to those taken, and
\* what it answers is posted on the server's ends.
LEMMA MainThread ==
    ASSUME OlcInv, NEW c \in Clients, OrderOf(c), PopFront \/ OnMessage
    PROVE  OrderOf(c)'
<1>1. /\ ClientEnd(c) \in Ends /\ ClientEnd(c)[2] = "client"
      /\ \A d : ServerEnd(d) # ClientEnd(c)
  BY ClientEnds DEF ServerEnd, ClientEnd
<1>2. CASE PopFront
  <2>1. /\ queue_in[Server] # <<>> /\ handled' = Append(handled, Head(queue_in[Server]))
        /\ queue_in'[Server] = Tail(queue_in[Server])
        /\ ClientPart(c)' = ClientPart(c) /\ ServerPart(c)' = ServerPart(c)
        /\ UNCHANGED <<wire, sent>>
    BY <1>2 DEF PopFront, ClientPart, ServerPart, OlcInv, OlcTypeOK
  <2>2. handled \in Seq(OwnedMessages) /\ queue_in[Server] \in Seq(OwnedMessages)
    BY DEF OlcInv, OlcTypeOK
  <2>3. Append(handled, Head(queue_in[Server])) \o Tail(queue_in[Server])
            = handled \o queue_in[Server]
    BY <2>1, <2>2, MovedOver
  <2>4. Arrivals' = Arrivals
    BY <2>1, <2>3 DEF Arrivals
  <2>5. Number(c)' = Number(c)
    BY <2>4 DEF Number
  <2>6. QED
    BY <2>1, <2>4, <2>5, Untouched DEF OrderOf
<1>3. CASE OnMessage
  <2>1. posted'[ClientEnd(c)] = posted[ClientEnd(c)]
    BY <1>1, <1>3, SMTT(30) DEF OnMessage, Bounce, Post, MessageAllClients, OlcInv, OlcTypeOK
  <2>2. QED
    BY <1>3, <2>1, Quiet DEF OnMessage, ClientPart, ServerPart
<1>4. QED
  BY <1>2, <1>3

-----------------------------------------------------------------------------
LEMMA OrderInitial == Init => OrderInv
<1> SUFFICES ASSUME Init, NEW c \in Clients PROVE OrderOf(c)
  BY DEF OrderInv
<1>1. ClientEnd(c) \in Ends /\ ServerEnd(c) \in Ends
  BY ClientEnds
<1>2. Arrivals = <<>> /\ sent[c] = <<>> /\ wire[ClientEnd(c)] = <<>>
  BY <1>1 DEF Init, ConnInit, Arrivals
<1>3. Number(c) = 0
  <2>1. {j \in 1..Len(<<>>) : <<>>[j].remote = c} = {}
    OBVIOUS
  <2>2. QED
    BY <1>2, <2>1, FS_EmptySet DEF Number, CountFrom
<1>4. AsSent(c, Arrivals, sent[c])
  BY <1>2 DEF AsSent
<1>5. First(c) = "validation"
  BY <1>1 DEF First, Init, ConnInit
<1>6. Leads(wire[ClientEnd(c)], sent[c], First(c), Number(c), "validation", 0)
  BY <1>2, <1>3, <1>5, LeadsNowhere
<1>7. Writes(c, "validation", 0)
  BY <1>1, <1>2 DEF Writes, Unanswered, OnlyClosing, Init, ConnInit
<1>8. InStep(c)
  BY <1>5, <1>6, <1>7 DEF InStep, Joined, BodyToCome
<1>9. Connecting(c) /\ queue_out[ClientEnd(c)] = <<>>
  BY <1>1 DEF Connecting, Init, ConnInit
<1>10. QED
  BY <1>4, <1>8, <1>9 DEF OrderOf

LEMMA OrderInductive ==
    ASSUME Patient
    PROVE  OlcInv /\ OrderInv /\ [Next]_vars => OrderInv'
<1> SUFFICES ASSUME OlcInv, OrderInv, [Next]_vars, NEW c \in Clients PROVE OrderOf(c)'
  BY DEF OrderInv
<1>1. OrderOf(c)
  BY DEF OrderInv
<1>2. ASSUME NEW d \in Clients, ClientStep(d) PROVE OrderOf(c)'
  <2>1. CASE ClientHandler(d)
    <3>1. Handler(ClientEnd(d)) /\ UNCHANGED Others
      BY <2>1 DEF ClientHandler, Others
    <3>2. CASE c = d
      BY <1>1, <3>1, <3>2, OwnHandlers DEF OwnStep
    <3>3. CASE c # d
      BY <1>1, <3>1, <3>3, OtherHandlers DEF Others
    <3>4. QED
      BY <3>2, <3>3
  <2>2. QED
    BY <1>1, <1>2, <2>1, OtherSteps, OwnUserSteps, OwnUserSend DEF ClientStep
<1>3. ASSUME NEW d \in Clients, Accept(d) \/ ServerHandler(d) PROVE OrderOf(c)'
  <2>1. CASE ServerHandler(d)
    <3>1. Handler(ServerEnd(d)) /\ UNCHANGED Others
      BY <2>1 DEF ServerHandler, Others
    <3>2. CASE c = d
      BY <1>1, <3>1, <3>2, PeerHandlers DEF PeerStep
    <3>3. CASE c # d
      BY <1>1, <3>1, <3>3, OtherHandlers DEF Others
    <3>4. QED
      BY <3>2, <3>3
  <2>2. QED
    BY <1>1, <1>3, <2>1, OtherSteps, OwnAccept
<1>4. CASE PopFront \/ OnMessage
  BY <1>1, <1>4, MainThread
<1>5. CASE UNCHANGED vars
  BY <1>1, <1>5, Quiet DEF vars, connVars, ClientPart, ServerPart
<1>6. QED
  BY <1>2, <1>3, <1>4, <1>5 DEF Next, ServerStep

\* TakenInOrder: the server takes what a patient user sent in the order it was
\* sent and nothing skipped, for any number of clients and messages, through
\* the posted tasks, the stream and the queue, however the handlers fail and
\* the connections close.
THEOREM InSendingOrder ==
    ASSUME Patient
    PROVE  Spec => []TakenInOrder
<1>1. OlcInv /\ OrderInv => TakenInOrder
  <2> SUFFICES ASSUME OlcInv, OrderInv, NEW c \in Clients, NEW i \in 1..Len(handled),
                      handled[i].remote = c
               PROVE  /\ CountFrom(c, handled, i) <= Len(sent[c])
                      /\ handled[i].msg.id = sent[c][CountFrom(c, handled, i)].id
    BY DEF TakenInOrder, AsSent
  <2>1. handled \in Seq(OwnedMessages) /\ queue_in[Server] \in Seq(OwnedMessages)
    BY DEF OlcInv, OlcTypeOK
  <2>2. i \in Nat /\ i \in 1..Len(Arrivals) /\ \A j \in 1..i : Arrivals[j] = handled[j]
    BY <2>1 DEF Arrivals
  <2>3. CountFrom(c, Arrivals, i) = CountFrom(c, handled, i) /\ Arrivals[i] = handled[i]
    BY <2>2, CountAlike
  <2>4. AsSent(c, Arrivals, sent[c])
    BY DEF OrderInv, OrderOf
  <2>5. QED
    BY <2>2, <2>3, <2>4 DEF AsSent
<1>2. OlcInv /\ OrderInv /\ [Next]_vars => OrderInv'
  BY OrderInductive
<1>3. Spec => []OlcInv
  BY OlcInvariant
<1>4. QED
  BY <1>1, <1>2, <1>3, OrderInitial, PTL DEF Spec
=============================================================================
