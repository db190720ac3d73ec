---------------------------- MODULE OlcConnection ----------------------------
(***************************************************************************)
(* olc::net::connection<T> (net_connection.h): one end of a TCP connection *)
(* between a client and the server, as the completion handlers that run on *)
(* the end's io_context.                                                   *)
(*                                                                         *)
(* A connection has two ends, <<c, "server">> and <<c, "client">>.  Each   *)
(* async operation is two steps: its start, inside the handler that calls  *)
(* it, and its completion handler.  The bytes of a small write enter the   *)
(* socket at the start, so `wire' is what the peer has still to read, cut  *)
(* into the pieces of the protocol: the 8 byte handshake word, the 8 byte  *)
(* message header, the body.                                               *)
(***************************************************************************)
EXTENDS Naturals, Sequences

CONSTANTS Clients,      \* one connection each
          Impostors,    \* the clients that do not know scramble()
          Server,       \* the owner of the server's ends
          NoBody,       \* the empty body
          Junk          \* a body that is not one that was sent

ASSUME OlcConstants ==
    /\ Impostors \subseteq Clients
    /\ Server \notin Clients
    /\ NoBody # Junk

VARIABLES sock,         \* sock[e]: socket_, "new", "open" or "closed"
          reading,      \* reading[e]: the async_read that is outstanding
          writes,       \* writes[e]: the async_writes that are outstanding
          wire,         \* wire[e]: what e wrote and its peer has not read
          queue_out,    \* queue_out[e]: queue_out_
          temp_out,     \* temp_out[e]: msg_temp_out_
          temp_in,      \* temp_in[e]: msg_temp_in_
          posted,       \* posted[e]: the tasks posted to the context
          queue_in,     \* queue_in[o]: queue_in_ of the owner o
          validated     \* the connections on_client_validated was called for

connVars == <<sock, reading, writes, wire, queue_out, temp_out, temp_in, posted,
              queue_in, validated>>

Ends == Clients \X {"server", "client"}
Peer(e) == <<e[1], IF e[2] = "server" THEN "client" ELSE "server">>
OwnerOf(e) == IF e[2] = "server" THEN Server ELSE e[1]
Ids == {"Ping", "All", "Message"}

Message(id, body) == [id |-> id, body |-> body]
NoMessage == Message("none", NoBody)

Closing == Message("close", NoBody)   \* the task of disconnect, among those of send

\* The pieces of the stream.
Word(answer) == <<"word", answer>>
Header(m) == <<"header", m.id, m.body # NoBody>>
Body(m) == <<"body", m.body>>

ConnInit ==
    /\ sock = [e \in Ends |-> "new"]
    /\ reading = [e \in Ends |-> "none"]
    /\ writes = [e \in Ends |-> <<>>]
    /\ wire = [e \in Ends |-> <<>>]
    /\ queue_out = [e \in Ends |-> <<>>]
    /\ temp_out = [e \in Ends |-> NoMessage]
    /\ temp_in = [e \in Ends |-> NoMessage]
    /\ posted = [e \in Ends |-> <<>>]
    /\ queue_in = [o \in Clients \cup {Server} |-> <<>>]
    /\ validated = {}

Close(e) == sock' = [sock EXCEPT ![e] = "closed"]
StartRead(e, what) == reading' = [reading EXCEPT ![e] = what]

-----------------------------------------------------------------------------
\* async_write.  It fails on a socket that is not open, and may fail when the
\* connection is not established yet or the peer has closed.
CanWrite(e) == IF sock[e] # "open" THEN {FALSE}
               ELSE IF sock[Peer(e)] = "open" THEN {TRUE} ELSE BOOLEAN

\* One more write after the outstanding ones `rest'.
StartWrite(e, rest, kind, piece) ==
    \E ok \in CanWrite(e) :
        /\ writes' = [writes EXCEPT ![e] = Append(rest, [kind |-> kind, ok |-> ok])]
        /\ wire' = IF ok /\ sock[Peer(e)] # "closed"
                   THEN [wire EXCEPT ![e] = Append(@, piece)] ELSE wire

\* write_header with queue_out_ = q: pop_front, async_write.
WriteHeader(e, rest, q) ==
    /\ temp_out' = [temp_out EXCEPT ![e] = Head(q)]
    /\ queue_out' = [queue_out EXCEPT ![e] = Tail(q)]
    /\ StartWrite(e, rest, "header", Header(Head(q)))

\* send's task: writing_messages, push_back, write_header.
RunSend(e) ==
    /\ posted[e] # <<>> /\ Head(posted[e]) # Closing
    /\ posted' = [posted EXCEPT ![e] = Tail(@)]
    /\ LET q == Append(queue_out[e], Head(posted[e]))
       IN  IF queue_out[e] = <<>> THEN WriteHeader(e, writes[e], q)
           ELSE /\ queue_out' = [queue_out EXCEPT ![e] = q]
                /\ UNCHANGED <<writes, wire, temp_out>>
    /\ UNCHANGED <<sock, reading, temp_in, queue_in, validated>>

\* disconnect's task.
RunClose(e) ==
    /\ posted[e] # <<>> /\ Head(posted[e]) = Closing
    /\ posted' = [posted EXCEPT ![e] = Tail(@)]
    /\ Close(e)
    /\ UNCHANGED <<reading, writes, wire, queue_out, temp_out, temp_in, queue_in, validated>>

\* The handler of the oldest outstanding write runs, with that result.
Completes(e, kind, ok) == writes[e] # <<>> /\ Head(writes[e]) = [kind |-> kind, ok |-> ok]

\* After a whole message: the next one of queue_out_, if any.
NextMessage(e) ==
    IF queue_out[e] # <<>> THEN WriteHeader(e, Tail(writes[e]), queue_out[e])
    ELSE /\ writes' = [writes EXCEPT ![e] = Tail(@)]
         /\ UNCHANGED <<wire, queue_out, temp_out>>

\* Mutant: the body is never written.
WroteHeaderOnly(e) ==
    /\ Completes(e, "header", TRUE)
    /\ NextMessage(e)
    /\ UNCHANGED <<sock, reading, temp_in, posted, queue_in, validated>>

\* write_header's handler.
WroteHeader(e) ==
    /\ Completes(e, "header", TRUE)
    /\ IF temp_out[e].body # NoBody
       THEN /\ StartWrite(e, Tail(writes[e]), "body", Body(temp_out[e]))
            /\ UNCHANGED <<queue_out, temp_out>>
       ELSE NextMessage(e)
    /\ UNCHANGED <<sock, reading, temp_in, posted, queue_in, validated>>

\* write_body's handler.
WroteBody(e) ==
    /\ Completes(e, "body", TRUE)
    /\ NextMessage(e)
    /\ UNCHANGED <<sock, reading, temp_in, posted, queue_in, validated>>

\* write_validation's handler: a client starts reading messages.
WroteValidation(e) ==
    /\ Completes(e, "word", TRUE)
    /\ writes' = [writes EXCEPT ![e] = Tail(@)]
    /\ IF e[2] = "client" THEN StartRead(e, "header") ELSE UNCHANGED reading
    /\ UNCHANGED <<sock, wire, queue_out, temp_out, temp_in, posted, queue_in, validated>>

\* Any write handler with an error.
WriteFailed(e) ==
    /\ \E kind \in {"word", "header", "body"} : Completes(e, kind, FALSE)
    /\ writes' = [writes EXCEPT ![e] = Tail(@)]
    /\ Close(e)
    /\ UNCHANGED <<reading, wire, queue_out, temp_out, temp_in, posted, queue_in, validated>>

-----------------------------------------------------------------------------
\* async_read: the next piece the peer wrote.
Arrived(e) == IF sock[e] = "open" /\ wire[Peer(e)] # <<>> THEN {Head(wire[Peer(e)])} ELSE {}
Take(e) == wire' = [wire EXCEPT ![Peer(e)] = Tail(@)]

\* Mutants: the remote is left out, as on the client, and push_front.
AddWithoutRemote(e, m) ==
    queue_in' = [queue_in EXCEPT ![OwnerOf(e)] = Append(@, [remote |-> NoBody, msg |-> m])]

AddToFront(e, m) ==
    queue_in' = [queue_in EXCEPT ![OwnerOf(e)] = <<[remote |-> e[1], msg |-> m]>> \o @]

\* add_to_incomming_message_queue, which reads the next header.
AddToIncoming(e, m) ==
    queue_in' = [queue_in EXCEPT ![OwnerOf(e)] = Append(@, [remote |-> e[1], msg |-> m])]

\* read_validation's handler on the server: the answer, or anything else.
CheckAnswer(e) ==
    /\ e[2] = "server" /\ reading[e] = "validation"
    /\ \E piece \in Arrived(e) :
          IF piece = Word("right")
          THEN /\ validated' = validated \cup {e[1]}
               /\ StartRead(e, "header")
               /\ UNCHANGED sock
          ELSE /\ Close(e)
               /\ StartRead(e, "none")
               /\ UNCHANGED validated
    /\ Take(e)
    /\ UNCHANGED <<writes, queue_out, temp_out, temp_in, posted, queue_in>>

\* read_validation's handler on the client: scramble and write it back.
Answer(e) ==
    /\ e[2] = "client" /\ reading[e] = "validation"
    /\ Arrived(e) # {}
    /\ StartRead(e, "none")
    /\ LET word == Word(IF e[1] \in Impostors THEN "wrong" ELSE "right")
       IN \E ok \in CanWrite(e) :
            /\ writes' = [writes EXCEPT ![e] = Append(@, [kind |-> "word", ok |-> ok])]
            /\ wire' = [wire EXCEPT ![Peer(e)] = Tail(@),
                                    ![e] = IF ok THEN Append(@, word) ELSE @]
    /\ UNCHANGED <<sock, queue_out, temp_out, temp_in, posted, queue_in, validated>>

\* read_header's handler.  The body of msg_temp_in_ is resized only when the
\* header announces one.
ReadHeader(e) ==
    /\ reading[e] = "header"
    /\ \E piece \in Arrived(e) :
          IF piece[1] # "header"
          THEN StartRead(e, "garbled") /\ UNCHANGED <<temp_in, queue_in>>
          ELSE /\ temp_in' = [temp_in EXCEPT ![e].id = piece[2]]
               /\ IF piece[3]
                  THEN StartRead(e, "body") /\ UNCHANGED queue_in
                  ELSE AddToIncoming(e, temp_in'[e]) /\ StartRead(e, "header")
    /\ Take(e)
    /\ UNCHANGED <<sock, writes, queue_out, temp_out, posted, validated>>

\* read_body's handler.  Reading something else than a body leaves the reader
\* out of step with the stream.
ReadBody(e) ==
    /\ reading[e] = "body"
    /\ \E piece \in Arrived(e) :
          LET fits == piece[1] = "body"
          IN  /\ temp_in' = [temp_in EXCEPT ![e].body = IF fits THEN piece[2] ELSE Junk]
              /\ StartRead(e, IF fits THEN "header" ELSE "garbled")
    /\ AddToIncoming(e, temp_in'[e])
    /\ Take(e)
    /\ UNCHANGED <<sock, writes, queue_out, temp_out, posted, validated>>

\* Out of step, the bytes are taken for something that was not sent.
ReadGarbled(e) ==
    /\ reading[e] = "garbled"
    /\ Arrived(e) # {}
    /\ AddToIncoming(e, Message("unknown", Junk)) \/ UNCHANGED queue_in
    /\ Take(e)
    /\ UNCHANGED <<sock, reading, writes, queue_out, temp_out, temp_in, posted, validated>>

\* Any read handler with an error: this end was closed, or the peer's.
ReadFailed(e) ==
    /\ reading[e] # "none"
    /\ sock[e] = "closed" \/ sock[Peer(e)] = "closed"
    /\ StartRead(e, "none")
    /\ Close(e)
    /\ UNCHANGED <<writes, wire, queue_out, temp_out, temp_in, posted, queue_in, validated>>

\* One handler of the io_context e runs on.
Handler(e) ==
    \/ RunSend(e) \/ RunClose(e)
    \/ WroteHeader(e) \/ WroteBody(e) \/ WroteValidation(e) \/ WriteFailed(e)
    \/ CheckAnswer(e) \/ Answer(e)
    \/ ReadHeader(e) \/ ReadBody(e) \/ ReadGarbled(e) \/ ReadFailed(e)

-----------------------------------------------------------------------------
\* From the user's thread: send and disconnect post a task.
Post(e, task) == posted' = [posted EXCEPT ![e] = Append(@, task)]
=============================================================================
