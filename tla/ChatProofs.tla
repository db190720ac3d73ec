----------------------------- MODULE ChatProofs -----------------------------
(***************************************************************************)
(* Theorems about the chat, for any clients, lines, windows and number of  *)
(* recent messages.  ChatInv follows a message both ways: the lines of a   *)
(* user through the posted tasks, write_msgs_ and the socket up to         *)
(* ChatRoom::deliver (InTurn), and the conversation through write_msgs_ of *)
(* a session and its socket to the screen of a client (Told).              *)
(***************************************************************************)
EXTENDS Chat, SequenceTheorems, TLAPS

\* recent_msgs is the end of the conversation.
Recent ==
    /\ Len(recent_msgs) = IF Len(said) > MaxRecent THEN MaxRecent ELSE Len(said)
    /\ \A i \in 1..Len(recent_msgs) :
          recent_msgs[i] = said[Len(said) - Len(recent_msgs) + i]

\* A write has a message in front, and a read of a body a header before it.
InFront(e) ==
    /\ writing[e] # "none" => write_msgs[e] # <<>>
    /\ reading[e] = "body" => /\ wire[Peer(e)] # <<>>
                              /\ Head(wire[Peer(e)]) \notin Undecodable

\* A write is in progress while there is something to write.
Writing(c) ==
    /\ c \in participants /\ write_msgs[Session(c)] # <<>> => writing[Session(c)] # "none"
    /\ sock[c] # "closed" /\ write_msgs[Client(c)] # <<>> => writing[Client(c)] # "none"

\* The session of a connection that is not accepted yet.
Fresh(c) ==
    /\ screen[c] = <<>> /\ from[c] = 0 /\ c \notin participants
    /\ wire[Session(c)] = <<>> /\ write_msgs[Session(c)] = <<>>
    /\ writing[Session(c)] = "none" /\ reading[Session(c)] = "none"

Newcomer(c) ==
    /\ c \in backlog \/ sock[c] = "connecting" => Fresh(c)
    /\ sock[c] = "connecting" => c \notin backlog

\* ParticipantsAreHeard, of one client.
Heard(c) == c \in participants /\ Decodable(c) => reading[Session(c)] # "none"

\* q is what follows on the first n elements of t.
Part(q, t, n) == \A i \in 1..Len(q) : q[i] = t[n + i]

\* The conversation up to what c has on its screen, in its socket, in its session.
Shown(c) == from[c] + Len(screen[c])
Sent(c) == Shown(c) + Len(wire[Session(c)])
Queued(c) == Sent(c) + Len(Unsent(Session(c)))

Told(c) ==
    /\ Part(screen[c], said, from[c])
    /\ Part(wire[Session(c)], said, Shown(c))
    /\ Part(Unsent(Session(c)), said, Sent(c))
    /\ Queued(c) <= Len(said)
    /\ c \in participants => Queued(c) = Len(said)

\* All that is on its way was typed by c.
Typed(c) ==
    /\ \A i \in 1..Len(wire[Client(c)]) : wire[Client(c)][i] \in {c} \X (1..lines[c])
    /\ \A i \in 1..Len(write_msgs[Client(c)]) : write_msgs[Client(c)][i] \in {c} \X (1..lines[c])
    /\ \A i \in 1..Len(posted[c]) : posted[c][i] \in ({c} \X (1..lines[c])) \cup {CloseTask}

\* All the lines c could type.
LinesOf(c) == [i \in Nat |-> <<c, i>>]

\* What c writes can still reach the room: its session exists, or will.
Reaches(c) == sock[c] = "connecting" \/ c \in backlog \/ Alive(c)

\* The first n lines of c are said, and those on their way follow on them.
Spoken(c, n) ==
    /\ \A i \in 1..Len(said) : said[i][1] = c => said[i][2] <= n
    /\ \A k \in 1..n : \E i \in 1..Len(said) : said[i] = <<c, k>>
    /\ \A k \in 1..n : <<c, k>> \notin Undecodable

\* The tasks posted after the first u lines.
PostedFrom(c, u) ==
    /\ \A i \in 1..Len(posted[c]) : posted[c][i] # CloseTask => posted[c][i] = <<c, u + i>>
    /\ \A i \in 1..Len(posted[c]) : posted[c][i] = CloseTask => c \in eof /\ i = Len(posted[c])
    /\ c \notin eof => lines[c] = u + Len(posted[c])

Pipeline(c, w) ==
    /\ Part(Unsent(Client(c)), LinesOf(c), w)
    /\ PostedFrom(c, w + Len(Unsent(Client(c))))

InTurn(c) ==
    \E n \in 0..lines[c] :
        /\ Spoken(c, n)
        /\ Part(wire[Client(c)], LinesOf(c), n)
        /\ Reaches(c) => Pipeline(c, n + Len(wire[Client(c)]))

ClientInv(c) ==
    /\ InFront(Session(c)) /\ InFront(Client(c)) /\ Writing(c) /\ Newcomer(c) /\ Heard(c)
    /\ sock[c] = "open" => Told(c)
    /\ Typed(c) /\ InTurn(c)

ChatInv == ChatTypeOK /\ Recent /\ SpokenInOrder /\ \A c \in Clients : ClientInv(c)

-----------------------------------------------------------------------------
\* The two ends of a connection.
LEMMA EndFacts ==
    /\ \A c \in Clients : /\ Session(c) \in Ends /\ Client(c) \in Ends
                          /\ Peer(Session(c)) = Client(c) /\ Peer(Client(c)) = Session(c)
    /\ \A c, d \in Clients : /\ Session(c) # Client(d)
                             /\ c # d => Session(c) # Session(d) /\ Client(c) # Client(d)
BY DEF Ends, Session, Client, Peer

LEMMA OpenFacts ==
    ASSUME NEW c \in Clients
    PROVE  /\ Open(Session(c)) <=> c \in backlog \/ Alive(c)
           /\ Open(Client(c)) <=> sock[c] = "open"
BY DEF Open, Session, Client

\* The front of a queue, and its back.
LEMMA Taken ==
    ASSUME NEW S, NEW q \in Seq(S), q # <<>>
    PROVE  /\ Head(q) \in S /\ Head(q) = q[1] /\ Len(q) \in Nat /\ Len(q) >= 1
           /\ Tail(q) \in Seq(S) /\ Len(Tail(q)) = Len(q) - 1
           /\ \A i \in 1..Len(Tail(q)) : Tail(q)[i] = q[i + 1]
BY HeadTailProperties, EmptySeq

LEMMA Added ==
    ASSUME NEW S, NEW q \in Seq(S), NEW x \in S
    PROVE  /\ Append(q, x) \in Seq(S) /\ Append(q, x) # <<>>
           /\ Len(q) \in Nat /\ Len(Append(q, x)) = Len(q) + 1
           /\ \A i \in 1..Len(q) : Append(q, x)[i] = q[i]
           /\ Append(q, x)[Len(q) + 1] = x
           /\ \A i \in 1..Len(Append(q, x)) : i \in 1..Len(q) \/ i = Len(q) + 1
           /\ q # <<>> => Head(Append(q, x)) = Head(q)
<1>1. /\ Append(q, x) \in Seq(S) /\ Append(q, x) # <<>>
      /\ Len(Append(q, x)) = Len(q) + 1
      /\ \A i \in 1..Len(q) : Append(q, x)[i] = q[i]
      /\ Append(q, x)[Len(q) + 1] = x
  BY AppendProperties
<1>2. Len(q) \in Nat
  BY LenProperties
<1>3. q # <<>> => Head(Append(q, x)) = Head(q)
  BY HeadTailAppend
<1>4. QED
  BY <1>1, <1>2, <1>3

\* Part, when the front leaves and when something is added at the back.
LEMMA PartTail ==
    ASSUME NEW S, NEW q \in Seq(S), q # <<>>, NEW t, NEW n \in Nat, Part(q, t, n)
    PROVE  Head(q) = t[n + 1] /\ Part(Tail(q), t, n + 1)
<1>1. /\ Head(q) = q[1] /\ Len(q) \in Nat /\ Len(q) >= 1 /\ Len(Tail(q)) = Len(q) - 1
      /\ \A i \in 1..Len(Tail(q)) : Tail(q)[i] = q[i + 1]
  BY Taken
<1>2. \A i \in 1..Len(Tail(q)) : i + 1 \in 1..Len(q) /\ n + (i + 1) = n + 1 + i
  BY <1>1
<1>3. Head(q) = t[n + 1]
  BY <1>1 DEF Part
<1>4. QED
  BY <1>1, <1>2, <1>3 DEF Part

LEMMA PartAdded ==
    ASSUME NEW S, NEW q \in Seq(S), NEW x \in S, NEW t, NEW n \in Nat, Part(q, t, n),
           x = t[n + Len(q) + 1]
    PROVE  Part(Append(q, x), t, n)
<1>1. /\ Len(q) \in Nat /\ \A i \in 1..Len(q) : Append(q, x)[i] = q[i]
      /\ Append(q, x)[Len(q) + 1] = x
      /\ \A i \in 1..Len(Append(q, x)) : i \in 1..Len(q) \/ i = Len(q) + 1
  BY Added
<1>2. n + (Len(q) + 1) = n + Len(q) + 1
  BY <1>1
<1>3. QED
  BY <1>1, <1>2 DEF Part

\* Unsent is a queue of messages; how the handlers of a write change it.
LEMMA UnsentType ==
    ASSUME ChatTypeOK, NEW e \in Ends, InFront(e)
    PROVE  /\ Unsent(e) \in Seq(Messages) /\ Len(Unsent(e)) \in Nat
           /\ write_msgs[e] \in Seq(Messages) /\ wire[e] \in Seq(Messages)
           /\ Len(wire[e]) \in Nat /\ Len(write_msgs[e]) \in Nat
<1>1. write_msgs[e] \in Seq(Messages) /\ wire[e] \in Seq(Messages)
  BY DEF ChatTypeOK
<1>2. Unsent(e) \in Seq(Messages)
  BY <1>1, Taken DEF Unsent, InFront
<1>3. QED
  BY <1>1, <1>2, LenProperties

LEMMA UnsentTransferred ==
    ASSUME ChatTypeOK, NEW e \in Ends, InFront(e), writing[e] = "sending",
           writing'[e] = "sent", write_msgs'[e] = write_msgs[e]
    PROVE  Unsent(e) = write_msgs[e] /\ Unsent(e) # <<>> /\ Unsent(e)' = Tail(Unsent(e))
BY DEF Unsent, InFront

LEMMA UnsentWritten ==
    ASSUME NEW e, writing[e] = "sent", writing'[e] # "sent",
           write_msgs'[e] = Tail(write_msgs[e])
    PROVE  Unsent(e)' = Unsent(e)
BY DEF Unsent

LEMMA UnsentQueued ==
    ASSUME ChatTypeOK, NEW e \in Ends, InFront(e), NEW m \in Messages,
           write_msgs'[e] = Append(write_msgs[e], m),
           writing'[e] = IF write_msgs[e] = <<>> THEN "sending" ELSE writing[e]
    PROVE  Unsent(e)' = Append(Unsent(e), m)
<1>1. write_msgs[e] \in Seq(Messages)
  BY DEF ChatTypeOK
<1>2. CASE write_msgs[e] = <<>>
  <2>1. writing[e] = "none" /\ writing'[e] = "sending"
    BY <1>2 DEF InFront
  <2>2. QED
    BY <2>1 DEF Unsent
<1>3. CASE write_msgs[e] # <<>>
  <2>1. Tail(Append(write_msgs[e], m)) = Append(Tail(write_msgs[e]), m)
    BY <1>1, <1>3, HeadTailAppend
  <2>2. QED
    BY <1>3, <2>1 DEF Unsent
<1>4. QED
  BY <1>2, <1>3

-----------------------------------------------------------------------------
\* What leaves each part of the invariant alone: the conversation as it comes
\* down to c, and the lines of c as they go up.
LEMMA ToldKept ==
    ASSUME NEW c \in Clients, Told(c), said' = said,
           from'[c] = from[c], screen'[c] = screen[c],
           wire'[Session(c)] = wire[Session(c)], Unsent(Session(c))' = Unsent(Session(c)),
           c \in participants' => c \in participants
    PROVE  Told(c)'
BY DEF Told, Queued, Sent, Shown, Part

LEMMA InTurnKept ==
    ASSUME NEW c \in Clients, InTurn(c), said' = said,
           wire'[Client(c)] = wire[Client(c)], Unsent(Client(c))' = Unsent(Client(c)),
           posted'[c] = posted[c], lines'[c] = lines[c], c \in eof' <=> c \in eof,
           Reaches(c)' => Reaches(c)
    PROVE  InTurn(c)'
<1>1. PICK n \in 0..lines[c] :
          /\ Spoken(c, n) /\ Part(wire[Client(c)], LinesOf(c), n)
          /\ Reaches(c) => Pipeline(c, n + Len(wire[Client(c)]))
  BY DEF InTurn
<1>2. Spoken(c, n)'
  BY <1>1 DEF Spoken
<1>3. Reaches(c)' => Pipeline(c, n + Len(wire[Client(c)]))'
  BY <1>1 DEF Pipeline, PostedFrom
<1>4. QED
  BY <1>1, <1>2, <1>3 DEF InTurn, Part

LEMMA TypedKept ==
    ASSUME NEW c \in Clients, Typed(c), lines'[c] = lines[c], posted'[c] = posted[c],
           wire'[Client(c)] = wire[Client(c)], write_msgs'[Client(c)] = write_msgs[Client(c)]
    PROVE  Typed(c)'
BY DEF Typed

\* The state of c, its connection and its session are left alone.
Kept(c) ==
    /\ sock'[c] = sock[c] /\ posted'[c] = posted[c] /\ lines'[c] = lines[c]
    /\ from'[c] = from[c] /\ screen'[c] = screen[c]
    /\ c \in eof' <=> c \in eof
    /\ c \in backlog' <=> c \in backlog
    /\ c \in participants' <=> c \in participants
    /\ \A e \in {Session(c), Client(c)} :
          /\ write_msgs'[e] = write_msgs[e] /\ writing'[e] = writing[e]
          /\ reading'[e] = reading[e] /\ wire'[e] = wire[e]

LEMMA ClientKept ==
    ASSUME NEW c \in Clients, ClientInv(c), Kept(c), said' = said
    PROVE  ClientInv(c)'
<1>1. InFront(Session(c))' /\ InFront(Client(c))'
  BY EndFacts DEF ClientInv, Kept, InFront
<1>2. Writing(c)' /\ Newcomer(c)' /\ Heard(c)'
  BY DEF ClientInv, Kept, Writing, Newcomer, Fresh, Heard, Decodable
<1>3. Unsent(Session(c))' = Unsent(Session(c)) /\ Unsent(Client(c))' = Unsent(Client(c))
  BY DEF Kept, Unsent
<1>4. sock'[c] = "open" => Told(c)'
  BY <1>3, ToldKept DEF ClientInv, Kept
<1>5. Reaches(c)' => Reaches(c)
  BY DEF Kept, Reaches, Alive
<1>6. Typed(c)' /\ InTurn(c)'
  BY <1>3, <1>5, TypedKept, InTurnKept DEF ClientInv, Kept
<1>7. QED
  BY <1>1, <1>2, <1>4, <1>6 DEF ClientInv

\* More lines may have been typed.
LEMMA OrderKept ==
    ASSUME SpokenInOrder, said' = said,
           \A i \in 1..Len(said) : said[i][2] <= lines'[said[i][1]]
    PROVE  SpokenInOrder'
<1>1. \A i \in 1..Len(said) : InPlace(i)'
  BY DEF SpokenInOrder, InPlace
<1>2. QED
  BY <1>1 DEF SpokenInOrder

\* A step of c that says nothing.
LEMMA OneStep ==
    ASSUME ChatInv, NEW c \in Clients, ChatTypeOK', ClientInv(c)',
           UNCHANGED <<said, recent_msgs>>, lines'[c] \in {lines[c], lines[c] + 1},
           \A d \in Clients \ {c} : Kept(d)
    PROVE  ChatInv'
<1>1. Recent'
  BY DEF ChatInv, Recent
<1>2. SpokenInOrder'
  <2>1. \A d \in Clients : lines[d] \in Nat /\ lines'[d] \in Nat /\ lines'[d] >= lines[d]
    <3>1. lines \in [Clients -> 0..MaxLines] /\ lines' \in [Clients -> 0..MaxLines]
      BY DEF ChatInv, ChatTypeOK
    <3>2. \A d \in Clients \ {c} : lines'[d] = lines[d]
      BY DEF Kept
    <3>3. \A d \in Clients : lines[d] \in Nat /\ lines'[d] \in Nat
      BY <3>1, ChatConstants
    <3>4. lines'[c] >= lines[c]
      BY <3>3
    <3>5. ASSUME NEW d \in Clients PROVE lines'[d] >= lines[d]
      <4>1. CASE d = c
        BY <3>4, <4>1
      <4>2. CASE d # c
        BY <3>2, <3>3, <4>2
      <4>3. QED
        BY <4>1, <4>2
    <3>6. QED
      BY <3>3, <3>5
  <2>2. \A i \in 1..Len(said) : said[i][1] \in Clients /\ said[i][2] \in Nat
    <3>1. \A i \in 1..Len(said) : said[i] \in Messages
      BY DEF ChatInv, ChatTypeOK
    <3>2. QED
      BY <3>1, ChatConstants DEF Messages
  <2>3. QED
    <3>1. \A i \in 1..Len(said) : said[i][2] <= lines'[said[i][1]]
      <4>1. \A i \in 1..Len(said) : said[i][2] <= lines[said[i][1]]
        BY DEF ChatInv, SpokenInOrder
      <4>2. QED
        BY <2>1, <2>2, <4>1
    <3>2. QED
      BY <3>1, OrderKept DEF ChatInv
<1>3. \A d \in Clients : ClientInv(d)'
  BY ClientKept DEF ChatInv
<1>4. QED
  BY <1>1, <1>2, <1>3 DEF ChatInv

-----------------------------------------------------------------------------
\* The steps of an async_write, at the session and at the client.
LEMMA TransferDown ==
    ASSUME ChatInv, NEW c \in Clients, Transfer(Session(c))
    PROVE  ChatInv'
<1> DEFINE s == Session(c)
           k == Client(c)
<1> USE DEF clientVars, roomVars, endVars
<1>1. /\ s \in Ends /\ k \in Ends /\ s # k /\ Peer(s) = k /\ Peer(k) = s
      /\ ClientInv(c) /\ ChatTypeOK
  BY EndFacts DEF ChatInv
<1>2. /\ writing[s] = "sending" /\ writing' = [writing EXCEPT ![s] = "sent"]
      /\ wire' = IF sock[c] = "open" THEN [wire EXCEPT ![s] = Append(@, Head(write_msgs[s]))]
                 ELSE wire
      /\ UNCHANGED <<sock, posted, running, lines, eof, backlog, participants, recent_msgs,
                     said, from, write_msgs, reading, screen>>
  BY OpenFacts, <1>1 DEF Transfer
<1>3. /\ Unsent(s) = write_msgs[s] /\ Unsent(s) # <<>> /\ Unsent(s)' = Tail(Unsent(s))
      /\ Unsent(s) \in Seq(Messages) /\ wire[s] \in Seq(Messages)
  <2>1. writing'[s] = "sent" /\ InFront(s)
    BY <1>1, <1>2 DEF ChatTypeOK, ClientInv
  <2>2. QED
    BY <1>1, <1>2, <2>1, UnsentTransferred, UnsentType
<1>4. Head(Unsent(s)) \in Messages /\ Append(wire[s], Head(Unsent(s))) \in Seq(Messages)
  BY <1>3, Taken, Added
<1>5. ChatTypeOK'
  BY <1>1, <1>2, <1>3, <1>4 DEF ChatTypeOK, EndStates
<1>6. \A d \in Clients \ {c} : Kept(d)
  BY <1>1, <1>2, EndFacts DEF Kept, ChatTypeOK
<1>7. /\ writing'[s] = "sent" /\ writing'[k] = writing[k] /\ wire'[k] = wire[k]
      /\ wire'[s] = IF sock[c] = "open" THEN Append(wire[s], Head(Unsent(s))) ELSE wire[s]
  BY <1>1, <1>2, <1>3 DEF ChatTypeOK
<1>8. /\ InFront(s)' /\ InFront(k)' /\ Writing(c)' /\ Heard(c)'
  <2>1. wire[s] # <<>> => wire'[s] # <<>> /\ Head(wire'[s]) = Head(wire[s])
    BY <1>3, <1>4, <1>7, Added, Taken
  <2>2. QED
    BY <1>1, <1>2, <1>7, <2>1 DEF ClientInv, InFront, Writing, Heard, Decodable
<1>9. Newcomer(c)'
  BY <1>1, <1>2 DEF ClientInv, Newcomer, Fresh
<1>10. ASSUME sock'[c] = "open" PROVE Told(c)'
  <2>1. sock[c] = "open" /\ Told(c)
    BY <1>1, <1>2, <1>10 DEF ClientInv
  <2>2. wire'[s] = Append(wire[s], Head(Unsent(s))) /\ Len(wire'[s]) = Len(wire[s]) + 1
    BY <1>3, <1>4, <1>7, <2>1, Added
  <2>3. /\ Len(wire[s]) \in Nat /\ Len(Unsent(s)) \in Nat
        /\ Len(Unsent(s)') = Len(Unsent(s)) - 1
    BY <1>3, Taken, LenProperties
  <2>4. Shown(c) \in Nat /\ Sent(c) \in Nat /\ Sent(c) = Shown(c) + Len(wire[s])
    BY <1>1, <2>3 DEF Shown, Sent, ChatTypeOK
  <2>5. Shown(c)' = Shown(c) /\ Sent(c)' = Sent(c) + 1 /\ Queued(c)' = Queued(c)
    <3>1. Shown(c)' = Shown(c)
      BY <1>2 DEF Shown
    <3>2. Sent(c)' = Sent(c) + 1
      BY <2>2, <2>3, <2>4, <3>1 DEF Sent
    <3>3. QED
      BY <2>3, <2>4, <3>1, <3>2 DEF Queued
  <2>6. Head(Unsent(s)) = said[Sent(c) + 1] /\ Part(Tail(Unsent(s)), said, Sent(c) + 1)
    BY <1>3, <2>1, <2>4, PartTail DEF Told
  <2>7. Part(wire'[s], said, Shown(c))
    BY <1>3, <1>4, <2>1, <2>2, <2>4, <2>6, PartAdded DEF Told
  <2>8. /\ Part(screen'[c], said', from'[c]) /\ Part(wire'[s], said', Shown(c)')
        /\ Part(Unsent(s)', said', Sent(c)')
    BY <1>2, <1>3, <2>1, <2>5, <2>6, <2>7 DEF Told
  <2>9. QED
    BY <1>2, <2>1, <2>5, <2>8 DEF Told
<1>11. Typed(c)' /\ InTurn(c)'
  <2>1. Unsent(k)' = Unsent(k)
    BY <1>2, <1>7 DEF Unsent
  <2>2. Reaches(c)' => Reaches(c)
    BY <1>2 DEF Reaches, Alive
  <2>3. QED
    BY <1>1, <1>2, <1>7, <2>1, <2>2, TypedKept, InTurnKept DEF ClientInv
<1>12. ClientInv(c)'
  BY <1>8, <1>9, <1>10, <1>11 DEF ClientInv
<1>13. QED
  BY <1>2, <1>5, <1>6, <1>12, OneStep

LEMMA TransferUp ==
    ASSUME ChatInv, NEW c \in Clients, Transfer(Client(c))
    PROVE  ChatInv'
<1> DEFINE s == Session(c)
           k == Client(c)
<1> USE DEF clientVars, roomVars, endVars
<1>1. /\ s \in Ends /\ k \in Ends /\ s # k /\ Peer(s) = k /\ Peer(k) = s
      /\ ClientInv(c) /\ ChatTypeOK
  BY EndFacts DEF ChatInv
<1>2. /\ writing[k] = "sending" /\ writing' = [writing EXCEPT ![k] = "sent"]
      /\ sock[c] = "open"
      /\ wire' = IF c \in backlog \/ Alive(c)
                 THEN [wire EXCEPT ![k] = Append(@, Head(write_msgs[k]))] ELSE wire
      /\ UNCHANGED <<sock, posted, running, lines, eof, backlog, participants, recent_msgs,
                     said, from, write_msgs, reading, screen>>
  BY OpenFacts, <1>1 DEF Transfer
<1>3. /\ Unsent(k) = write_msgs[k] /\ Unsent(k) # <<>> /\ Unsent(k)' = Tail(Unsent(k))
      /\ Unsent(k) \in Seq(Messages) /\ wire[k] \in Seq(Messages)
  <2>1. writing'[k] = "sent" /\ InFront(k)
    BY <1>1, <1>2 DEF ChatTypeOK, ClientInv
  <2>2. QED
    BY <1>1, <1>2, <2>1, UnsentTransferred, UnsentType
<1>4. Head(Unsent(k)) \in Messages /\ Append(wire[k], Head(Unsent(k))) \in Seq(Messages)
  BY <1>3, Taken, Added
<1>5. ChatTypeOK'
  BY <1>1, <1>2, <1>3, <1>4 DEF ChatTypeOK, EndStates
<1>6. \A d \in Clients \ {c} : Kept(d)
  BY <1>1, <1>2, EndFacts DEF Kept, ChatTypeOK
<1>7. /\ writing'[k] = "sent" /\ writing'[s] = writing[s] /\ wire'[s] = wire[s]
      /\ wire'[k] = IF c \in backlog \/ Alive(c) THEN Append(wire[k], Head(Unsent(k)))
                    ELSE wire[k]
  BY <1>1, <1>2, <1>3 DEF ChatTypeOK
<1>8. InFront(s)' /\ InFront(k)' /\ Writing(c)' /\ Heard(c)'
  <2>1. wire[k] # <<>> => wire'[k] # <<>> /\ Head(wire'[k]) = Head(wire[k])
    BY <1>3, <1>4, <1>7, Added, Taken
  <2>2. QED
    BY <1>1, <1>2, <1>7, <2>1 DEF ClientInv, InFront, Writing, Heard, Decodable
<1>9. Newcomer(c)'
  BY <1>1, <1>2, <1>7 DEF ClientInv, Newcomer, Fresh
<1>10. sock'[c] = "open" => Told(c)'
  <2>1. Unsent(s)' = Unsent(s)
    BY <1>2, <1>7 DEF Unsent
  <2>2. QED
    BY <1>1, <1>2, <1>7, <2>1, ToldKept DEF ClientInv
<1>11. Typed(c)'
  <2>1. Head(Unsent(k)) = write_msgs[k][1] /\ 1 \in 1..Len(write_msgs[k])
    BY <1>3, Taken
  <2>2. \A i \in 1..Len(wire'[k]) : i \in 1..Len(wire[k]) \/ wire'[k][i] = Head(Unsent(k))
    BY <1>3, <1>4, <1>7, Added
  <2>3. \A i \in 1..Len(wire'[k]) : i \in 1..Len(wire[k]) => wire'[k][i] = wire[k][i]
    BY <1>3, <1>4, <1>7, Added
  <2>4. QED
    BY <1>1, <1>2, <2>1, <2>2, <2>3 DEF ClientInv, Typed
<1>12. InTurn(c)'
  <2>1. PICK n \in 0..lines[c] :
            /\ Spoken(c, n) /\ Part(wire[k], LinesOf(c), n)
            /\ Reaches(c) => Pipeline(c, n + Len(wire[k]))
    BY <1>1 DEF ClientInv, InTurn
  <2>2. Spoken(c, n)' /\ n \in 0..lines'[c]
    BY <1>2, <2>1 DEF Spoken
  <2>3. Reaches(c)' <=> c \in backlog \/ Alive(c)
    BY <1>2, <1>7 DEF Reaches, Alive
  <2>4. CASE ~(c \in backlog \/ Alive(c))
    BY <1>7, <2>1, <2>2, <2>3, <2>4 DEF InTurn, Part
  <2>5. CASE c \in backlog \/ Alive(c)
    <3>0. wire'[k] = Append(wire[k], Head(Unsent(k)))
      BY <1>7, <2>5
    <3>1. /\ Len(wire[k]) \in Nat /\ Len(wire'[k]) = Len(wire[k]) + 1 /\ n \in Nat
          /\ Len(Unsent(k)) \in Nat /\ Len(Unsent(k)') = Len(Unsent(k)) - 1
      BY <1>3, <1>4, <3>0, Added, Taken
    <3>2. PICK w \in Nat, u \in Nat : w = n + Len(wire[k]) /\ u = w + Len(Unsent(k))
      BY <3>1
    <3>3. Part(Unsent(k), LinesOf(c), w) /\ PostedFrom(c, u)
      <4>1. Reaches(c)
        BY <2>5 DEF Reaches
      <4>2. Pipeline(c, w)
        BY <2>1, <3>2, <4>1
      <4>3. QED
        <5>1. Part(Unsent(k), LinesOf(c), w) /\ PostedFrom(c, w + Len(Unsent(k)))
          BY <4>2 DEF Pipeline
        <5>2. QED
          BY <3>2, <5>1
    <3>4. /\ Head(Unsent(k)) = LinesOf(c)[w + 1] /\ Part(Tail(Unsent(k)), LinesOf(c), w + 1)
      BY <1>3, <3>2, <3>3, PartTail
    <3>5. Part(wire'[k], LinesOf(c), n)
      BY <1>3, <1>4, <2>1, <3>1, <3>0, <3>2, <3>4, PartAdded
    <3>6. n + Len(wire'[k]) = w + 1 /\ w + 1 + Len(Unsent(k)') = u
      BY <3>1, <3>2
    <3>7. PostedFrom(c, u)'
      BY <1>2, <3>3 DEF PostedFrom
    <3>8. Pipeline(c, n + Len(wire[k]))'
      BY <1>3, <3>4, <3>6, <3>7 DEF Pipeline
    <3>9. QED
      BY <2>2, <3>5, <3>8 DEF InTurn, Part
  <2>6. QED
    BY <2>4, <2>5
<1>13. ClientInv(c)'
  BY <1>8, <1>9, <1>10, <1>11, <1>12 DEF ClientInv
<1>14. QED
  BY <1>2, <1>5, <1>6, <1>13, OneStep

LEMMA WroteStep ==
    ASSUME ChatInv, NEW c \in Clients, NEW e \in {Session(c), Client(c)}, Wrote(e)
    PROVE  ChatInv'
<1> DEFINE s == Session(c)
           k == Client(c)
<1> USE DEF clientVars, roomVars, endVars
<1>1. /\ s \in Ends /\ k \in Ends /\ s # k /\ Peer(s) = k /\ Peer(k) = s
      /\ ClientInv(c) /\ ChatTypeOK /\ e \in Ends /\ InFront(e)
  BY EndFacts DEF ChatInv, ClientInv
<1>2. /\ writing[e] = "sent" /\ write_msgs' = [write_msgs EXCEPT ![e] = Tail(@)]
      /\ writing' = [writing EXCEPT ![e] = IF write_msgs'[e] = <<>> THEN "none" ELSE "sending"]
      /\ UNCHANGED <<sock, posted, running, lines, eof, backlog, participants, recent_msgs,
                     said, from, wire, reading, screen>>
  BY DEF Wrote
<1>3. /\ write_msgs[e] \in Seq(Messages) /\ write_msgs[e] # <<>>
      /\ Tail(write_msgs[e]) \in Seq(Messages)
      /\ Len(Tail(write_msgs[e])) = Len(write_msgs[e]) - 1 /\ Len(write_msgs[e]) \in Nat
      /\ \A i \in 1..Len(Tail(write_msgs[e])) : Tail(write_msgs[e])[i] = write_msgs[e][i + 1]
  <2>1. write_msgs[e] \in Seq(Messages) /\ write_msgs[e] # <<>>
    BY <1>1, <1>2 DEF InFront, ChatTypeOK
  <2>2. QED
    BY <2>1, Taken
<1>4. ChatTypeOK'
  BY <1>1, <1>2, <1>3 DEF ChatTypeOK, EndStates
<1>5. \A d \in Clients \ {c} : Kept(d)
  BY <1>1, <1>2, EndFacts DEF Kept, ChatTypeOK
<1>6. /\ write_msgs'[e] = Tail(write_msgs[e])
      /\ writing'[e] = IF write_msgs'[e] = <<>> THEN "none" ELSE "sending"
      /\ \A f \in {s, k} \ {e} : write_msgs'[f] = write_msgs[f] /\ writing'[f] = writing[f]
  BY <1>1, <1>2 DEF ChatTypeOK
<1>7. /\ InFront(s)' /\ InFront(k)' /\ Writing(c)' /\ Heard(c)'
  BY <1>1, <1>2, <1>6 DEF ClientInv, InFront, Writing, Heard, Decodable
<1>8. Newcomer(c)'
  <2>1. CASE e = s
    BY <1>1, <1>2, <2>1 DEF ClientInv, Newcomer, Fresh
  <2>2. CASE e = k
    BY <1>1, <1>2, <1>6, <2>2 DEF ClientInv, Newcomer, Fresh
  <2>3. QED
    BY <2>1, <2>2
<1>9. Unsent(s)' = Unsent(s) /\ Unsent(k)' = Unsent(k)
  <2>1. Unsent(e)' = Unsent(e)
    BY <1>2, <1>6, UnsentWritten
  <2>2. \A f \in {s, k} \ {e} : Unsent(f)' = Unsent(f)
    BY <1>6 DEF Unsent
  <2>3. QED
    BY <2>1, <2>2
<1>10. sock'[c] = "open" => Told(c)'
  BY <1>1, <1>2, <1>9, ToldKept DEF ClientInv
<1>11. Reaches(c)' => Reaches(c)
  BY <1>1, <1>2, <1>6 DEF Reaches, Alive
<1>12. InTurn(c)'
  BY <1>1, <1>2, <1>9, <1>11, InTurnKept DEF ClientInv
<1>13. Typed(c)'
  <2>1. CASE e = s
    BY <1>1, <1>2, <1>6, <2>1, TypedKept DEF ClientInv
  <2>2. CASE e = k
    <3>1. \A i \in 1..Len(write_msgs'[k]) : /\ i + 1 \in 1..Len(write_msgs[k])
                                           /\ write_msgs'[k][i] = write_msgs[k][i + 1]
      <4>1. /\ Len(write_msgs'[k]) = Len(write_msgs[k]) - 1 /\ Len(write_msgs[k]) \in Nat
            /\ \A i \in 1..Len(write_msgs'[k]) : write_msgs'[k][i] = write_msgs[k][i + 1]
        BY <1>3, <1>6, <2>2
      <4>2. QED
        BY <4>1
    <3>2. QED
      BY <1>1, <1>2, <3>1 DEF ClientInv, Typed
  <2>3. QED
    BY <2>1, <2>2
<1>14. ClientInv(c)'
  BY <1>7, <1>8, <1>10, <1>12, <1>13 DEF ClientInv
<1>15. QED
  BY <1>2, <1>4, <1>5, <1>14, OneStep

\* The handlers of an async_read that find a header, or an error.
LEMMA ReadingStep ==
    ASSUME ChatInv, NEW c \in Clients, NEW e \in {Session(c), Client(c)}, ReadHeader(e)
    PROVE  ChatInv'
<1> DEFINE s == Session(c)
           k == Client(c)
           m == Head(wire[Peer(e)])
<1> USE DEF clientVars, roomVars, endVars
<1>1. /\ s \in Ends /\ k \in Ends /\ s # k /\ Peer(s) = k /\ Peer(k) = s
      /\ ClientInv(c) /\ ChatTypeOK /\ e \in Ends /\ Peer(e) \in Ends
  BY EndFacts DEF ChatInv
<1>2. /\ reading[e] = "header" /\ wire[Peer(e)] # <<>>
      /\ reading' = [reading EXCEPT ![e] = IF m \in Undecodable THEN "none" ELSE "body"]
      /\ UNCHANGED <<sock, posted, running, lines, eof, backlog, participants, recent_msgs,
                     said, from, wire, write_msgs, writing, screen>>
  BY DEF ReadHeader, StartRead, Arrived
<1>3. ChatTypeOK'
  BY <1>1, <1>2 DEF ChatTypeOK
<1>4. \A d \in Clients \ {c} : Kept(d)
  BY <1>1, <1>2, EndFacts DEF Kept, ChatTypeOK
<1>5. /\ reading'[e] = IF m \in Undecodable THEN "none" ELSE "body"
      /\ \A f \in {s, k} \ {e} : reading'[f] = reading[f]
  BY <1>1, <1>2 DEF ChatTypeOK
<1>6. InFront(s)' /\ InFront(k)' /\ Writing(c)'
  BY <1>1, <1>2, <1>5 DEF ClientInv, InFront, Writing
<1>7. Newcomer(c)'
  <2>1. CASE e = s
    BY <1>1, <1>2, <2>1 DEF ClientInv, Newcomer, Fresh
  <2>2. CASE e = k
    BY <1>1, <1>2, <1>5, <2>2 DEF ClientInv, Newcomer, Fresh
  <2>3. QED
    BY <2>1, <2>2
<1>8. Heard(c)'
  <2>1. CASE e = s /\ m \in Undecodable
    <3>1. wire[k] \in Seq(Messages) /\ wire[k] # <<>> /\ m = wire[k][1] /\ 1 \in 1..Len(wire[k])
      BY <1>1, <1>2, <2>1, Taken DEF ChatTypeOK
    <3>2. m \in {c} \X (1..lines[c])
      BY <1>1, <3>1 DEF ClientInv, Typed
    <3>3. ~Decodable(c)
      BY <2>1, <3>2 DEF Decodable
    <3>4. QED
      BY <1>2, <3>3 DEF Heard, Decodable
  <2>2. CASE ~(e = s /\ m \in Undecodable)
    BY <1>1, <1>2, <1>5, <2>2 DEF ClientInv, Heard, Decodable
  <2>3. QED
    BY <2>1, <2>2
<1>9. Unsent(s)' = Unsent(s) /\ Unsent(k)' = Unsent(k)
  BY <1>2 DEF Unsent
<1>10. sock'[c] = "open" => Told(c)'
  BY <1>1, <1>2, <1>9, ToldKept DEF ClientInv
<1>11. Reaches(c)' => Reaches(c)
  BY <1>1, <1>2, <1>5 DEF Reaches, Alive
<1>12. InTurn(c)' /\ Typed(c)'
  BY <1>1, <1>2, <1>9, <1>11, InTurnKept, TypedKept DEF ClientInv
<1>13. ClientInv(c)'
  BY <1>6, <1>7, <1>8, <1>10, <1>12 DEF ClientInv
<1>14. QED
  BY <1>2, <1>3, <1>4, <1>13, OneStep

\* The handlers with an error, and the end of a client's io_context.
LEMMA FailureStep ==
    ASSUME ChatInv, NEW c \in Clients,
           \/ SessionReadFailed(c) \/ SessionWriteFailed(c)
           \/ ClientReadFailed(c) \/ ClientWriteFailed(c) \/ RunReturns(c)
    PROVE  ChatInv'
<1> DEFINE s == Session(c)
           k == Client(c)
<1> USE DEF clientVars, roomVars, endVars
<1>1. /\ s \in Ends /\ k \in Ends /\ s # k /\ Peer(s) = k /\ Peer(k) = s
      /\ ClientInv(c) /\ ChatTypeOK
  BY EndFacts DEF ChatInv
<1>2. UNCHANGED <<posted, lines, eof, backlog, recent_msgs, said, from, write_msgs, wire, screen>>
  BY DEF SessionReadFailed, SessionWriteFailed, ClientReadFailed, ClientWriteFailed, RunReturns
<1>3. \/ /\ reading[s] # "none" \/ writing[s] # "none"
         /\ \/ reading' = [reading EXCEPT ![s] = "none"] /\ UNCHANGED writing
            \/ /\ writing[s] = "sending" /\ writing' = [writing EXCEPT ![s] = "none"]
               /\ UNCHANGED reading
         /\ participants' = participants \ {c} /\ UNCHANGED <<sock, running>>
      \/ /\ \/ reading' = [reading EXCEPT ![k] = "none"] /\ UNCHANGED writing
            \/ /\ writing[k] = "sending" /\ writing' = [writing EXCEPT ![k] = "none"]
               /\ UNCHANGED reading
         /\ sock' = [sock EXCEPT ![c] = "closed"] /\ UNCHANGED <<participants, running>>
      \/ running' = running \ {c} /\ UNCHANGED <<sock, participants, reading, writing>>
  BY DEF SessionReadFailed, SessionWriteFailed, ClientReadFailed, ClientWriteFailed, RunReturns,
         StartRead, Leave
<1>4. ChatTypeOK'
  BY <1>1, <1>2, <1>3 DEF ChatTypeOK, EndStates
<1>5. \A d \in Clients \ {c} : Kept(d)
  BY <1>1, <1>2, <1>3, EndFacts DEF Kept, ChatTypeOK
<1>6. /\ \A e \in {s, k} : /\ reading'[e] \in {reading[e], "none"}
                          /\ \/ writing'[e] = writing[e]
                             \/ writing[e] = "sending" /\ writing'[e] = "none"
      /\ \/ /\ c \notin participants' /\ sock'[c] = sock[c]
            /\ reading[s] # "none" \/ writing[s] # "none"
            /\ reading'[k] = reading[k] /\ writing'[k] = writing[k]
         \/ /\ (c \in participants' <=> c \in participants) /\ sock'[c] \in {sock[c], "closed"}
            /\ reading'[s] = reading[s] /\ writing'[s] = writing[s]
            /\ sock'[c] = "closed" \/ (reading'[k] = reading[k] /\ writing'[k] = writing[k])
  BY <1>1, <1>3 DEF ChatTypeOK
<1>7. InFront(s)' /\ InFront(k)'
  BY <1>1, <1>2, <1>6 DEF ClientInv, InFront
<1>8. Writing(c)' /\ Heard(c)'
  BY <1>1, <1>2, <1>6 DEF ClientInv, Writing, Heard, Decodable
<1>9. Newcomer(c)'
  BY <1>1, <1>2, <1>6 DEF ClientInv, Newcomer, Fresh
<1>10. Unsent(s)' = Unsent(s) /\ Unsent(k)' = Unsent(k)
  BY <1>2, <1>6 DEF Unsent
<1>11. sock'[c] = "open" => Told(c)'
  <2>1. (c \in participants' => c \in participants) /\ (sock'[c] = "open" => sock[c] = "open")
    BY <1>6
  <2>2. QED
    BY <1>1, <1>2, <1>10, <2>1, ToldKept DEF ClientInv
<1>12. Reaches(c)' => Reaches(c)
  BY <1>2, <1>6 DEF Reaches, Alive
<1>13. InTurn(c)' /\ Typed(c)'
  BY <1>1, <1>2, <1>10, <1>12, InTurnKept, TypedKept DEF ClientInv
<1>14. ClientInv(c)'
  BY <1>7, <1>8, <1>9, <1>11, <1>13 DEF ClientInv
<1>15. QED
  BY <1>2, <1>4, <1>5, <1>14, OneStep

-----------------------------------------------------------------------------
\* The user: a line is posted, or the close.
LEMMA UserStep ==
    ASSUME ChatInv, NEW c \in Clients, UserNext(c)
    PROVE  ChatInv'
<1> DEFINE s == Session(c)
           k == Client(c)
<1> USE DEF clientVars, roomVars, endVars
<1>1. /\ s \in Ends /\ k \in Ends /\ ClientInv(c) /\ ChatTypeOK
  BY EndFacts DEF ChatInv
<1>2. /\ UNCHANGED <<sock, running, backlog, participants, recent_msgs, said, from, write_msgs,
                     writing, reading, wire, screen>>
      /\ c \notin eof
  BY DEF UserNext, TypeLine, EndInput
<1>3. PICK task \in Messages \cup {CloseTask} :
          /\ posted' = [posted EXCEPT ![c] = Append(@, task)]
          /\ \/ /\ lines[c] < MaxLines /\ lines' = [lines EXCEPT ![c] = lines[c] + 1]
                /\ task = <<c, lines[c] + 1>> /\ UNCHANGED eof
             \/ task = CloseTask /\ UNCHANGED lines /\ eof' = eof \cup {c}
  <2>1. CASE TypeLine(c)
    <3>1. lines' = [lines EXCEPT ![c] = lines[c] + 1] /\ lines'[c] = lines[c] + 1
      BY <1>1, <2>1 DEF TypeLine, ChatTypeOK
    <3>2. <<c, lines[c] + 1>> \in Messages
      BY <1>1, <2>1, ChatConstants DEF TypeLine, ChatTypeOK, Messages
    <3>3. QED
      BY <2>1, <3>1, <3>2 DEF TypeLine, Post
  <2>2. CASE EndInput(c)
    BY <2>2 DEF EndInput, Post
  <2>3. QED
    BY <2>1, <2>2 DEF UserNext
<1>4. /\ posted[c] \in Seq(Messages \cup {CloseTask}) /\ lines[c] \in Nat
      /\ posted'[c] = Append(posted[c], task) /\ posted'[c] \in Seq(Messages \cup {CloseTask})
      /\ Len(posted[c]) \in Nat /\ Len(posted'[c]) = Len(posted[c]) + 1
      /\ \A i \in 1..Len(posted[c]) : posted'[c][i] = posted[c][i]
      /\ posted'[c][Len(posted[c]) + 1] = task
      /\ \A i \in 1..Len(posted'[c]) : i \in 1..Len(posted[c]) \/ i = Len(posted[c]) + 1
  <2>1. posted[c] \in Seq(Messages \cup {CloseTask}) /\ posted'[c] = Append(posted[c], task)
    BY <1>1, <1>3 DEF ChatTypeOK
  <2>2. lines[c] \in Nat
    BY <1>1, ChatConstants DEF ChatTypeOK
  <2>3. QED
    BY <2>1, <2>2, Added
<1>5. /\ lines' \in [Clients -> 0..MaxLines] /\ lines'[c] \in {lines[c], lines[c] + 1}
      /\ lines'[c] \in Nat
  <2>1. lines \in [Clients -> 0..MaxLines] /\ MaxLines \in Nat
    BY <1>1, ChatConstants DEF ChatTypeOK
  <2>2. CASE UNCHANGED lines
    BY <1>4, <2>1, <2>2
  <2>3. CASE lines[c] < MaxLines /\ lines' = [lines EXCEPT ![c] = lines[c] + 1]
    <3>1. lines[c] + 1 \in 0..MaxLines
      BY <1>4, <2>1, <2>3
    <3>2. QED
      BY <1>4, <2>1, <2>3, <3>1
  <2>4. QED
    BY <1>3, <2>2, <2>3
<1>6. ChatTypeOK'
  BY <1>1, <1>2, <1>3, <1>4, <1>5 DEF ChatTypeOK
<1>7. \A d \in Clients \ {c} : Kept(d)
  BY <1>1, <1>2, <1>3 DEF Kept, ChatTypeOK
<1>8. InFront(s)' /\ InFront(k)' /\ Writing(c)' /\ Newcomer(c)'
  BY <1>1, <1>2 DEF ClientInv, InFront, Writing, Newcomer, Fresh
<1>9. Heard(c)'
  <2>1. Decodable(c)' => Decodable(c)
    BY <1>4, <1>5 DEF Decodable
  <2>2. QED
    BY <1>1, <1>2, <2>1 DEF ClientInv, Heard
<1>10. Unsent(s)' = Unsent(s) /\ Unsent(k)' = Unsent(k)
  BY <1>2 DEF Unsent
<1>11. sock'[c] = "open" => Told(c)'
  BY <1>1, <1>2, <1>10, ToldKept DEF ClientInv
<1>12. Typed(c)'
  <2>1. \A x : x \in {c} \X (1..lines[c]) => x \in {c} \X (1..lines'[c])
    BY <1>4, <1>5
  <2>2. task \in ({c} \X (1..lines'[c])) \cup {CloseTask}
    <3>1. CASE task = <<c, lines[c] + 1>> /\ lines' = [lines EXCEPT ![c] = lines[c] + 1]
      <4>1. lines'[c] = lines[c] + 1 /\ lines[c] + 1 \in 1..lines'[c]
        BY <1>1, <1>4, <3>1 DEF ChatTypeOK
      <4>2. QED
        BY <3>1, <4>1
    <3>2. QED
      BY <1>3, <3>1
  <2>3. \A i \in 1..Len(posted'[c]) : posted'[c][i] \in ({c} \X (1..lines'[c])) \cup {CloseTask}
    <3>1. \A i \in 1..Len(posted[c]) : posted[c][i] \in ({c} \X (1..lines'[c])) \cup {CloseTask}
      BY <1>1, <2>1 DEF ClientInv, Typed
    <3>2. ASSUME NEW i \in 1..Len(posted'[c])
          PROVE  posted'[c][i] \in ({c} \X (1..lines'[c])) \cup {CloseTask}
      <4>1. CASE i \in 1..Len(posted[c])
        BY <1>4, <3>1, <4>1
      <4>2. CASE i = Len(posted[c]) + 1
        BY <1>4, <2>2, <4>2
      <4>3. QED
        BY <1>4, <4>1, <4>2
    <3>3. QED
      BY <3>2
  <2>4. QED
    BY <1>1, <1>2, <2>1, <2>3 DEF ClientInv, Typed
<1>13. InTurn(c)'
  <2>1. PICK n \in 0..lines[c] :
            /\ Spoken(c, n) /\ Part(wire[k], LinesOf(c), n)
            /\ Reaches(c) => Pipeline(c, n + Len(wire[k]))
    BY <1>1 DEF ClientInv, InTurn
  <2>2. Spoken(c, n)' /\ n \in 0..lines'[c] /\ Part(wire[k], LinesOf(c), n)'
    <3>1. Spoken(c, n)' /\ Part(wire[k], LinesOf(c), n)'
      BY <1>2, <2>1 DEF Spoken, Part
    <3>2. n \in 0..lines'[c]
      BY <1>4, <1>5
    <3>3. QED
      BY <3>1, <3>2
  <2>3. Reaches(c)' => Reaches(c)
    BY <1>2 DEF Reaches, Alive
  <2>4. ASSUME Reaches(c) PROVE Pipeline(c, n + Len(wire[k]))'
    <3>1. wire[k] \in Seq(Messages) /\ Unsent(k) \in Seq(Messages)
      BY <1>1, UnsentType DEF ClientInv
    <3>2. Len(wire[k]) \in Nat /\ Len(Unsent(k)) \in Nat /\ n \in Nat
      BY <1>4, <3>1, LenProperties
    <3>3. PICK w \in Nat, u \in Nat : w = n + Len(wire[k]) /\ u = w + Len(Unsent(k))
      BY <3>2
    <3>4. Pipeline(c, w)
      BY <2>1, <2>4, <3>3
    <3>5. Part(Unsent(k), LinesOf(c), w) /\ PostedFrom(c, w + Len(Unsent(k)))
      BY <3>4 DEF Pipeline
    <3>6. PostedFrom(c, u)
      BY <3>3, <3>5
    <3>7. lines[c] = u + Len(posted[c]) /\ \A i \in 1..Len(posted[c]) : posted[c][i] # CloseTask
      BY <1>2, <3>6 DEF PostedFrom
    <3>8. PostedFrom(c, u)'
      <4>1. CASE task = CloseTask /\ UNCHANGED lines /\ eof' = eof \cup {c}
        <5>1. ASSUME NEW i \in 1..Len(posted'[c]), posted'[c][i] # CloseTask
              PROVE  posted'[c][i] = <<c, u + i>>
          BY <1>4, <3>6, <4>1, <5>1 DEF PostedFrom
        <5>2. ASSUME NEW i \in 1..Len(posted'[c]), posted'[c][i] = CloseTask
              PROVE  c \in eof' /\ i = Len(posted'[c])
          BY <1>4, <3>7, <4>1, <5>2
        <5>3. QED
          BY <4>1, <5>1, <5>2 DEF PostedFrom
      <4>2. CASE lines' = [lines EXCEPT ![c] = lines[c] + 1] /\ task = <<c, lines[c] + 1>> /\ UNCHANGED eof
        <5>1. task # CloseTask
          BY <1>4, <4>2 DEF CloseTask
        <5>2. ASSUME NEW i \in 1..Len(posted'[c])
              PROVE  posted'[c][i] = <<c, u + i>>
          <6>1. CASE i \in 1..Len(posted[c])
            BY <1>4, <3>6, <3>7, <6>1 DEF PostedFrom
          <6>2. CASE i = Len(posted[c]) + 1
            <7>1. u + i = lines[c] + 1
              BY <1>4, <3>7, <6>2
            <7>2. QED
              BY <1>4, <4>2, <6>2, <7>1
          <6>3. QED
            BY <1>4, <6>1, <6>2
        <5>3. \A i \in 1..Len(posted'[c]) : posted'[c][i] # CloseTask
          BY <1>4, <3>7, <5>1
        <5>4. lines'[c] = u + Len(posted'[c])
          <6>1. lines'[c] = lines[c] + 1
            BY <1>1, <4>2 DEF ChatTypeOK
          <6>2. QED
            BY <1>4, <3>7, <6>1
        <5>5. QED
          BY <5>2, <5>3, <5>4 DEF PostedFrom
      <4>3. QED
        BY <1>3, <4>1, <4>2
    <3>9. w + Len(Unsent(k)') = u /\ n + Len(wire'[k]) = w
      BY <1>2, <1>10, <3>3
    <3>10. Part(Unsent(k)', LinesOf(c), w)
      BY <1>10, <3>5
    <3>11. Pipeline(c, w)'
      BY <3>8, <3>9, <3>10 DEF Pipeline
    <3>12. QED
      BY <3>9, <3>11
  <2>5. QED
    BY <2>2, <2>3, <2>4 DEF InTurn
<1>14. ClientInv(c)'
  BY <1>8, <1>9, <1>11, <1>12, <1>13 DEF ClientInv
<1>15. QED
  BY <1>2, <1>5, <1>6, <1>7, <1>14, OneStep

-----------------------------------------------------------------------------
\* The tasks of write and close run.
LEMMA RunWriteStep ==
    ASSUME ChatInv, NEW c \in Clients, RunWrite(c)
    PROVE  ChatInv'
<1> DEFINE s == Session(c)
           k == Client(c)
           m == Head(posted[c])
<1> USE DEF clientVars, roomVars, endVars
<1>1. /\ s \in Ends /\ k \in Ends /\ s # k /\ Peer(s) = k /\ Peer(k) = s
      /\ ClientInv(c) /\ ChatTypeOK /\ InFront(k) /\ InFront(s)
  BY EndFacts DEF ChatInv, ClientInv
<1>2. /\ posted[c] # <<>> /\ m # CloseTask /\ posted' = [posted EXCEPT ![c] = Tail(@)]
      /\ write_msgs' = [write_msgs EXCEPT ![k] = Append(@, m)]
      /\ writing' = IF write_msgs[k] = <<>> THEN [writing EXCEPT ![k] = "sending"] ELSE writing
      /\ UNCHANGED <<sock, running, lines, eof, backlog, participants, recent_msgs, said, from,
                     reading, wire, screen>>
  BY DEF RunWrite, Queue
<1>3. /\ posted[c] \in Seq(Messages \cup {CloseTask}) /\ m = posted[c][1]
      /\ Len(posted[c]) \in Nat /\ Len(posted[c]) >= 1
      /\ Tail(posted[c]) \in Seq(Messages \cup {CloseTask})
      /\ Len(Tail(posted[c])) = Len(posted[c]) - 1
      /\ \A i \in 1..Len(Tail(posted[c])) : Tail(posted[c])[i] = posted[c][i + 1]
      /\ m \in Messages \cup {CloseTask}
  <2>1. posted[c] \in Seq(Messages \cup {CloseTask})
    BY <1>1 DEF ChatTypeOK
  <2>2. QED
    BY <1>2, <2>1, Taken
<1>4. m \in Messages /\ Append(write_msgs[k], m) \in Seq(Messages)
  BY <1>1, <1>2, <1>3, Added DEF ChatTypeOK
<1>5. ChatTypeOK'
  BY <1>1, <1>2, <1>3, <1>4 DEF ChatTypeOK, EndStates
<1>6. \A d \in Clients \ {c} : Kept(d)
  BY <1>1, <1>2, EndFacts DEF Kept, ChatTypeOK
<1>7. /\ posted'[c] = Tail(posted[c]) /\ write_msgs'[k] = Append(write_msgs[k], m)
      /\ writing'[k] = IF write_msgs[k] = <<>> THEN "sending" ELSE writing[k]
      /\ write_msgs'[s] = write_msgs[s] /\ writing'[s] = writing[s]
  BY <1>1, <1>2 DEF ChatTypeOK
<1>8. /\ write_msgs'[k] # <<>> /\ Len(write_msgs[k]) \in Nat
      /\ \A i \in 1..Len(write_msgs[k]) : write_msgs'[k][i] = write_msgs[k][i]
      /\ \A i \in 1..Len(write_msgs'[k]) : i \in 1..Len(write_msgs[k]) \/ write_msgs'[k][i] = m
  <2>1. write_msgs[k] \in Seq(Messages)
    BY <1>1 DEF ChatTypeOK
  <2>2. QED
    BY <1>4, <1>7, <2>1, Added
<1>0. /\ Len(posted'[c]) = Len(posted[c]) - 1 /\ Len(posted[c]) \in Nat /\ Len(posted[c]) >= 1
      /\ \A i \in 1..Len(posted'[c]) : posted'[c][i] = posted[c][i + 1]
  BY <1>3, <1>7
<1>9. InFront(s)' /\ InFront(k)' /\ Writing(c)' /\ Heard(c)'
  BY <1>1, <1>2, <1>7, <1>8 DEF ClientInv, InFront, Writing, Heard, Decodable
<1>10. Newcomer(c)'
  BY <1>1, <1>2, <1>7 DEF ClientInv, Newcomer, Fresh
<1>11. Unsent(s)' = Unsent(s) /\ Unsent(k)' = Append(Unsent(k), m)
  <2>1. Unsent(k)' = Append(Unsent(k), m)
    BY <1>1, <1>4, <1>7, UnsentQueued
  <2>2. QED
    BY <1>7, <2>1 DEF Unsent
<1>12. sock'[c] = "open" => Told(c)'
  BY <1>1, <1>2, <1>7, <1>11, ToldKept DEF ClientInv
<1>13. Typed(c)'
  <2>1. m \in {c} \X (1..lines[c])
    BY <1>1, <1>2, <1>3 DEF ClientInv, Typed
  <2>2. \A i \in 1..Len(write_msgs'[k]) : write_msgs'[k][i] \in {c} \X (1..lines[c])
    BY <1>1, <1>8, <2>1 DEF ClientInv, Typed
  <2>3. \A i \in 1..Len(posted'[c]) : i + 1 \in 1..Len(posted[c]) /\ posted'[c][i] = posted[c][i + 1]
    BY <1>0
  <2>4. \A i \in 1..Len(posted'[c]) : posted'[c][i] \in ({c} \X (1..lines[c])) \cup {CloseTask}
    BY <1>1, <2>3 DEF ClientInv, Typed
  <2>5. QED
    BY <1>1, <1>2, <2>2, <2>4 DEF ClientInv, Typed
<1>14. InTurn(c)'
  <2>1. PICK n \in Nat :
            /\ n \in 0..lines[c] /\ Spoken(c, n) /\ Part(wire[k], LinesOf(c), n)
            /\ Reaches(c) => Pipeline(c, n + Len(wire[k]))
    <3>1. lines[c] \in Nat
      BY <1>1, ChatConstants DEF ChatTypeOK
    <3>2. \A n \in 0..lines[c] : n \in Nat
      BY <3>1
    <3>3. QED
      BY <1>1, <3>2 DEF ClientInv, InTurn
  <2>2. Spoken(c, n)' /\ n \in 0..lines'[c] /\ Part(wire[k], LinesOf(c), n)'
    <3>1. Spoken(c, n)' /\ Part(wire[k], LinesOf(c), n)'
      BY <1>2, <2>1 DEF Spoken, Part
    <3>2. QED
      BY <1>2, <2>1, <3>1
  <2>3. Reaches(c)' => Reaches(c)
    BY <1>2, <1>7 DEF Reaches, Alive
  <2>4. ASSUME Reaches(c) PROVE Pipeline(c, n + Len(wire[k]))'
    <3>1. wire[k] \in Seq(Messages) /\ Unsent(k) \in Seq(Messages)
      BY <1>1, UnsentType
    <3>2. Len(wire[k]) \in Nat /\ Len(Unsent(k)) \in Nat /\ n \in Nat
      BY <3>1, LenProperties
    <3>3. PICK w \in Nat, u \in Nat : w = n + Len(wire[k]) /\ u = w + Len(Unsent(k))
      BY <3>2
    <3>4. Pipeline(c, w)
      BY <2>1, <2>4, <3>3
    <3>5. Part(Unsent(k), LinesOf(c), w) /\ PostedFrom(c, w + Len(Unsent(k)))
      BY <3>4 DEF Pipeline
    <3>6. PostedFrom(c, u)
      BY <3>3, <3>5
    <3>7. m = <<c, u + 1>>
      BY <1>2, <1>3, <3>6 DEF PostedFrom
    <3>8. Len(Unsent(k)') = Len(Unsent(k)) + 1
      BY <1>4, <1>11, <3>1, Added
    <3>9. w + Len(Unsent(k)') = u + 1 /\ n + Len(wire'[k]) = w
      <4>1. w + Len(Unsent(k)') = u + 1
        <5>1. u = w + Len(Unsent(k)) /\ Len(Unsent(k)) \in Nat
          BY <3>2, <3>3
        <5>2. QED
          BY <3>8, <5>1
      <4>2. QED
        BY <1>2, <3>3, <4>1
    <3>10. Part(Unsent(k)', LinesOf(c), w)
      <4>1. m = LinesOf(c)[w + Len(Unsent(k)) + 1]
        <5>1. w + Len(Unsent(k)) + 1 = u + 1 /\ u + 1 \in Nat
          BY <3>3
        <5>2. LinesOf(c)[u + 1] = <<c, u + 1>>
          BY <5>1 DEF LinesOf
        <5>3. QED
          BY <3>7, <5>1, <5>2
      <4>2. QED
        BY <1>4, <1>11, <3>1, <3>3, <3>5, <4>1, PartAdded
    <3>11. PostedFrom(c, u + 1)'
      <4>1. \A i \in 1..Len(posted'[c]) : /\ i + 1 \in 1..Len(posted[c]) /\ u + (i + 1) = u + 1 + i
                                          /\ posted'[c][i] = posted[c][i + 1]
        BY <1>0
      <4>2. \A i \in 1..Len(posted'[c]) : posted'[c][i] # CloseTask => posted'[c][i] = <<c, u + 1 + i>>
        BY <3>6, <4>1 DEF PostedFrom
      <4>3. \A i \in 1..Len(posted'[c]) : posted'[c][i] = CloseTask => c \in eof /\ i = Len(posted'[c])
        <5>1. ASSUME NEW i \in 1..Len(posted'[c]), posted'[c][i] = CloseTask
              PROVE  c \in eof /\ i + 1 = Len(posted[c])
          BY <3>6, <4>1, <5>1 DEF PostedFrom
        <5>2. QED
          BY <1>0, <5>1
      <4>4. c \notin eof => lines[c] = u + 1 + Len(posted'[c])
        <5>1. PICK l \in Nat : l = Len(posted[c])
          BY <1>0
        <5>2. Len(posted'[c]) = l - 1
          BY <1>0, <5>1
        <5>3. c \notin eof => lines[c] = u + l
          BY <3>6, <5>1 DEF PostedFrom
        <5>4. u + l = u + 1 + (l - 1)
          OBVIOUS
        <5>5. QED
          BY <5>2, <5>3, <5>4
      <4>5. QED
        BY <1>2, <4>2, <4>3, <4>4 DEF PostedFrom
    <3>12. Pipeline(c, w)'
      BY <3>9, <3>10, <3>11 DEF Pipeline
    <3>13. QED
      BY <3>9, <3>12
  <2>5. QED
    BY <2>2, <2>3, <2>4 DEF InTurn
<1>15. ClientInv(c)'
  BY <1>9, <1>10, <1>12, <1>13, <1>14 DEF ClientInv
<1>16. QED
  BY <1>2, <1>5, <1>6, <1>15, OneStep

LEMMA RunCloseStep ==
    ASSUME ChatInv, NEW c \in Clients, RunClose(c)
    PROVE  ChatInv'
<1> DEFINE s == Session(c)
           k == Client(c)
<1> USE DEF clientVars, roomVars, endVars
<1>1. /\ s \in Ends /\ k \in Ends /\ s # k /\ Peer(s) = k /\ Peer(k) = s
      /\ ClientInv(c) /\ ChatTypeOK
  BY EndFacts DEF ChatInv
<1>2. /\ posted[c] # <<>> /\ Head(posted[c]) = CloseTask
      /\ posted' = [posted EXCEPT ![c] = Tail(@)] /\ sock' = [sock EXCEPT ![c] = "closed"]
      /\ UNCHANGED <<running, lines, eof, backlog, participants, recent_msgs, said, from,
                     write_msgs, writing, reading, wire, screen>>
  BY DEF RunClose
<1>3. /\ posted[c] \in Seq(Messages \cup {CloseTask}) /\ posted[c][1] = CloseTask
      /\ Len(posted[c]) \in Nat /\ Len(posted[c]) >= 1
      /\ Tail(posted[c]) \in Seq(Messages \cup {CloseTask})
      /\ Len(Tail(posted[c])) = Len(posted[c]) - 1
      /\ \A i \in 1..Len(Tail(posted[c])) : Tail(posted[c])[i] = posted[c][i + 1]
  <2>1. posted[c] \in Seq(Messages \cup {CloseTask})
    BY <1>1 DEF ChatTypeOK
  <2>2. QED
    BY <1>2, <2>1, Taken
<1>4. ChatTypeOK'
  BY <1>1, <1>2, <1>3 DEF ChatTypeOK
<1>5. \A d \in Clients \ {c} : Kept(d)
  BY <1>1, <1>2, EndFacts DEF Kept, ChatTypeOK
<1>6. posted'[c] = Tail(posted[c]) /\ sock'[c] = "closed"
  BY <1>1, <1>2 DEF ChatTypeOK
<1>0. /\ Len(posted'[c]) = Len(posted[c]) - 1 /\ Len(posted[c]) \in Nat /\ Len(posted[c]) >= 1
      /\ \A i \in 1..Len(posted'[c]) : posted'[c][i] = posted[c][i + 1]
  BY <1>3, <1>6
<1>7. /\ InFront(s)' /\ InFront(k)' /\ Writing(c)' /\ Heard(c)' /\ Newcomer(c)'
  BY <1>1, <1>2, <1>6 DEF ClientInv, InFront, Writing, Heard, Decodable, Newcomer, Fresh
<1>8. Typed(c)'
  <2>1. \A i \in 1..Len(posted'[c]) : i + 1 \in 1..Len(posted[c]) /\ posted'[c][i] = posted[c][i + 1]
    BY <1>0
  <2>2. QED
    BY <1>1, <1>2, <2>1 DEF ClientInv, Typed
<1>9. InTurn(c)'
  <2>1. PICK n \in Nat :
            /\ n \in 0..lines[c] /\ Spoken(c, n) /\ Part(wire[k], LinesOf(c), n)
            /\ Reaches(c) => Pipeline(c, n + Len(wire[k]))
    <3>1. lines[c] \in Nat
      BY <1>1, ChatConstants DEF ChatTypeOK
    <3>2. \A n \in 0..lines[c] : n \in Nat
      BY <3>1
    <3>3. QED
      BY <1>1, <3>2 DEF ClientInv, InTurn
  <2>2. Spoken(c, n)' /\ n \in 0..lines'[c] /\ Part(wire[k], LinesOf(c), n)'
    <3>1. Spoken(c, n)' /\ Part(wire[k], LinesOf(c), n)'
      BY <1>2, <2>1 DEF Spoken, Part
    <3>2. QED
      BY <1>2, <2>1, <3>1
  <2>3. Reaches(c)' => Reaches(c)
    BY <1>2, <1>6 DEF Reaches, Alive
  <2>4. ASSUME Pipeline(c, n + Len(wire[k])) PROVE Pipeline(c, n + Len(wire[k]))'
    <3>1. /\ \A i \in 1..Len(posted[c]) : posted[c][i] = CloseTask => c \in eof /\ i = Len(posted[c])
          /\ Part(Unsent(k), LinesOf(c), n + Len(wire[k]))
      BY <2>4 DEF Pipeline, PostedFrom
    <3>2. c \in eof /\ Len(posted[c]) = 1
      <4>1. 1 \in 1..Len(posted[c])
        BY <1>0
      <4>2. posted[c][1] = CloseTask
        BY <1>3
      <4>3. QED
        BY <3>1, <4>1, <4>2
    <3>3. 1..Len(posted'[c]) = {}
      BY <1>0, <3>2
    <3>4. Unsent(k)' = Unsent(k) /\ wire'[k] = wire[k]
      BY <1>2 DEF Unsent
    <3>5. \A u : PostedFrom(c, u)'
      BY <1>2, <3>2, <3>3 DEF PostedFrom
    <3>6. QED
      BY <3>1, <3>4, <3>5 DEF Pipeline
  <2>5. QED
    BY <2>1, <2>2, <2>3, <2>4 DEF InTurn
<1>10. ClientInv(c)'
  BY <1>6, <1>7, <1>8, <1>9 DEF ClientInv
<1>11. QED
  BY <1>2, <1>4, <1>5, <1>10, OneStep

-----------------------------------------------------------------------------
\* do_connect's handler.
LEMMA ConnectStep ==
    ASSUME ChatInv, NEW c \in Clients, Connect(c)
    PROVE  ChatInv'
<1> DEFINE s == Session(c)
           k == Client(c)
<1> USE DEF clientVars, roomVars, endVars
<1>1. /\ s \in Ends /\ k \in Ends /\ s # k /\ Peer(s) = k /\ Peer(k) = s
      /\ ClientInv(c) /\ ChatTypeOK
  BY EndFacts DEF ChatInv
<1>2. /\ UNCHANGED <<posted, running, lines, eof, participants, recent_msgs, said, from,
                     write_msgs, writing, wire, screen>>
      /\ sock[c] = "connecting"
      /\ \/ /\ sock' = [sock EXCEPT ![c] = "open"] /\ backlog' = backlog \cup {c}
            /\ reading' = [reading EXCEPT ![k] = "header"]
         \/ sock' = [sock EXCEPT ![c] = "closed"] /\ UNCHANGED <<backlog, reading>>
  BY DEF Connect, StartRead
<1>3. Fresh(c) /\ c \notin backlog
  BY <1>1, <1>2 DEF ClientInv, Newcomer
<1>4. ChatTypeOK'
  BY <1>1, <1>2 DEF ChatTypeOK
<1>5. \A d \in Clients \ {c} : Kept(d)
  BY <1>1, <1>2, EndFacts DEF Kept, ChatTypeOK
<1>6. /\ reading'[s] = reading[s] /\ reading'[k] \in {reading[k], "header"}
      /\ \/ sock'[c] = "open"
         \/ sock'[c] = "closed" /\ c \notin backlog'
  BY <1>1, <1>2, <1>3 DEF ChatTypeOK
<1>7. InFront(s)' /\ InFront(k)' /\ Writing(c)' /\ Heard(c)' /\ Newcomer(c)'
  <2>1. InFront(s)' /\ InFront(k)' /\ Writing(c)' /\ Heard(c)'
    BY <1>1, <1>2, <1>6 DEF ClientInv, InFront, Writing, Heard, Decodable
  <2>2. Fresh(c)'
    BY <1>2, <1>3, <1>6 DEF Fresh
  <2>3. QED
    BY <1>6, <2>1, <2>2 DEF Newcomer
<1>8. Told(c)'
  <2>1. /\ screen'[c] = <<>> /\ wire'[s] = <<>> /\ Unsent(s)' = <<>> /\ from'[c] = 0
        /\ c \notin participants'
    BY <1>2, <1>3 DEF Fresh, Unsent
  <2>2. Shown(c)' = 0 /\ Sent(c)' = 0 /\ Queued(c)' = 0
    BY <2>1 DEF Shown, Sent, Queued
  <2>3. Len(said') \in Nat
    BY <1>4, LenProperties DEF ChatTypeOK
  <2>4. QED
    BY <2>1, <2>2, <2>3 DEF Told, Part
<1>9. Unsent(k)' = Unsent(k) /\ Reaches(c)
  BY <1>2 DEF Unsent, Reaches
<1>10. Typed(c)' /\ InTurn(c)'
  BY <1>1, <1>2, <1>9, TypedKept, InTurnKept DEF ClientInv
<1>11. ClientInv(c)'
  BY <1>7, <1>8, <1>10 DEF ClientInv
<1>12. QED
  BY <1>2, <1>4, <1>5, <1>11, OneStep

\* do_read_body's handler of a client.
LEMMA ClientReadStep ==
    ASSUME ChatInv, NEW c \in Clients, ClientReadBody(c)
    PROVE  ChatInv'
<1> DEFINE s == Session(c)
           k == Client(c)
           m == Head(wire[s])
<1> USE DEF clientVars, roomVars, endVars
<1>1. /\ s \in Ends /\ k \in Ends /\ s # k /\ Peer(s) = k /\ Peer(k) = s
      /\ ClientInv(c) /\ ChatTypeOK /\ InFront(s)
  BY EndFacts DEF ChatInv, ClientInv
<1>2. /\ sock[c] = "open" /\ wire[s] # <<>> /\ screen' = [screen EXCEPT ![c] = Append(@, m)]
      /\ wire' = [wire EXCEPT ![s] = Tail(@)] /\ reading' = [reading EXCEPT ![k] = "header"]
      /\ UNCHANGED <<sock, posted, running, lines, eof, backlog, participants, recent_msgs,
                     said, from, write_msgs, writing>>
  BY OpenFacts, <1>1 DEF ClientReadBody, Arrived, TakeBody, StartRead
<1>3. /\ wire[s] \in Seq(Messages) /\ m \in Messages /\ Tail(wire[s]) \in Seq(Messages)
      /\ Len(wire[s]) \in Nat /\ Len(Tail(wire[s])) = Len(wire[s]) - 1
      /\ screen[c] \in Seq(Messages) /\ Append(screen[c], m) \in Seq(Messages)
      /\ Len(screen[c]) \in Nat /\ Len(Append(screen[c], m)) = Len(screen[c]) + 1
  <2>1. wire[s] \in Seq(Messages) /\ screen[c] \in Seq(Messages)
    BY <1>1 DEF ChatTypeOK
  <2>2. QED
    BY <1>2, <2>1, Taken, Added
<1>4. ChatTypeOK'
  BY <1>1, <1>2, <1>3 DEF ChatTypeOK
<1>5. \A d \in Clients \ {c} : Kept(d)
  BY <1>1, <1>2, EndFacts DEF Kept, ChatTypeOK
<1>6. /\ reading'[s] = reading[s] /\ reading'[k] = "header" /\ wire'[s] = Tail(wire[s])
      /\ wire'[k] = wire[k] /\ screen'[c] = Append(screen[c], m)
  BY <1>1, <1>2 DEF ChatTypeOK
<1>7. InFront(s)' /\ InFront(k)' /\ Writing(c)' /\ Heard(c)'
  BY <1>1, <1>2, <1>6 DEF ClientInv, InFront, Writing, Heard, Decodable
<1>8. Newcomer(c)'
  BY <1>1, <1>2 DEF ClientInv, Newcomer, Fresh
<1>9. Unsent(s)' = Unsent(s) /\ Unsent(k)' = Unsent(k)
  BY <1>2 DEF Unsent
<1>10. Told(c)'
  <2>1. Told(c)
    BY <1>1, <1>2 DEF ClientInv
  <2>2. from[c] \in Nat
    BY <1>1 DEF ChatTypeOK
  <2>3. PICK f \in Nat, h \in Nat, l \in Nat :
            f = from[c] /\ h = Len(screen[c]) /\ l = Len(wire[s])
    BY <1>3, <2>2
  <2>4. Shown(c) = f + h /\ Sent(c) = (f + h) + l /\ Shown(c)' = f + (h + 1)
    BY <1>2, <1>3, <1>6, <2>3 DEF Shown, Sent
  <2>5. Sent(c)' = f + (h + 1) + (l - 1)
    BY <1>3, <1>6, <2>3, <2>4 DEF Sent
  <2>6. Shown(c)' = Shown(c) + 1 /\ Sent(c)' = Sent(c) /\ Shown(c) \in Nat
    BY <2>4, <2>5
  <2>7. Queued(c)' = Queued(c)
    BY <1>9, <2>6 DEF Queued
  <2>8. m = said[Shown(c) + 1] /\ Part(Tail(wire[s]), said, Shown(c) + 1)
    BY <1>2, <1>3, <2>1, <2>6, PartTail DEF Told
  <2>9. m = said[from[c] + Len(screen[c]) + 1]
    BY <2>8 DEF Shown
  <2>10. Part(Append(screen[c], m), said, from[c])
    BY <1>3, <2>1, <2>2, <2>9, PartAdded DEF Told
  <2>11. QED
    BY <1>2, <1>6, <1>9, <2>1, <2>6, <2>7, <2>8, <2>10 DEF Told
<1>11. Reaches(c)' => Reaches(c)
  BY <1>2, <1>6 DEF Reaches, Alive
<1>12. Typed(c)' /\ InTurn(c)'
  BY <1>1, <1>2, <1>6, <1>9, <1>11, TypedKept, InTurnKept DEF ClientInv
<1>13. ClientInv(c)'
  BY <1>7, <1>8, <1>10, <1>12 DEF ClientInv
<1>14. QED
  BY <1>2, <1>4, <1>5, <1>13, OneStep

\* do_accept's handler: the newcomer joins.
LEMMA AcceptStep ==
    ASSUME ChatInv, NEW c \in Clients, Accept(c)
    PROVE  ChatInv'
<1> DEFINE s == Session(c)
           k == Client(c)
<1> USE DEF clientVars, roomVars, endVars
<1>1. /\ s \in Ends /\ k \in Ends /\ s # k /\ Peer(s) = k /\ Peer(k) = s
      /\ ClientInv(c) /\ ChatTypeOK /\ Recent
  BY EndFacts DEF ChatInv
<1>2. /\ c \in backlog /\ backlog' = backlog \ {c} /\ participants' = participants \cup {c}
      /\ write_msgs' = [write_msgs EXCEPT ![s] = recent_msgs]
      /\ writing' = [writing EXCEPT ![s] = IF recent_msgs = <<>> THEN "none" ELSE "sending"]
      /\ from' = [from EXCEPT ![c] = Len(said) - Len(recent_msgs)]
      /\ reading' = [reading EXCEPT ![s] = "header"]
      /\ UNCHANGED <<sock, posted, running, lines, eof, recent_msgs, said, wire, screen>>
  BY DEF Accept, Join, StartRead
<1>3. Fresh(c) /\ sock[c] # "connecting"
  BY <1>1, <1>2 DEF ClientInv, Newcomer
<1>4. PICK n \in Nat, r \in Nat, f \in Nat :
          n = Len(said) /\ r = Len(recent_msgs) /\ f = n - r /\ f + r = n
  <2>1. Len(said) \in Nat /\ MaxRecent \in Nat
    BY <1>1, LenProperties, ChatConstants DEF ChatTypeOK
  <2>2. Len(recent_msgs) \in Nat /\ Len(recent_msgs) <= Len(said)
    BY <1>1, <2>1 DEF Recent
  <2>3. QED
    BY <2>1, <2>2
<1>5. ChatTypeOK'
  <2>1. from' = [from EXCEPT ![c] = f]
    BY <1>2, <1>4
  <2>2. from' \in [Clients -> Nat]
    BY <1>1, <2>1 DEF ChatTypeOK
  <2>3. QED
    BY <1>1, <1>2, <2>2 DEF ChatTypeOK, EndStates
<1>6. \A d \in Clients \ {c} : Kept(d)
  BY <1>1, <1>2, EndFacts DEF Kept, ChatTypeOK
<1>7. /\ write_msgs'[s] = recent_msgs /\ write_msgs'[k] = write_msgs[k]
      /\ writing'[s] = (IF recent_msgs = <<>> THEN "none" ELSE "sending")
      /\ writing'[k] = writing[k] /\ reading'[s] = "header" /\ reading'[k] = reading[k]
      /\ from'[c] = f /\ c \notin backlog'
  BY <1>1, <1>2, <1>4 DEF ChatTypeOK
<1>8. InFront(s)' /\ InFront(k)' /\ Writing(c)' /\ Heard(c)' /\ Newcomer(c)'
  BY <1>1, <1>2, <1>3, <1>7 DEF ClientInv, InFront, Writing, Heard, Newcomer
<1>9. Unsent(s)' = recent_msgs /\ Unsent(k)' = Unsent(k)
  BY <1>7 DEF Unsent
<1>10. Told(c)'
  <2>1. screen'[c] = <<>> /\ wire'[s] = <<>>
    BY <1>2, <1>3 DEF Fresh
  <2>2. Shown(c)' = f
    BY <1>7, <2>1 DEF Shown
  <2>3. Sent(c)' = f
    BY <2>1, <2>2 DEF Sent
  <2>4. Queued(c)' = n
    BY <1>4, <1>9, <2>3 DEF Queued
  <2>5. \A i \in 1..Len(recent_msgs) : recent_msgs[i] = said[f + i]
    BY <1>1, <1>4 DEF Recent
  <2>6. Part(Unsent(s)', said', Sent(c)')
    BY <1>2, <1>9, <2>3, <2>5 DEF Part
  <2>7. QED
    BY <1>2, <1>4, <2>1, <2>4, <2>6 DEF Told, Part
<1>11. Reaches(c)
  BY <1>2 DEF Reaches
<1>12. Typed(c)' /\ InTurn(c)'
  BY <1>1, <1>2, <1>7, <1>9, <1>11, TypedKept, InTurnKept DEF ClientInv
<1>13. ClientInv(c)'
  BY <1>8, <1>10, <1>12 DEF ClientInv
<1>14. QED
  BY <1>2, <1>5, <1>6, <1>13, OneStep

-----------------------------------------------------------------------------
\* do_read_body's handler of a session: a line is said, and told to everyone.
LEMMA PartGrown ==
    ASSUME NEW S, NEW t \in Seq(S), NEW x \in S, NEW q, NEW n \in Nat, Part(q, t, n),
           Len(q) \in Nat, n + Len(q) <= Len(t)
    PROVE  Part(q, Append(t, x), n)
<1>1. Len(t) \in Nat /\ \A i \in 1..Len(t) : Append(t, x)[i] = t[i]
  BY Added
<1>2. \A i \in 1..Len(q) : n + i \in 1..Len(t)
  BY <1>1
<1>3. QED
  BY <1>1, <1>2 DEF Part

\* What a session says.
LEMMA SessionReads ==
    ASSUME ChatInv, NEW c \in Clients, SessionReadBody(c)
    PROVE  \E n \in Nat :
              /\ wire[Client(c)] # <<>> /\ Head(wire[Client(c)]) = <<c, n + 1>>
              /\ <<c, n + 1>> \in Messages /\ <<c, n + 1>> \notin Undecodable
              /\ n + 1 <= lines[c] /\ n + 1 \in 0..lines[c]
              /\ Spoken(c, n) /\ Part(Tail(wire[Client(c)]), LinesOf(c), n + 1)
              /\ Pipeline(c, n + Len(wire[Client(c)]))
<1> DEFINE s == Session(c)
           k == Client(c)
           m == Head(wire[k])
<1>1. /\ s \in Ends /\ k \in Ends /\ Peer(s) = k /\ ClientInv(c) /\ ChatTypeOK
  BY EndFacts DEF ChatInv
<1>2. wire[k] # <<>> /\ reading[s] = "body"
  BY <1>1 DEF SessionReadBody, Arrived, TakeBody
<1>3. m \notin Undecodable
  BY <1>1, <1>2 DEF ClientInv, InFront
<1>4. Reaches(c)
  BY <1>2 DEF Reaches, Alive
<1>5. lines[c] \in Nat
  BY <1>1, ChatConstants DEF ChatTypeOK
<1>6. PICK n \in Nat :
          /\ n \in 0..lines[c] /\ Spoken(c, n) /\ Part(wire[k], LinesOf(c), n)
          /\ Pipeline(c, n + Len(wire[k]))
  <2>1. \A n \in 0..lines[c] : n \in Nat
    BY <1>5
  <2>2. QED
    BY <1>1, <1>4, <2>1 DEF ClientInv, InTurn
<1>7. /\ wire[k] \in Seq(Messages) /\ m \in Messages /\ m = wire[k][1] /\ 1 \in 1..Len(wire[k])
  <2>1. wire[k] \in Seq(Messages)
    BY <1>1 DEF ChatTypeOK
  <2>2. QED
    BY <1>2, <2>1, Taken
<1>8. m = LinesOf(c)[n + 1] /\ Part(Tail(wire[k]), LinesOf(c), n + 1)
  BY <1>2, <1>6, <1>7, PartTail
<1>9. m = <<c, n + 1>>
  <2>1. n + 1 \in Nat
    OBVIOUS
  <2>2. LinesOf(c)[n + 1] = <<c, n + 1>>
    BY <2>1 DEF LinesOf
  <2>3. QED
    BY <1>8, <2>2
<1>10. n + 1 \in 1..lines[c]
  <2>1. m \in {c} \X (1..lines[c])
    BY <1>1, <1>7 DEF ClientInv, Typed
  <2>2. QED
    BY <1>9, <2>1
<1>11. n + 1 <= lines[c] /\ n + 1 \in 0..lines[c]
  BY <1>5, <1>10
<1>12. <<c, n + 1>> \in Messages /\ <<c, n + 1>> \notin Undecodable
  BY <1>3, <1>7, <1>9
<1>13. QED
  BY <1>2, <1>6, <1>8, <1>9, <1>11, <1>12

\* The messages queued for the sessions: m more for those that are in the room.
LEMMA Delivered ==
    ASSUME ChatTypeOK, NEW m \in Messages, Deliver(m)
    PROVE  /\ \A d \in Clients :
                 /\ write_msgs'[Client(d)] = write_msgs[Client(d)]
                 /\ writing'[Client(d)] = writing[Client(d)]
                 /\ d \in participants =>
                       /\ write_msgs'[Session(d)] = Append(write_msgs[Session(d)], m)
                       /\ writing'[Session(d)] = IF write_msgs[Session(d)] = <<>>
                                                 THEN "sending" ELSE writing[Session(d)]
                 /\ d \notin participants =>
                       /\ write_msgs'[Session(d)] = write_msgs[Session(d)]
                       /\ writing'[Session(d)] = writing[Session(d)]
           /\ write_msgs' \in [Ends -> Seq(Messages)]
           /\ writing' \in [Ends -> EndStates]
<1> DEFINE to == {Session(d) : d \in participants}
<1>1. /\ write_msgs' = [e \in Ends |-> IF e \in to THEN Append(write_msgs[e], m)
                                       ELSE write_msgs[e]]
      /\ writing' = [e \in Ends |-> IF e \in to /\ write_msgs[e] = <<>> THEN "sending"
                                    ELSE writing[e]]
  BY DEF Deliver
<1>2. participants \subseteq Clients
  BY DEF ChatTypeOK
<1>3. \A d \in Clients : Client(d) \notin to /\ (Session(d) \in to <=> d \in participants)
  BY <1>2, EndFacts
<1>4. \A d \in Clients : Client(d) \in Ends /\ Session(d) \in Ends
  BY EndFacts
<1>5. \A e \in Ends : Append(write_msgs[e], m) \in Seq(Messages)
  BY AppendProperties DEF ChatTypeOK
<1>6. QED
  <2>1. write_msgs' \in [Ends -> Seq(Messages)] /\ writing' \in [Ends -> EndStates]
    <3> HIDE DEF to
    <3>1. QED
      BY <1>1, <1>5 DEF ChatTypeOK, EndStates
  <2>2. ASSUME NEW d \in Clients
        PROVE  /\ write_msgs'[Client(d)] = write_msgs[Client(d)]
               /\ writing'[Client(d)] = writing[Client(d)]
               /\ d \in participants =>
                     /\ write_msgs'[Session(d)] = Append(write_msgs[Session(d)], m)
                     /\ writing'[Session(d)] = IF write_msgs[Session(d)] = <<>>
                                               THEN "sending" ELSE writing[Session(d)]
               /\ d \notin participants =>
                     /\ write_msgs'[Session(d)] = write_msgs[Session(d)]
                     /\ writing'[Session(d)] = writing[Session(d)]
    <3> HIDE DEF to
    <3>1. QED
      BY <1>1, <1>3, <1>4
  <2>3. QED
    BY <2>1, <2>2

\* The conversation grows by what the participants are told.
LEMMA ToldMore ==
    ASSUME ChatTypeOK, NEW c \in Clients, Told(c), InFront(Session(c)), NEW m \in Messages,
           Deliver(m), said' = Append(said, m), UNCHANGED <<participants, from, screen>>,
           wire'[Session(c)] = wire[Session(c)]
    PROVE  Told(c)'
<1> DEFINE s == Session(c)
<1>1. /\ s \in Ends /\ said \in Seq(Messages) /\ screen[c] \in Seq(Messages)
      /\ from[c] \in Nat
  BY EndFacts DEF ChatTypeOK
<1>2. Unsent(s) \in Seq(Messages) /\ Len(Unsent(s)) \in Nat /\ Len(wire[s]) \in Nat
  BY <1>1, UnsentType
<1>3. /\ Shown(c) \in Nat /\ Sent(c) \in Nat /\ Queued(c) \in Nat
      /\ Shown(c) = from[c] + Len(screen[c]) /\ Sent(c) = Shown(c) + Len(wire[s])
      /\ Queued(c) = Sent(c) + Len(Unsent(s)) /\ Len(screen[c]) \in Nat
  <2>1. Len(screen[c]) \in Nat
    BY <1>1, LenProperties
  <2>2. Shown(c) = from[c] + Len(screen[c]) /\ Shown(c) \in Nat
    BY <1>1, <2>1 DEF Shown
  <2>3. Sent(c) = Shown(c) + Len(wire[s]) /\ Sent(c) \in Nat
    BY <1>2, <2>2 DEF Sent
  <2>4. Queued(c) = Sent(c) + Len(Unsent(s)) /\ Queued(c) \in Nat
    BY <1>2, <2>3 DEF Queued
  <2>5. QED
    BY <2>1, <2>2, <2>3, <2>4
<1>4. Len(said) \in Nat /\ Len(said') = Len(said) + 1 /\ said'[Len(said) + 1] = m
  BY <1>1, Added
<1>5. Shown(c) <= Sent(c) /\ Sent(c) <= Queued(c) /\ Queued(c) <= Len(said)
  <2>1. Shown(c) <= Sent(c) /\ Sent(c) <= Queued(c)
    BY <1>2, <1>3
  <2>2. QED
    BY <2>1 DEF Told
<1>6. /\ from[c] + Len(screen[c]) <= Len(said) /\ Shown(c) + Len(wire[s]) <= Len(said)
      /\ Sent(c) + Len(Unsent(s)) <= Len(said)
  <2>1. Shown(c) <= Len(said) /\ Sent(c) <= Len(said)
    BY <1>3, <1>4, <1>5
  <2>2. QED
    BY <1>3, <1>5, <2>1
<1>7. Part(screen[c], said', from[c])
  BY <1>1, <1>3, <1>6, PartGrown DEF Told
<1>8. Part(wire[s], said', Shown(c))
  BY <1>1, <1>2, <1>3, <1>6, PartGrown DEF Told
<1>9. Part(Unsent(s), said', Sent(c))
  BY <1>1, <1>2, <1>3, <1>6, PartGrown DEF Told
<1>10. Shown(c)' = Shown(c) /\ Sent(c)' = Sent(c)
  BY DEF Shown, Sent
<1>11. CASE c \notin participants
  <2>1. Unsent(s)' = Unsent(s)
    BY <1>11, Delivered DEF Unsent
  <2>2. Queued(c)' = Queued(c)
    BY <1>10, <2>1 DEF Queued
  <2>3. Queued(c) <= Len(said')
    BY <1>3, <1>4, <1>5
  <2>4. QED
    BY <1>7, <1>8, <1>9, <1>10, <1>11, <2>1, <2>2, <2>3 DEF Told
<1>12. CASE c \in participants
  <2>1. Unsent(s)' = Append(Unsent(s), m)
    <3>1. /\ write_msgs'[s] = Append(write_msgs[s], m)
          /\ writing'[s] = IF write_msgs[s] = <<>> THEN "sending" ELSE writing[s]
      BY <1>12, Delivered
    <3>2. QED
      BY <1>1, <3>1, UnsentQueued
  <2>2. Len(Unsent(s)') = Len(Unsent(s)) + 1
    BY <1>2, <2>1, Added
  <2>3. Queued(c) = Len(said)
    BY <1>12 DEF Told
  <2>4. Queued(c)' = Sent(c) + (Len(Unsent(s)) + 1)
    BY <1>10, <2>2 DEF Queued
  <2>5. Queued(c)' = Len(said')
    <3>1. PICK u \in Nat, n \in Nat : u = Len(Unsent(s)) /\ n = Sent(c)
      BY <1>2, <1>3
    <3>2. n + u = Len(said) /\ Queued(c)' = n + (u + 1)
      BY <1>3, <2>3, <2>4, <3>1
    <3>3. n + (u + 1) = n + u + 1
      OBVIOUS
    <3>4. QED
      BY <1>4, <3>2, <3>3
  <2>6. m = said'[Sent(c) + Len(Unsent(s)) + 1]
    BY <1>3, <1>4, <2>3
  <2>7. Part(Unsent(s)', said', Sent(c))
    BY <1>2, <1>3, <1>9, <2>1, <2>6, PartAdded
  <2>8. Queued(c)' <= Len(said')
    BY <1>4, <2>5
  <2>9. QED
    BY <1>7, <1>8, <1>10, <2>5, <2>7, <2>8 DEF Told
<1>13. QED
  BY <1>11, <1>12

\* The end of the conversation, and the order in it, after one more message.
LEMMA RecentMore ==
    ASSUME ChatTypeOK, Recent, NEW m \in Messages, Remember(m), said' = Append(said, m)
    PROVE  Recent' /\ recent_msgs' \in Seq(Messages)
<1> DEFINE r == Append(recent_msgs, m)
<1>1. /\ said \in Seq(Messages) /\ recent_msgs \in Seq(Messages) /\ MaxRecent \in Nat
      /\ recent_msgs' = IF Len(r) > MaxRecent THEN Tail(r) ELSE r
  BY ChatConstants DEF ChatTypeOK, Remember
<1>2. /\ Len(said) \in Nat /\ Len(said') = Len(said) + 1 /\ said'[Len(said) + 1] = m
      /\ \A i \in 1..Len(said) : said'[i] = said[i]
  BY <1>1, Added
<1>3. /\ r \in Seq(Messages) /\ r # <<>> /\ Len(recent_msgs) \in Nat
      /\ Len(r) = Len(recent_msgs) + 1 /\ r[Len(recent_msgs) + 1] = m
      /\ \A i \in 1..Len(recent_msgs) : r[i] = recent_msgs[i]
  BY <1>1, Added
<1>4. PICK n \in Nat, l \in Nat : n = Len(said) /\ l = Len(recent_msgs)
  BY <1>2, <1>3
<1>5. l = (IF n > MaxRecent THEN MaxRecent ELSE n) /\ l <= n
  BY <1>1, <1>4 DEF Recent
<1>6. Len(said') = n + 1 /\ Len(r) = l + 1
  BY <1>2, <1>3, <1>4
<1>7. \A i \in 1..(l + 1) : r[i] = said'[n - l + i]
  <2>1. ASSUME NEW i \in 1..l PROVE r[i] = said'[n - l + i]
    <3>1. n - l + i \in 1..n
      BY <1>5, <2>1
    <3>2. recent_msgs[i] = said[n - l + i]
      BY <1>4, <2>1 DEF Recent
    <3>3. QED
      BY <1>2, <1>3, <1>4, <3>1, <3>2
  <2>2. r[l + 1] = said'[n - l + (l + 1)]
    <3>1. n - l + (l + 1) = n + 1
      OBVIOUS
    <3>2. QED
      BY <1>2, <1>3, <1>4, <3>1
  <2>3. \A i \in 1..(l + 1) : i \in 1..l \/ i = l + 1
    OBVIOUS
  <2>4. QED
    BY <2>1, <2>2, <2>3
<1> HIDE DEF r
<1>8. CASE l + 1 > MaxRecent
  <2>1. recent_msgs' = Tail(r)
    BY <1>1, <1>6, <1>8
  <2>2. /\ recent_msgs' \in Seq(Messages) /\ Len(recent_msgs') = Len(r) - 1
        /\ \A i \in 1..Len(recent_msgs') : recent_msgs'[i] = r[i + 1]
    BY <1>3, <2>1, Taken
  <2>3. Len(recent_msgs') = l /\ l = (IF n + 1 > MaxRecent THEN MaxRecent ELSE n + 1)
    <3>1. Len(recent_msgs') = l
      BY <1>6, <2>2
    <3>2. QED
      BY <1>1, <1>5, <1>8, <3>1
  <2>4. ASSUME NEW i \in 1..l PROVE recent_msgs'[i] = said'[n + 1 - l + i]
    <3>1. i + 1 \in 1..(l + 1) /\ n - l + (i + 1) = n + 1 - l + i
      BY <2>4
    <3>2. recent_msgs'[i] = r[i + 1]
      BY <2>2, <2>3, <2>4
    <3>3. QED
      BY <1>7, <3>1, <3>2
  <2>5. \A i \in 1..l : recent_msgs'[i] = said'[n + 1 - l + i]
    BY <2>4
  <2>6. \A i \in 1..Len(recent_msgs') :
            recent_msgs'[i] = said'[Len(said') - Len(recent_msgs') + i]
    BY <1>6, <2>3, <2>5, SMTT(30)
  <2>7. Len(recent_msgs') = IF Len(said') > MaxRecent THEN MaxRecent ELSE Len(said')
    BY <1>6, <2>3
  <2>8. QED
    BY <2>2, <2>6, <2>7 DEF Recent
<1>9. CASE ~(l + 1 > MaxRecent)
  <2>1. recent_msgs' = r
    BY <1>1, <1>6, <1>9
  <2>2. l = n /\ l + 1 = (IF n + 1 > MaxRecent THEN MaxRecent ELSE n + 1)
    BY <1>1, <1>5, <1>9
  <2>3. \A i \in 1..(l + 1) : recent_msgs'[i] = said'[n + 1 - (l + 1) + i]
    <3>1. \A i \in 1..(l + 1) : n + 1 - (l + 1) + i = n - l + i
      OBVIOUS
    <3>2. QED
      BY <1>7, <2>1, <3>1
  <2>4. QED
    BY <1>3, <1>6, <2>1, <2>2, <2>3 DEF Recent
<1>10. QED
  BY <1>8, <1>9

LEMMA OrderMore ==
    ASSUME ChatTypeOK, SpokenInOrder, NEW c \in Clients, NEW n \in Nat, Spoken(c, n),
           <<c, n + 1>> \in Messages, n + 1 <= lines[c],
           said' = Append(said, <<c, n + 1>>), UNCHANGED lines
    PROVE  SpokenInOrder'
<1> DEFINE m == <<c, n + 1>>
<1>0. PICK l \in Nat : l = Len(said) + 1
  BY LenProperties DEF ChatTypeOK
<1>1. /\ said \in Seq(Messages) /\ Len(said) \in Nat /\ said'[l] = m
      /\ \A i \in 1..Len(said) : said'[i] = said[i]
      /\ \A i \in 1..Len(said') : i \in 1..Len(said) \/ i = l
  BY <1>0, Added DEF ChatTypeOK
<1>2. ASSUME NEW i \in 1..Len(said)
      PROVE  said'[i][2] <= lines'[said'[i][1]] /\ InPlace(i)'
  <2>1. said'[i] = said[i] /\ \A j \in 1..(i - 1) : j \in 1..Len(said) /\ said'[j] = said[j]
    BY <1>1, <1>2
  <2>2. said[i][2] <= lines[said[i][1]] /\ InPlace(i)
    BY <1>2 DEF SpokenInOrder
  <2>3. QED
    BY <2>1, <2>2 DEF InPlace
<1>3. said'[l][2] <= lines'[said'[l][1]] /\ InPlace(l)'
  <2>1. said'[l][1] = c /\ said'[l][2] = n + 1 /\ n + 1 - 1 = n
    BY <1>1
  <2>2. l - 1 = Len(said)
    BY <1>0, <1>1
  <2>3. \A k \in 1..n : \E j \in 1..Len(said) : said'[j] = <<c, k>>
    BY <1>1 DEF Spoken
  <2>4. \A j \in 1..Len(said) : said'[j] # said'[l]
    <3>1. ASSUME NEW j \in 1..Len(said), said[j] = m PROVE FALSE
      <4>1. said[j][1] = c /\ said[j][2] = n + 1
        BY <3>1
      <4>2. n + 1 <= n
        BY <4>1 DEF Spoken
      <4>3. QED
        BY <4>2
    <3>2. QED
      BY <1>1, <3>1
  <2>5. InPlace(l)'
    <3>1. said'[l][2] - 1 = n /\ said'[l][1] = c
      <4>1. \A x : x = n + 1 => x - 1 = n
        OBVIOUS
      <4>2. QED
        BY <2>1, <4>1, Zenon
    <3>2. \A k \in 1..(said'[l][2] - 1) : \E j \in 1..(l - 1) : said'[j] = <<said'[l][1], k>>
      BY <2>2, <2>3, <3>1
    <3>3. \A j \in 1..(l - 1) : said'[j] # said'[l]
      BY <2>2, <2>4
    <3>4. QED
      BY <3>2, <3>3 DEF InPlace
  <2>6. said'[l][2] = n + 1 /\ lines'[said'[l][1]] = lines[c]
    BY <2>1
  <2>7. said'[l][2] <= lines'[said'[l][1]]
    BY <2>6
  <2>8. QED
    BY <2>5, <2>7
<1>4. QED
  BY <1>1, <1>2, <1>3 DEF SpokenInOrder

\* What is said of the lines of the speaker, and of the others.
LEMMA SpokenMore ==
    ASSUME ChatTypeOK, NEW c \in Clients, NEW n \in Nat, Spoken(c, n),
           <<c, n + 1>> \in Messages, <<c, n + 1>> \notin Undecodable,
           said' = Append(said, <<c, n + 1>>)
    PROVE  /\ Spoken(c, n + 1)'
           /\ \A d \in Clients \ {c} : \A l \in Nat : Spoken(d, l) => Spoken(d, l)'
<1> DEFINE m == <<c, n + 1>>
<1>1. /\ said \in Seq(Messages) /\ Len(said) \in Nat /\ said'[Len(said) + 1] = m
      /\ \A i \in 1..Len(said) : said'[i] = said[i]
      /\ \A i \in 1..Len(said') : i \in 1..Len(said) \/ i = Len(said) + 1
      /\ Len(said') = Len(said) + 1
  BY Added DEF ChatTypeOK
<1>2. Len(said) + 1 \in 1..Len(said') /\ \A i \in 1..Len(said) : i \in 1..Len(said')
  BY <1>1
<1>3. \A k \in 1..(n + 1) : k \in 1..n \/ k = n + 1
  OBVIOUS
<1>4. m[1] = c /\ m[2] = n + 1
  OBVIOUS
<1>5. Spoken(c, n + 1)'
  <2>1. \A i \in 1..Len(said') : said'[i][1] = c => said'[i][2] <= n + 1
    <3>1. ASSUME NEW i \in 1..Len(said), said[i][1] = c PROVE said[i][2] <= n + 1
      <4>1. said[i][2] <= n
        BY <3>1 DEF Spoken
      <4>2. said[i] \in Messages
        BY <1>1, <3>1, ElementOfSeq
      <4>3. said[i][2] \in Nat
        BY <4>2, ChatConstants DEF Messages
      <4>4. QED
        BY <4>1, <4>3
    <3>2. QED
      BY <1>1, <1>4, <3>1
  <2>2. \A k \in 1..(n + 1) : \E i \in 1..Len(said') : said'[i] = <<c, k>>
    <3>1. ASSUME NEW k \in 1..n PROVE \E i \in 1..Len(said') : said'[i] = <<c, k>>
      <4>1. PICK i \in 1..Len(said) : said[i] = <<c, k>>
        BY <3>1 DEF Spoken
      <4>2. QED
        BY <1>1, <1>2, <4>1
    <3>2. QED
      BY <1>1, <1>2, <1>3, <3>1
  <2>3. \A k \in 1..(n + 1) : <<c, k>> \notin Undecodable
    BY <1>3 DEF Spoken
  <2>4. QED
    BY <2>1, <2>2, <2>3 DEF Spoken
<1>6. ASSUME NEW d \in Clients \ {c}, NEW l \in Nat, Spoken(d, l) PROVE Spoken(d, l)'
  <2>1. \A i \in 1..Len(said') : said'[i][1] = d => said'[i][2] <= l
    BY <1>1, <1>4, <1>6 DEF Spoken
  <2>2. \A k \in 1..l : \E i \in 1..Len(said') : said'[i] = <<d, k>>
    <3>1. ASSUME NEW k \in 1..l PROVE \E i \in 1..Len(said') : said'[i] = <<d, k>>
      <4>1. PICK i \in 1..Len(said) : said[i] = <<d, k>>
        BY <1>6, <3>1 DEF Spoken
      <4>2. QED
        BY <1>1, <1>2, <4>1
    <3>2. QED
      BY <3>1
  <2>3. QED
    BY <1>6, <2>1, <2>2 DEF Spoken
<1>7. QED
  BY <1>5, <1>6

\* The lines of another client, which its session did not say.
LEMMA InTurnMore ==
    ASSUME NEW c \in Clients, InTurn(c), lines[c] \in Nat,
           \A n \in Nat : Spoken(c, n) => Spoken(c, n)',
           wire'[Client(c)] = wire[Client(c)], Unsent(Client(c))' = Unsent(Client(c)),
           UNCHANGED <<posted, lines, eof>>, Reaches(c)' => Reaches(c)
    PROVE  InTurn(c)'
<1>1. PICK n \in Nat :
          /\ n \in 0..lines[c] /\ Spoken(c, n) /\ Part(wire[Client(c)], LinesOf(c), n)
          /\ Reaches(c) => Pipeline(c, n + Len(wire[Client(c)]))
  <2>1. \A n \in 0..lines[c] : n \in Nat
    OBVIOUS
  <2>2. QED
    BY <2>1 DEF InTurn
<1>2. Spoken(c, n)' /\ n \in 0..lines'[c]
  BY <1>1
<1>3. Reaches(c)' => Pipeline(c, n + Len(wire[Client(c)]))'
  BY <1>1 DEF Pipeline, PostedFrom
<1>4. Part(wire[Client(c)], LinesOf(c), n)'
  BY <1>1 DEF Part
<1>5. QED
  BY <1>2, <1>3, <1>4 DEF InTurn

LEMMA SpeakStep ==
    ASSUME ChatInv, NEW c \in Clients, SessionReadBody(c)
    PROVE  ChatInv'
<1> DEFINE s == Session(c)
           k == Client(c)
<1> USE DEF clientVars, roomVars, endVars
<1>1. /\ s \in Ends /\ k \in Ends /\ s # k /\ Peer(s) = k /\ Peer(k) = s
      /\ ClientInv(c) /\ ChatTypeOK /\ Recent /\ SpokenInOrder
  BY EndFacts DEF ChatInv
<1>2. PICK n \in Nat :
          /\ wire[k] # <<>> /\ Head(wire[k]) = <<c, n + 1>>
          /\ <<c, n + 1>> \in Messages /\ <<c, n + 1>> \notin Undecodable
          /\ n + 1 <= lines[c] /\ n + 1 \in 0..lines[c]
          /\ Spoken(c, n) /\ Part(Tail(wire[k]), LinesOf(c), n + 1)
          /\ Pipeline(c, n + Len(wire[k]))
  BY SessionReads
<1>3. PICK m \in Messages : m = <<c, n + 1>>
  BY <1>2
<1>4. /\ Remember(m) /\ Deliver(m) /\ said' = Append(said, m) /\ reading[s] = "body"
      /\ wire' = [wire EXCEPT ![k] = Tail(@)] /\ reading' = [reading EXCEPT ![s] = "header"]
      /\ UNCHANGED <<sock, posted, running, lines, eof, backlog, participants, from, screen>>
  BY <1>1, <1>2, <1>3 DEF SessionReadBody, Arrived, TakeBody, StartRead
<1>5. Recent' /\ recent_msgs' \in Seq(Messages)
  BY <1>1, <1>4, RecentMore
<1>6. SpokenInOrder'
  BY <1>1, <1>2, <1>3, <1>4, OrderMore
<1>7. /\ wire[k] \in Seq(Messages) /\ Tail(wire[k]) \in Seq(Messages)
      /\ Len(wire[k]) \in Nat /\ Len(Tail(wire[k])) = Len(wire[k]) - 1
      /\ \A i \in 1..Len(Tail(wire[k])) : Tail(wire[k])[i] = wire[k][i + 1]
      /\ said' \in Seq(Messages)
  <2>1. wire[k] \in Seq(Messages) /\ said \in Seq(Messages)
    BY <1>1 DEF ChatTypeOK
  <2>2. QED
    BY <1>2, <1>4, <2>1, Taken, Added
<1>8. write_msgs' \in [Ends -> Seq(Messages)] /\ writing' \in [Ends -> EndStates]
  BY <1>1, <1>4, Delivered
<1>9. ChatTypeOK'
  <2>1. /\ wire' \in [Ends -> Seq(Messages)]
        /\ reading' \in [Ends -> {"none", "header", "body"}]
    BY <1>1, <1>4, <1>7 DEF ChatTypeOK
  <2>2. QED
    BY <1>1, <1>4, <1>5, <1>7, <1>8, <2>1 DEF ChatTypeOK
<1>10. /\ wire'[k] = Tail(wire[k]) /\ reading'[s] = "header"
       /\ \A e \in Ends \ {k} : wire'[e] = wire[e]
       /\ \A e \in Ends \ {s} : reading'[e] = reading[e]
  BY <1>1, <1>4 DEF ChatTypeOK
<1>11. ASSUME NEW d \in Clients
       PROVE  /\ InFront(Session(d))' /\ InFront(Client(d))' /\ Writing(d)' /\ Newcomer(d)'
              /\ Heard(d)' /\ (sock'[d] = "open" => Told(d)')
              /\ Unsent(Client(d))' = Unsent(Client(d)) /\ (Reaches(d)' => Reaches(d))
              /\ write_msgs'[Client(d)] = write_msgs[Client(d)]
  <2>1. /\ Session(d) \in Ends /\ Client(d) \in Ends /\ Session(d) # k /\ Client(d) # s
        /\ Peer(Session(d)) = Client(d) /\ Peer(Client(d)) = Session(d)
        /\ ClientInv(d) /\ InFront(Session(d)) /\ InFront(Client(d))
        /\ wire'[Session(d)] = wire[Session(d)] /\ reading'[Client(d)] = reading[Client(d)]
        /\ d # c => /\ wire'[Client(d)] = wire[Client(d)]
                    /\ reading'[Session(d)] = reading[Session(d)]
        /\ d = c => reading'[Session(d)] = "header" /\ reading[Session(d)] = "body"
    BY <1>4, <1>10, EndFacts DEF ChatInv, ClientInv
  <2>2. /\ write_msgs'[Client(d)] = write_msgs[Client(d)]
        /\ writing'[Client(d)] = writing[Client(d)]
        /\ d \in participants =>
              /\ write_msgs'[Session(d)] = Append(write_msgs[Session(d)], m)
              /\ writing'[Session(d)] = IF write_msgs[Session(d)] = <<>>
                                        THEN "sending" ELSE writing[Session(d)]
        /\ d \notin participants =>
              /\ write_msgs'[Session(d)] = write_msgs[Session(d)]
              /\ writing'[Session(d)] = writing[Session(d)]
    BY <1>1, <1>4, Delivered
  <2>3. write_msgs'[Session(d)] = Append(write_msgs[Session(d)], m) => write_msgs'[Session(d)] # <<>>
    <3>1. write_msgs[Session(d)] \in Seq(Messages)
      BY <1>1, <2>1 DEF ChatTypeOK
    <3>2. QED
      BY <3>1, Added
  <2>4. InFront(Session(d))' /\ InFront(Client(d))'
    BY <2>1, <2>2, <2>3 DEF InFront
  <2>5. Writing(d)'
    BY <1>4, <2>1, <2>2 DEF ClientInv, Writing, InFront
  <2>6. Newcomer(d)'
    <3>1. Fresh(d) => Fresh(d)'
      BY <1>4, <2>1, <2>2 DEF Fresh
    <3>2. QED
      BY <1>4, <2>1, <3>1 DEF ClientInv, Newcomer
  <2>7. Heard(d)'
    BY <1>4, <2>1 DEF ClientInv, Heard, Decodable
  <2>8. sock'[d] = "open" => Told(d)'
    BY <1>1, <1>4, <2>1, ToldMore DEF ClientInv
  <2>9. Unsent(Client(d))' = Unsent(Client(d))
    BY <2>2 DEF Unsent
  <2>10. Reaches(d)' => Reaches(d)
    <3>1. CASE d = c
      BY <2>1, <3>1 DEF Reaches, Alive
    <3>2. CASE d # c
      <4>1. d \notin participants => writing'[Session(d)] = writing[Session(d)]
        BY <2>2
      <4>2. QED
        BY <1>4, <2>1, <3>2, <4>1 DEF Reaches, Alive
    <3>3. QED
      BY <3>1, <3>2
  <2>11. QED
    BY <2>2, <2>4, <2>5, <2>6, <2>7, <2>8, <2>9, <2>10
<1>12. /\ Spoken(c, n + 1)'
       /\ \A d \in Clients \ {c} : \A l \in Nat : Spoken(d, l) => Spoken(d, l)'
  BY <1>1, <1>2, <1>3, <1>4, SpokenMore
<1>13. \A d \in Clients : lines[d] \in Nat
  BY <1>1, ChatConstants DEF ChatTypeOK
<1>14. ASSUME NEW d \in Clients \ {c} PROVE Typed(d)' /\ InTurn(d)'
  <2>1. wire'[Client(d)] = wire[Client(d)]
    BY <1>10, EndFacts
  <2>2. Typed(d) /\ InTurn(d)
    BY DEF ChatInv, ClientInv
  <2>3. Typed(d)'
    BY <1>4, <1>11, <2>1, <2>2, TypedKept
  <2>4. InTurn(d)'
    BY <1>4, <1>11, <1>12, <1>13, <2>1, <2>2, InTurnMore
  <2>5. QED
    BY <2>3, <2>4
<1>15. Typed(c)'
  <2>1. \A i \in 1..Len(wire'[k]) : wire'[k][i] \in {c} \X (1..lines[c])
    <3>1. \A i \in 1..Len(Tail(wire[k])) : i + 1 \in 1..Len(wire[k])
      BY <1>7
    <3>2. \A i \in 1..Len(wire[k]) : wire[k][i] \in {c} \X (1..lines[c])
      BY <1>1 DEF ClientInv, Typed
    <3>3. QED
      BY <1>7, <1>10, <3>1, <3>2
  <2>2. Typed(c)
    BY <1>1 DEF ClientInv
  <2>3. QED
    BY <1>4, <1>11, <2>1, <2>2 DEF Typed
<1>16. InTurn(c)'
  <2>1. n + 1 + Len(wire'[k]) = n + Len(wire[k])
    <3>1. PICK l \in Nat : l = Len(wire[k])
      BY <1>7
    <3>2. Len(wire'[k]) = l - 1
      BY <1>7, <1>10, <3>1
    <3>3. n + 1 + (l - 1) = n + l
      OBVIOUS
    <3>4. QED
      BY <3>1, <3>2, <3>3
  <2>2. PICK w \in Nat : w = n + Len(wire[k])
    BY <1>7
  <2>3. Pipeline(c, w)
    BY <1>2, <2>2
  <2>4. Pipeline(c, w)'
    BY <1>4, <1>11, <2>3 DEF Pipeline, PostedFrom
  <2>5. Pipeline(c, n + 1 + Len(wire[k]))'
    BY <2>1, <2>2, <2>4
  <2>6. Part(wire[k], LinesOf(c), n + 1)'
    BY <1>2, <1>10 DEF Part
  <2>7. n + 1 \in 0..lines'[c]
    BY <1>2, <1>4
  <2>8. QED
    BY <1>12, <2>5, <2>6, <2>7 DEF InTurn
<1>17. \A d \in Clients : ClientInv(d)'
  BY <1>11, <1>14, <1>15, <1>16 DEF ClientInv
<1>18. QED
  BY <1>5, <1>6, <1>9, <1>17 DEF ChatInv

-----------------------------------------------------------------------------
LEMMA ChatInitial == Init => ChatInv
<1> SUFFICES ASSUME Init PROVE ChatInv
  OBVIOUS
<1>1. ChatTypeOK
  <2>1. \A S : <<>> \in Seq(S)
    OBVIOUS
  <2>2. 0 \in 0..MaxLines
    BY ChatConstants
  <2>3. QED
    BY <2>1, <2>2 DEF Init, ChatTypeOK, EndStates
<1>2. said = <<>> /\ recent_msgs = <<>> /\ Len(said) = 0 /\ Len(recent_msgs) = 0
  BY DEF Init
<1>3. Recent /\ SpokenInOrder
  BY <1>2, ChatConstants DEF Recent, SpokenInOrder
<1>4. ASSUME NEW c \in Clients PROVE ClientInv(c)
  <2> DEFINE s == Session(c)
             k == Client(c)
  <2>1. /\ sock[c] = "connecting" /\ posted[c] = <<>> /\ lines[c] = 0 /\ c \notin eof
        /\ c \notin backlog /\ c \notin participants /\ from[c] = 0 /\ screen[c] = <<>>
        /\ \A e \in {s, k} : /\ write_msgs[e] = <<>> /\ writing[e] = "none"
                             /\ reading[e] = "none" /\ wire[e] = <<>>
    BY EndFacts DEF Init
  <2>2. /\ InFront(s) /\ InFront(k) /\ Writing(c) /\ Newcomer(c) /\ Heard(c)
    BY <2>1 DEF InFront, Writing, Newcomer, Fresh, Heard
  <2>3. Typed(c)
    BY <2>1 DEF Typed
  <2>4. InTurn(c)
    <3>1. Spoken(c, 0) /\ Part(wire[k], LinesOf(c), 0) /\ 0 \in 0..lines[c]
      BY <1>2, <2>1 DEF Spoken, Part
    <3>2. 0 + Len(wire[k]) = 0 /\ Unsent(k) = <<>>
      BY <2>1 DEF Unsent
    <3>3. Pipeline(c, 0)
      BY <2>1, <3>2 DEF Pipeline, PostedFrom, Part
    <3>4. QED
      BY <3>1, <3>2, <3>3 DEF InTurn
  <2>5. QED
    BY <2>1, <2>2, <2>3, <2>4 DEF ClientInv
<1>5. QED
  BY <1>1, <1>3, <1>4 DEF ChatInv

LEMMA ChatInductive == ChatInv /\ [Next]_vars => ChatInv'
<1> SUFFICES ASSUME ChatInv, [Next]_vars PROVE ChatInv'
  OBVIOUS
<1>1. CASE UNCHANGED vars
  <2>1. /\ UNCHANGED <<sock, posted, running, lines, eof, backlog, participants, recent_msgs>>
        /\ UNCHANGED <<said, from, write_msgs, writing, reading, wire, screen>>
    BY <1>1 DEF vars, clientVars, roomVars, endVars
  <2>2. ChatTypeOK' /\ Recent'
    BY <2>1 DEF ChatInv, ChatTypeOK, Recent
  <2>3. SpokenInOrder'
    <3>1. SpokenInOrder /\ \A i \in 1..Len(said) : said[i][2] <= lines'[said[i][1]]
      BY <2>1 DEF ChatInv, SpokenInOrder
    <3>2. QED
      BY <2>1, <3>1, OrderKept
  <2>4. \A c \in Clients : Kept(c)
    BY <2>1 DEF Kept
  <2>5. \A c \in Clients : ClientInv(c)'
    BY <2>1, <2>4, ClientKept DEF ChatInv
  <2>6. QED
    BY <2>2, <2>3, <2>5 DEF ChatInv
<1>2. ASSUME NEW c \in Clients, ServerNext(c) \/ ClientNext(c) \/ UserNext(c)
      PROVE  ChatInv'
  <2>1. CASE ServerNext(c)
    BY <2>1, AcceptStep, ReadingStep, SpeakStep, TransferDown, WroteStep, FailureStep DEF ServerNext
  <2>2. CASE ClientNext(c)
    BY <2>2, RunWriteStep, RunCloseStep, ConnectStep, ReadingStep, ClientReadStep, TransferUp,
       WroteStep, FailureStep DEF ClientNext
  <2>3. CASE UserNext(c)
    BY <2>3, UserStep
  <2>4. QED
    BY <1>2, <2>1, <2>2, <2>3
<1>3. QED
  BY <1>1, <1>2 DEF Next

(* ChatInv holds in every state the chat reaches, and each of the theorems *)
(* below about single states is read off it.                               *)
THEOREM ChatInvariant == Spec => []ChatInv
BY ChatInitial, ChatInductive, PTL DEF Spec

(* Every variable of the chat keeps its type, however its handlers are     *)
(* interleaved (ChatTypeOK).                                               *)
THEOREM ChatTypes == Spec => []ChatTypeOK
<1>1. ChatInv => ChatTypeOK
  BY DEF ChatInv
<1>2. QED
  BY <1>1, ChatInvariant, PTL

(* The lines of one user are said in the order they were typed, each once  *)
(* and none before an earlier one (SpokenInOrder).                         *)
THEOREM InOrder == Spec => []SpokenInOrder
<1>1. ChatInv => SpokenInOrder
  BY DEF ChatInv
<1>2. QED
  BY <1>1, ChatInvariant, PTL

(* A queue of messages never waits for nothing: write_in_progress and the  *)
(* pop_front of do_write agree (NothingStalls).                            *)
THEOREM WritesGoOn == Spec => []NothingStalls
<1>1. ChatInv => NothingStalls
  <2>1. ASSUME ChatInv, NEW c \in Clients
        PROVE  InFront(Session(c)) /\ InFront(Client(c)) /\ Writing(c)
    BY <2>1 DEF ChatInv, ClientInv
  <2>2. ASSUME ChatInv PROVE participants \subseteq Clients
    BY <2>2 DEF ChatInv, ChatTypeOK
  <2>3. QED
    BY <2>1, <2>2 DEF NothingStalls, InFront, Writing
<1>2. QED
  BY <1>1, ChatInvariant, PTL

(* The room holds no deaf participant but those whose header did not       *)
(* decode (ParticipantsAreHeard).                                          *)
THEOREM Listening == Spec => []ParticipantsAreHeard
<1>1. ChatInv => ParticipantsAreHeard
  BY DEF ChatInv, ChatTypeOK, ClientInv, Heard, ParticipantsAreHeard
<1>2. QED
  BY <1>1, ChatInvariant, PTL

(* From its first header that does not decode on, nothing a client sends   *)
(* reaches the conversation (NothingAfterABadHeader).                      *)
THEOREM Silenced == Spec => []NothingAfterABadHeader
<1>1. ASSUME ChatInv PROVE NothingAfterABadHeader
  <2>1. ASSUME NEW i \in 1..Len(said), NEW k \in 1..said[i][2]
        PROVE  <<said[i][1], k>> \notin Undecodable
    <3>1. said \in Seq(Messages)
      BY <1>1 DEF ChatInv, ChatTypeOK
    <3>2. said[i] \in Messages
      BY <3>1, ElementOfSeq
    <3>3. PICK c \in Clients, l \in Nat : c = said[i][1] /\ l = said[i][2]
      BY <3>2, ChatConstants DEF Messages
    <3>4. lines[c] \in Nat
      BY <1>1, ChatConstants DEF ChatInv, ChatTypeOK
    <3>5. \A n \in 0..lines[c] : n \in Nat
      BY <3>4
    <3>6. PICK n \in Nat : Spoken(c, n)
      BY <1>1, <3>5 DEF ChatInv, ClientInv, InTurn
    <3>7. l <= n
      BY <3>3, <3>6 DEF Spoken
    <3>8. k \in 1..l
      BY <3>3
    <3>9. k \in 1..n
      BY <3>7, <3>8
    <3>10. QED
      BY <3>3, <3>6, <3>9 DEF Spoken
  <2>2. QED
    BY <2>1 DEF NothingAfterABadHeader
<1>2. QED
  BY <1>1, ChatInvariant, PTL

(* What a newcomer is given is the end of the conversation, MaxRecent      *)
(* messages of it if there are as many (RecentIsTheEnd).                   *)
THEOREM NewcomersAreGivenTheEnd == Spec => []RecentIsTheEnd
<1>1. ASSUME ChatInv PROVE RecentIsTheEnd
  <2>1. said \in Seq(Messages) /\ recent_msgs \in Seq(Messages) /\ MaxRecent \in Nat
    BY <1>1, ChatConstants DEF ChatInv, ChatTypeOK
  <2>2. PICK n \in Nat, l \in Nat : n = Len(said) /\ l = Len(recent_msgs)
    BY <2>1, LenProperties
  <2>3. PICK f \in Nat : f = IF n > MaxRecent THEN n - MaxRecent + 1 ELSE 1
    <3>1. n > MaxRecent => n - MaxRecent + 1 \in Nat
      BY <2>1
    <3>2. QED
      BY <3>1
  <2>4. /\ l = (IF n > MaxRecent THEN MaxRecent ELSE n)
        /\ \A i \in 1..l : recent_msgs[i] = said[n - l + i]
    BY <1>1, <2>2 DEF ChatInv, Recent
  <2>5. f >= 1 /\ f = n - l + 1 /\ l <= n
    BY <2>1, <2>3, <2>4
  <2>6. \A i \in f..n : said[i] \in Messages
    BY <2>1, <2>2, <2>5, ElementOfSeq
  <2>7. /\ SubSeq(said, f, n) \in Seq(Messages)
        /\ Len(SubSeq(said, f, n)) = IF f <= n THEN n - f + 1 ELSE 0
        /\ \A i \in 1..(n - f + 1) : SubSeq(said, f, n)[i] = said[f + i - 1]
    BY <2>6, SubSeqProperties
  <2>8. Len(SubSeq(said, f, n)) = l /\ n - f + 1 = l
    BY <2>5, <2>7
  <2>9. \A i \in 1..l : recent_msgs[i] = SubSeq(said, f, n)[i]
    <3>1. \A i \in 1..l : f + i - 1 = n - l + i
      BY <2>5
    <3>2. QED
      BY <2>4, <2>7, <2>8, <3>1
  <2>10. recent_msgs = SubSeq(said, f, n)
    BY <2>1, <2>2, <2>7, <2>8, <2>9, SeqEqual
  <2>11. QED
    BY <2>2, <2>3, <2>10 DEF RecentIsTheEnd
<1>2. QED
  BY <1>1, ChatInvariant, PTL

\* Three parts of a sequence that follow on each other, and end it.
LEMMA ThreeParts ==
    ASSUME NEW S, NEW t \in Seq(S), NEW q1 \in Seq(S), NEW q2 \in Seq(S), NEW q3 \in Seq(S),
           NEW n \in Nat, Part(q1, t, n), Part(q2, t, n + Len(q1)),
           Part(q3, t, n + Len(q1) + Len(q2)), n + Len(q1) + Len(q2) + Len(q3) = Len(t)
    PROVE  q1 \o q2 \o q3 = SubSeq(t, n + 1, Len(t))
<1> DEFINE q == q1 \o q2 \o q3
<1>1. PICK l1 \in Nat, l2 \in Nat, l3 \in Nat, l \in Nat :
          l1 = Len(q1) /\ l2 = Len(q2) /\ l3 = Len(q3) /\ l = Len(t)
  BY LenProperties
<1>2. n + l1 + l2 + l3 = l
  BY <1>1
<1>3. /\ q1 \o q2 \in Seq(S) /\ Len(q1 \o q2) = l1 + l2
      /\ \A i \in 1..(l1 + l2) : (q1 \o q2)[i] = IF i <= l1 THEN q1[i] ELSE q2[i - l1]
  BY <1>1, ConcatProperties
<1>4. /\ q \in Seq(S) /\ Len(q) = l1 + l2 + l3
      /\ \A i \in 1..(l1 + l2 + l3) : q[i] = IF i <= l1 + l2 THEN (q1 \o q2)[i]
                                             ELSE q3[i - (l1 + l2)]
  BY <1>1, <1>3, ConcatProperties
<1>5. /\ \A i \in 1..l1 : q1[i] = t[n + i]
      /\ \A i \in 1..l2 : q2[i] = t[n + l1 + i]
      /\ \A i \in 1..l3 : q3[i] = t[n + l1 + l2 + i]
  BY <1>1 DEF Part
<1>6. \A i \in (n + 1)..l : t[i] \in S
  BY <1>1, ElementOfSeq
<1>7. /\ SubSeq(t, n + 1, l) \in Seq(S)
      /\ Len(SubSeq(t, n + 1, l)) = IF n + 1 <= l THEN l - (n + 1) + 1 ELSE 0
      /\ \A i \in 1..(l - (n + 1) + 1) : SubSeq(t, n + 1, l)[i] = t[n + 1 + i - 1]
  <2>1. n + 1 \in Int /\ l \in Int
    OBVIOUS
  <2>2. QED
    BY <1>6, <2>1, SubSeqProperties
<1>8. l - (n + 1) + 1 = l1 + l2 + l3 /\ Len(SubSeq(t, n + 1, l)) = l1 + l2 + l3
  <2>1. l - (n + 1) + 1 = l1 + l2 + l3 /\ (l1 + l2 + l3 = 0 \/ n + 1 <= l)
    BY <1>2
  <2>2. ~(n + 1 <= l) => l1 + l2 + l3 = 0
    BY <2>1
  <2>3. QED
    BY <1>7, <2>1, <2>2
<1>9. ASSUME NEW i \in 1..(l1 + l2 + l3) PROVE q[i] = t[n + i]
  <2>1. CASE i <= l1
    <3>1. i \in 1..l1 /\ i \in 1..(l1 + l2) /\ i <= l1 + l2
      BY <2>1
    <3>2. QED
      BY <1>3, <1>4, <1>5, <2>1, <3>1
  <2>2. CASE l1 < i /\ i <= l1 + l2
    <3>1. i - l1 \in 1..l2 /\ i \in 1..(l1 + l2) /\ n + l1 + (i - l1) = n + i /\ ~(i <= l1)
      BY <2>2
    <3>2. q[i] = q2[i - l1]
      BY <1>3, <1>4, <2>2, <3>1
    <3>3. QED
      BY <1>5, <3>1, <3>2
  <2>3. CASE l1 + l2 < i
    <3>1. /\ i - (l1 + l2) \in 1..l3 /\ n + l1 + l2 + (i - (l1 + l2)) = n + i
          /\ ~(i <= l1 + l2)
      BY <2>3
    <3>2. q[i] = q3[i - (l1 + l2)]
      BY <1>4, <3>1
    <3>3. QED
      BY <1>5, <3>1, <3>2
  <2>4. i <= l1 \/ (l1 < i /\ i <= l1 + l2) \/ l1 + l2 < i
    OBVIOUS
  <2>5. QED
    BY <2>1, <2>2, <2>3, <2>4
<1>10. \A i \in 1..(l1 + l2 + l3) : n + 1 + i - 1 = n + i
  OBVIOUS
<1>11. \A i \in 1..(l1 + l2 + l3) : q[i] = SubSeq(t, n + 1, l)[i]
  BY <1>7, <1>8, <1>9, <1>10
<1> HIDE DEF q
<1>12. q = SubSeq(t, n + 1, l)
  BY <1>4, <1>7, <1>8, <1>11, SeqEqual
<1>13. QED
  BY <1>1, <1>12 DEF q

(* While a participant's connection holds, what it printed, what is on its *)
(* way and what waits in its session are together the conversation from    *)
(* where it joined (ParticipantsMissNothing).                              *)
THEOREM MissNothing == Spec => []ParticipantsMissNothing
<1>1. ASSUME ChatInv PROVE ParticipantsMissNothing
  <2>1. ASSUME NEW c \in participants, sock[c] = "open"
        PROVE  screen[c] \o wire[Session(c)] \o Unsent(Session(c))
                   = SubSeq(said, from[c] + 1, Len(said))
    <3>1. c \in Clients /\ Session(c) \in Ends
      BY <1>1, EndFacts DEF ChatInv, ChatTypeOK
    <3>2. Told(c) /\ InFront(Session(c))
      BY <1>1, <2>1, <3>1 DEF ChatInv, ClientInv
    <3>3. /\ said \in Seq(Messages) /\ screen[c] \in Seq(Messages)
          /\ wire[Session(c)] \in Seq(Messages) /\ from[c] \in Nat
      BY <1>1, <3>1 DEF ChatInv, ChatTypeOK
    <3>4. Unsent(Session(c)) \in Seq(Messages)
      BY <1>1, <3>1, <3>2, UnsentType DEF ChatInv
    <3>5. /\ Part(screen[c], said, from[c])
          /\ Part(wire[Session(c)], said, from[c] + Len(screen[c]))
          /\ Part(Unsent(Session(c)), said, from[c] + Len(screen[c]) + Len(wire[Session(c)]))
          /\ from[c] + Len(screen[c]) + Len(wire[Session(c)]) + Len(Unsent(Session(c)))
                = Len(said)
      BY <2>1, <3>2 DEF Told, Shown, Sent, Queued
    <3>6. PICK q1 \in Seq(Messages), q2 \in Seq(Messages), q3 \in Seq(Messages), n \in Nat :
              q1 = screen[c] /\ q2 = wire[Session(c)] /\ q3 = Unsent(Session(c)) /\ n = from[c]
      BY <3>3, <3>4
    <3>7. /\ Part(q1, said, n) /\ Part(q2, said, n + Len(q1))
          /\ Part(q3, said, n + Len(q1) + Len(q2))
          /\ n + Len(q1) + Len(q2) + Len(q3) = Len(said)
      BY <3>5, <3>6
    <3>8. q1 \o q2 \o q3 = SubSeq(said, n + 1, Len(said))
      <4>1. PICK t \in Seq(Messages) : t = said
        BY <3>3
      <4>2. /\ Part(q1, t, n) /\ Part(q2, t, n + Len(q1)) /\ Part(q3, t, n + Len(q1) + Len(q2))
            /\ n + Len(q1) + Len(q2) + Len(q3) = Len(t)
        BY <3>7, <4>1
      <4>3. q1 \o q2 \o q3 = SubSeq(t, n + 1, Len(t))
        BY <4>2, ThreeParts, SMTT(30)
      <4>4. QED
        BY <4>1, <4>3
    <3>9. QED
      BY <3>6, <3>8
  <2>2. QED
    BY <2>1 DEF ParticipantsMissNothing
<1>2. QED
  BY <1>1, ChatInvariant, PTL

-----------------------------------------------------------------------------
\* The steps that the conversation sees: a line is said, a newcomer joins, a
\* client prints the next message.
LEMMA SayStep ==
    ASSUME ChatInv, NEW c \in Clients, SessionReadBody(c)
    PROVE  C!Say
<1>1. Peer(Session(c)) = Client(c) /\ Client(c) \in Ends
  BY EndFacts
<1>2. PICK m : said' = Append(said, m) /\ m \in Arrived(Session(c))
  BY DEF SessionReadBody
<1>3. m \in Messages
  <2>1. wire[Client(c)] # <<>> /\ m = Head(wire[Client(c)])
    BY <1>1, <1>2 DEF Arrived
  <2>2. wire[Client(c)] \in Seq(Messages)
    BY <1>1 DEF ChatInv, ChatTypeOK
  <2>3. QED
    BY <2>1, <2>2, Taken
<1>4. UNCHANGED <<from, screen>>
  BY DEF SessionReadBody
<1>5. QED
  BY <1>2, <1>3, <1>4 DEF C!Say

LEMMA JoinStep ==
    ASSUME ChatInv, NEW c \in Clients, Accept(c)
    PROVE  C!Join(c)
<1>1. screen[c] = <<>>
  BY DEF ChatInv, ClientInv, Newcomer, Fresh, Accept
<1>2. PICK n \in Nat, k \in Nat : n = Len(said) /\ k = MaxRecent
  BY LenProperties, ChatConstants DEF ChatInv, ChatTypeOK
<1>3. Len(recent_msgs) = IF n > k THEN k ELSE n
  BY <1>2 DEF ChatInv, Recent
<1>4. Len(said) - Len(recent_msgs) = IF n > k THEN n - k ELSE 0
  <2>1. CASE n > k
    BY <1>2, <1>3, <2>1
  <2>2. CASE ~(n > k)
    BY <1>2, <1>3, <2>2
  <2>3. QED
    BY <2>1, <2>2
<1>5. /\ from' = [from EXCEPT ![c] = Len(said) - Len(recent_msgs)]
      /\ UNCHANGED <<said, screen>>
  BY DEF Accept
<1>6. QED
  BY <1>1, <1>2, <1>4, <1>5 DEF C!Join

LEMMA HearStep ==
    ASSUME ChatInv, NEW c \in Clients, ClientReadBody(c)
    PROVE  C!Hear(c)
<1> DEFINE s == Session(c)
<1>1. s \in Ends /\ Peer(Client(c)) = s /\ ClientInv(c) /\ ChatTypeOK
  BY EndFacts DEF ChatInv
<1>2. /\ sock[c] = "open" /\ wire[s] # <<>>
      /\ screen' = [screen EXCEPT ![c] = Append(@, Head(wire[s]))]
      /\ UNCHANGED <<said, from>>
  BY OpenFacts, <1>1 DEF ClientReadBody, Arrived, roomVars
<1>3. Told(c) /\ InFront(s)
  BY <1>1, <1>2 DEF ClientInv
<1>4. PICK f \in Nat, h \in Nat, l \in Nat, u \in Nat, n \in Nat :
          /\ f = from[c] /\ h = Len(screen[c]) /\ l = Len(wire[s]) /\ u = Len(Unsent(s))
          /\ n = Len(said)
  BY <1>1, <1>3, UnsentType, LenProperties DEF ChatTypeOK
<1>5. l >= 1 /\ Head(wire[s]) = wire[s][1]
  <2>1. wire[s] \in Seq(Messages)
    BY <1>1 DEF ChatTypeOK
  <2>2. QED
    BY <1>2, <1>4, <2>1, Taken
<1>6. Head(wire[s]) = said[f + h + 1]
  <2>1. 1 \in 1..Len(wire[s])
    BY <1>4, <1>5
  <2>2. wire[s][1] = said[f + h + 1]
    BY <1>3, <1>4, <2>1 DEF Told, Part, Shown
  <2>3. QED
    BY <1>5, <2>2
<1>7. f + h + 1 <= n
  <2>1. f + h + l + u <= n
    BY <1>3, <1>4 DEF Told, Queued, Sent, Shown
  <2>2. QED
    BY <1>5, <2>1
<1>8. QED
  BY <1>2, <1>4, <1>6, <1>7 DEF C!Hear

(* The chat implements the conversation: whatever its sockets and handlers *)
(* do, a screen shows the one conversation from the last messages at the   *)
(* time its session joined, without a gap (ImplementsConversation).        *)
THEOREM OneConversation == Spec => ImplementsConversation
<1>1. Init => C!Init
  BY DEF Init, C!Init
<1>2. ChatInv /\ [Next]_vars => [C!Next]_C!vars
  <2> SUFFICES ASSUME ChatInv, [Next]_vars PROVE C!Next \/ UNCHANGED <<said, from, screen>>
    BY DEF C!vars
  <2>1. CASE UNCHANGED vars
    BY <2>1 DEF vars, roomVars
  <2>2. ASSUME NEW c \in Clients, ServerNext(c) \/ ClientNext(c) \/ UserNext(c)
        PROVE  C!Next \/ UNCHANGED <<said, from, screen>>
    <3>1. CASE SessionReadBody(c)
      BY <3>1, SayStep DEF C!Next
    <3>2. CASE Accept(c)
      BY <3>2, JoinStep DEF C!Next
    <3>3. CASE ClientReadBody(c)
      BY <3>3, HearStep DEF C!Next
    <3>4. CASE \E e \in {Session(c), Client(c)} : ReadHeader(e) \/ Transfer(e) \/ Wrote(e)
      BY <3>4 DEF ReadHeader, Transfer, Wrote, roomVars
    <3>5. CASE SessionReadFailed(c) \/ SessionWriteFailed(c)
      BY <3>5 DEF SessionReadFailed, SessionWriteFailed
    <3>6. CASE RunWrite(c) \/ RunClose(c) \/ ClientReadFailed(c) \/ ClientWriteFailed(c)
                 \/ RunReturns(c)
      BY <3>6 DEF RunWrite, RunClose, ClientReadFailed, ClientWriteFailed, RunReturns, roomVars
    <3>7. CASE Connect(c)
      BY <3>7 DEF Connect
    <3>8. CASE UserNext(c)
      BY <3>8 DEF UserNext, TypeLine, EndInput, roomVars
    <3>9. QED
      BY <2>2, <3>1, <3>2, <3>3, <3>4, <3>5, <3>6, <3>7, <3>8 DEF ServerNext, ClientNext
  <2>3. QED
    BY <2>1, <2>2 DEF Next
<1>3. QED
  BY <1>1, <1>2, ChatInvariant, PTL DEF Spec, ImplementsConversation, C!Spec
=============================================================================
