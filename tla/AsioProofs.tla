----------------------------- MODULE AsioProofs -----------------------------
(***************************************************************************)
(* The asio servers of AsioServers for any number of clients, bytes and    *)
(* requests: AsioTypeOK and AsioInv together are inductive.  What a step   *)
(* does to one connection is a lemma about a session and its stream; that  *)
(* the others are not disturbed is said once, in OneConnection.  Then the  *)
(* timers and the sender of AsioTimers, for any limits and receivers:      *)
(* TimersTypeOK and TimersInv together are inductive.                      *)
(***************************************************************************)
EXTENDS AsioServers, AsioTimers, FiniteSetTheorems, SequenceTheorems, TLAPS

AsioIInv == AsioTypeOK /\ AsioInv

-----------------------------------------------------------------------------
(* Sequences: the order of the bytes while they are moved on.              *)

LEMMA CutSeq ==
  ASSUME NEW S, NEW q \in Seq(S), NEW n \in 1 .. Len(q)
  PROVE  /\ SubSeq(q, 1, n) \in Seq(S) /\ Len(SubSeq(q, 1, n)) = n
         /\ SubSeq(q, n + 1, Len(q)) \in Seq(S)
         /\ SubSeq(q, 1, n) \o SubSeq(q, n + 1, Len(q)) = q
<1>1. /\ Len(q) \in Nat /\ 1 \in 1 .. Len(q) + 1 /\ n \in 1 - 1 .. Len(q)
      /\ Len(q) \in n .. Len(q)
  OBVIOUS
<1>2. SubSeq(q, 1, n) \o SubSeq(q, n + 1, Len(q)) = SubSeq(q, 1, Len(q))
  BY <1>1, ConcatAdjacentSubSeq
<1>3. SubSeq(q, 1, Len(q)) = q
  BY SubSeqFull
<1>4. SubSeq(q, 1, n) \in Seq(S) /\ Len(SubSeq(q, 1, n)) = n
  <2>1. \A i \in 1 .. n : q[i] \in S
    BY <1>1, ElementOfSeq
  <2>2. 1 \in Int /\ n \in Int /\ 1 <= n /\ n - 1 + 1 = n
    BY <1>1
  <2> QED
    BY <2>1, <2>2, SubSeqProperties
<1>5. SubSeq(q, n + 1, Len(q)) \in Seq(S)
  <2>1. \A i \in n + 1 .. Len(q) : q[i] \in S
    BY <1>1, ElementOfSeq
  <2>2. n + 1 \in Int /\ Len(q) \in Int
    BY <1>1
  <2> QED
    BY <2>1, <2>2, SubSeqProperties, Zenon
<1> QED
  BY <1>2, <1>3, <1>4, <1>5, Zenon

LEMMA HeadAndRest ==
  ASSUME NEW S, NEW q \in Seq(S), q # <<>>
  PROVE  /\ Head(q) \in S /\ Tail(q) \in Seq(S) /\ Len(Tail(q)) = Len(q) - 1
         /\ <<Head(q)>> \o Tail(q) = q
<1>1. Len(q) \in Nat \ {0} /\ Head(q) = q[1] /\ 1 \in 1 .. Len(q) /\ Len(q) \in 1 .. Len(q)
  OBVIOUS
<1>2. SubSeq(q, 1, Len(q)) = <<q[1]>> \o SubSeq(q, 1 + 1, Len(q))
  BY <1>1, SubSeqRecursiveFirst
<1>3. Tail(q) = SubSeq(q, 2, Len(q)) /\ SubSeq(q, 1, Len(q)) = q
  BY TailIsSubSeq, SubSeqFull
<1>4. 1 + 1 = 2
  OBVIOUS
<1>5. Head(q) \in S /\ Tail(q) \in Seq(S) /\ Len(Tail(q)) = Len(q) - 1
  BY HeadTailProperties
<1> QED
  BY <1>1, <1>2, <1>3, <1>4, <1>5

\* In which way a concatenation is put in brackets is the same.
Regroups(p, a, b) == p \o (a \o b) = (p \o a) \o b

LEMMA Regroup ==
  ASSUME NEW p \in Seq(Bytes), NEW a \in Seq(Bytes), NEW b \in Seq(Bytes)
  PROVE  Regroups(p, a, b)
BY DEF Regroups

\* The session reads: what it holds was the head of what is under way to it.
MovesToSession(r, t, a, b) == r \o t \o <<>> \o (a \o b) = r \o t \o a \o b

LEMMA MoveToSession ==
  ASSUME NEW r \in Seq(Bytes), NEW t \in Seq(Bytes), NEW a \in Seq(Bytes), NEW b \in Seq(Bytes)
  PROVE  MovesToSession(r, t, a, b)
<1>1. PICK p \in Seq(Bytes) : p = r \o t
  BY ConcatProperties
<1>2. p \o <<>> = p
  BY <1>1, ConcatEmptySeq
<1>3. Regroups(p, a, b)
  BY Regroup
<1>4. p \o <<>> \o (a \o b) = p \o a \o b
  BY ONLY <1>2, <1>3 DEF Regroups
<1> QED
  BY <1>1, <1>4 DEF MovesToSession

\* The session writes the head of what it holds.
MovesToClient(r, t, a, b) == r \o t \o (a \o b) = r \o (t \o a) \o b

LEMMA MoveToClient ==
  ASSUME NEW r \in Seq(Bytes), NEW t \in Seq(Bytes), NEW a \in Seq(Bytes), NEW b \in Seq(Bytes)
  PROVE  MovesToClient(r, t, a, b)
<1>1. PICK p \in Seq(Bytes) : p = r \o t
  BY ConcatProperties
<1>2. Regroups(p, a, b) /\ Regroups(r, t, a)
  BY Regroup
<1>3. p \o (a \o b) = (p \o a) \o b /\ r \o (t \o a) = (r \o t) \o a
  BY ONLY <1>2 DEF Regroups
<1> QED
  BY ONLY <1>1, <1>3 DEF MovesToClient

\* The client reads a byte.
LEMMA MoveToReceived ==
  ASSUME NEW r \in Seq(Bytes), NEW t \in Seq(Bytes), t # <<>>
  PROVE  Append(r, Head(t)) \o Tail(t) = r \o t
<1>1. Head(t) \in Bytes /\ Tail(t) \in Seq(Bytes) /\ <<Head(t)>> \o Tail(t) = t
  BY HeadAndRest
<1>2. Append(r, Head(t)) = r \o <<Head(t)>>
  BY <1>1, AppendIsConcat
<1>3. <<Head(t)>> \in Seq(Bytes)
  BY <1>1
<1>4. (r \o <<Head(t)>>) \o Tail(t) = r \o (<<Head(t)>> \o Tail(t))
  <2>1. Regroups(r, <<Head(t)>>, Tail(t))
    BY <1>1, <1>3, Regroup
  <2> QED
    BY ONLY <2>1 DEF Regroups
<1> QED
  BY <1>1, <1>2, <1>4

\* The client sends a byte.
LEMMA AppendedToAll ==
  ASSUME NEW p \in Seq(Bytes), NEW u \in Seq(Bytes), NEW e \in Bytes
  PROVE  p \o Append(u, e) = Append(p \o u, e)
<1>1. p \o u \in Seq(Bytes) /\ <<e>> \in Seq(Bytes)
  BY ConcatProperties
<1>2. Append(u, e) = u \o <<e>> /\ Append(p \o u, e) = (p \o u) \o <<e>>
  BY <1>1, AppendIsConcat
<1>3. Regroups(p, u, <<e>>)
  BY <1>1, Regroup
<1> QED
  BY ONLY <1>2, <1>3 DEF Regroups

-----------------------------------------------------------------------------
(* What a step does to a session x and its stream s.                       *)

LEMMA RecordParts ==
  /\ \A x \in Sessions : /\ x.op \in {"none", "read", "write", "ended"} /\ x.data \in Seq(Bytes)
                         /\ x = [op |-> x.op, data |-> x.data]
  /\ \A s \in ByteStreams : /\ s.phase \in {"new", "open", "eof", "gone"} /\ s.shut \in BOOLEAN
                        /\ s.sent \in Seq(Bytes) /\ s.toServer \in Seq(Bytes)
                        /\ s.toClient \in Seq(Bytes) /\ s.received \in Seq(Bytes)
  /\ EndedSession \in Sessions /\ WritesTheTime \in Sessions /\ NewSession \in Sessions
  /\ <<>> \in Seq(Bytes) /\ Daytime \in Seq(Bytes)
BY DEF Sessions, ByteStreams, EndedSession, WritesTheTime, NewSession, Daytime, Bytes

LEMMA FitsRead ==
  ASSUME NEW x \in Sessions, NEW s \in ByteStreams, FitsItsServer(x, s), x.op = "read",
         tcpKind \in TcpKinds, NEW n \in 1 .. Len(s.toServer)
  PROVE  LET y == [op |-> "write", data |-> SubSeq(s.toServer, 1, n)]
             t == [s EXCEPT !.toServer = SubSeq(s.toServer, n + 1, Len(s.toServer))]
         IN  y \in Sessions /\ t \in ByteStreams /\ FitsItsServer(y, t) /\ t.phase = s.phase
             /\ tcpKind = "echo"
<1> DEFINE a == SubSeq(s.toServer, 1, n)
           b == SubSeq(s.toServer, n + 1, Len(s.toServer))
           y == [op |-> "write", data |-> a]
           t == [s EXCEPT !.toServer = b]
<1>1. /\ s.sent \in Seq(Bytes) /\ s.toServer \in Seq(Bytes)
      /\ s.toClient \in Seq(Bytes) /\ s.received \in Seq(Bytes)
  BY RecordParts
<1>2. a \in Seq(Bytes) /\ b \in Seq(Bytes) /\ a \o b = s.toServer
  BY <1>1, CutSeq
<1>3. tcpKind = "echo" /\ x.data = <<>> /\ s.phase # "new" /\ s.phase # "eof"
  BY DEF FitsItsServer, SessionFits, TellsTheTime
<1>4. /\ t.phase = s.phase /\ t.shut = s.shut /\ t.sent = s.sent /\ t.toServer = b
      /\ t.toClient = s.toClient /\ t.received = s.received
      /\ y.op = "write" /\ y.data = a
  BY DEF ByteStreams
<1>5. y \in Sessions /\ t \in ByteStreams
  BY <1>2 DEF Sessions, ByteStreams
<1> HIDE DEF a, b, y, t
<1>6. s.received \o s.toClient \o a \o b = s.received \o s.toClient \o <<>> \o (a \o b)
  <2> DEFINE r == s.received
             k == s.toClient
  <2>1. r \in Seq(Bytes) /\ k \in Seq(Bytes)
    BY <1>1
  <2>3. a \in Seq(Bytes) /\ b \in Seq(Bytes)
    BY <1>2
  <2> HIDE DEF r, k
  <2>2. MovesToSession(r, k, a, b)
    BY <2>1, <2>3, MoveToSession
  <2> QED
    BY <2>2 DEF r, k, MovesToSession
<1>7. SessionFits(y, t)
  BY <1>3, <1>4 DEF FitsItsServer, SessionFits
<1>8. Echoes(y, t)
  BY <1>2, <1>3, <1>4, <1>6 DEF FitsItsServer, Echoes
<1>9. FitsItsServer(y, t)
  BY <1>3, <1>7, <1>8 DEF FitsItsServer
<1> QED
  BY <1>3, <1>4, <1>5, <1>9 DEF a, b, y, t

LEMMA AfterWriteHolds ==
  ASSUME NEW b \in Seq(Bytes), tcpKind \in TcpKinds
  PROVE  /\ AfterWrite(b) \in Sessions /\ AfterWrite(b).data = b
         /\ AfterWrite(b).op # "none"
         /\ AfterWrite(b).op # "write" => b = <<>>
         /\ AfterWrite(b).op = "read" => tcpKind = "echo"
         /\ AfterWrite(b).op = "ended" => tcpKind # "echo"
<1>0. \A o \in {"none", "read", "write", "ended"} : [op |-> o, data |-> b] \in Sessions
  BY DEF Sessions
<1>1. CASE b # <<>>
  <2>1. AfterWrite(b) = [op |-> "write", data |-> b]
    BY <1>1 DEF AfterWrite
  <2> QED
    BY <1>0, <1>1, <2>1
<1>2. CASE b = <<>> /\ tcpKind = "echo"
  <2>1. AfterWrite(b) = [op |-> "read", data |-> b]
    BY <1>2 DEF AfterWrite
  <2> QED
    BY <1>0, <1>2, <2>1
<1>3. CASE b = <<>> /\ tcpKind # "echo"
  <2>1. AfterWrite(b) = [op |-> "ended", data |-> b]
    BY <1>3 DEF AfterWrite, EndedSession
  <2> QED
    BY <1>0, <1>3, <2>1
<1> QED
  BY <1>1, <1>2, <1>3

LEMMA FitsWrite ==
  ASSUME NEW x \in Sessions, NEW s \in ByteStreams, FitsItsServer(x, s), x.op = "write",
         s.phase = "open", tcpKind \in TcpKinds, NEW n \in 1 .. Len(x.data),
         n <= WindowMax - Len(s.toClient)
  PROVE  LET y == AfterWrite(SubSeq(x.data, n + 1, Len(x.data)))
             t == [s EXCEPT !.toClient = s.toClient \o SubSeq(x.data, 1, n)]
         IN  y \in Sessions /\ t \in ByteStreams /\ FitsItsServer(y, t) /\ t.phase = s.phase
             /\ y.op # "none"
<1> DEFINE a == SubSeq(x.data, 1, n)
           b == SubSeq(x.data, n + 1, Len(x.data))
           y == AfterWrite(b)
           t == [s EXCEPT !.toClient = s.toClient \o a]
<1>1. /\ s.sent \in Seq(Bytes) /\ s.toServer \in Seq(Bytes) /\ x.data \in Seq(Bytes)
      /\ s.toClient \in Seq(Bytes) /\ s.received \in Seq(Bytes)
  BY RecordParts
<1>2. a \in Seq(Bytes) /\ b \in Seq(Bytes) /\ a \o b = x.data /\ Len(a) = n
  BY <1>1, CutSeq
<1>3. s.toClient \o a \in Seq(Bytes) /\ Len(s.toClient \o a) = Len(s.toClient) + Len(a)
  BY <1>1, <1>2, ConcatProperties
<1>4. /\ t.phase = s.phase /\ t.shut = s.shut /\ t.sent = s.sent /\ t.toServer = s.toServer
      /\ t.toClient = s.toClient \o a /\ t.received = s.received
  BY DEF ByteStreams
<1>5. t \in ByteStreams
  BY <1>3 DEF ByteStreams
<1>7. /\ y \in Sessions /\ y.data = b /\ y.op # "none" /\ (y.op # "write" => b = <<>>)
      /\ (y.op = "read" => tcpKind = "echo") /\ (y.op = "ended" => tcpKind # "echo")
  BY <1>2, AfterWriteHolds
<1>8. Len(s.toClient \o a) <= WindowMax
  BY <1>1, <1>2, <1>3, AsioConstants
<1> HIDE DEF a, b, y, t
<1>6. s.received \o s.toClient \o x.data = s.received \o (s.toClient \o a) \o b
  <2> DEFINE r == s.received
             k == s.toClient
  <2>1. r \in Seq(Bytes) /\ k \in Seq(Bytes)
    BY <1>1
  <2>4. a \in Seq(Bytes) /\ b \in Seq(Bytes)
    BY <1>2
  <2> HIDE DEF r, k
  <2>2. r \o k \o (a \o b) = r \o (k \o a) \o b
    <3>1. MovesToClient(r, k, a, b)
      BY <2>1, <2>4, MoveToClient
    <3> QED
      BY ONLY <3>1 DEF MovesToClient
  <2>3. r \o k \o (a \o b) = r \o k \o x.data
    BY <1>2
  <2> QED
    BY <2>2, <2>3 DEF r, k
<1>9. SessionFits(y, t)
  BY <1>4, <1>7, <1>8 DEF SessionFits
<1>10. ASSUME tcpKind = "echo" PROVE Echoes(y, t)
  BY <1>4, <1>6, <1>7, <1>10 DEF FitsItsServer, Echoes
<1>11. ASSUME tcpKind \in TcpKinds \ {"echo"} PROVE TellsTheTime(y, t)
  BY <1>4, <1>6, <1>7, <1>11 DEF FitsItsServer, TellsTheTime
<1> QED
  BY <1>4, <1>5, <1>7, <1>9, <1>10, <1>11 DEF FitsItsServer, a, b, y, t

\* The session ends: the client shut its side and all was read, or is gone.
LEMMA FitsEnd ==
  ASSUME NEW x \in Sessions, NEW s \in ByteStreams, FitsItsServer(x, s), tcpKind \in TcpKinds,
         \/ x.op = "read" /\ s.shut = TRUE /\ s.toServer = <<>>
         \/ x.op \in {"read", "write"} /\ s.phase = "gone"
  PROVE  FitsItsServer(EndedSession, s)
<1>1. EndedSession.op = "ended" /\ EndedSession.data = <<>>
  BY DEF EndedSession
<1>2. SessionFits(EndedSession, s)
  BY <1>1 DEF FitsItsServer, SessionFits
<1>3. ASSUME tcpKind = "echo" PROVE Echoes(EndedSession, s)
  BY <1>1, <1>3 DEF FitsItsServer, SessionFits, Echoes
<1>4. ASSUME tcpKind \in TcpKinds \ {"echo"} PROVE TellsTheTime(EndedSession, s)
  BY <1>1, <1>4 DEF FitsItsServer, SessionFits, TellsTheTime
<1> QED
  BY <1>2, <1>3, <1>4 DEF FitsItsServer
LEMMA FitsShut ==
  ASSUME NEW x \in Sessions, NEW s \in ByteStreams, FitsItsServer(x, s), s.phase = "open"
  PROVE  LET t == [s EXCEPT !.shut = TRUE]
         IN  t \in ByteStreams /\ FitsItsServer(x, t) /\ t.phase = s.phase
<1> DEFINE t == [s EXCEPT !.shut = TRUE]
<1>1. /\ t.phase = s.phase /\ t.shut = TRUE /\ t.sent = s.sent /\ t.toServer = s.toServer
      /\ t.toClient = s.toClient /\ t.received = s.received
  BY DEF ByteStreams
<1>2. t \in ByteStreams
  BY DEF ByteStreams
<1> HIDE DEF t
<1>3. SessionFits(x, t)
  BY <1>1 DEF FitsItsServer, SessionFits
<1>4. ASSUME tcpKind = "echo" PROVE Echoes(x, t)
  BY <1>1, <1>4 DEF FitsItsServer, Echoes
<1>5. ASSUME tcpKind \in TcpKinds \ {"echo"} PROVE TellsTheTime(x, t)
  BY <1>1, <1>5 DEF FitsItsServer, TellsTheTime
<1> QED
  BY <1>1, <1>2, <1>3, <1>4, <1>5 DEF FitsItsServer, t

LEMMA FitsClientWrites ==
  ASSUME NEW x \in Sessions, NEW s \in ByteStreams, FitsItsServer(x, s), s.phase = "open",
         s.shut = FALSE, tcpKind = "echo", NEW e \in Bytes
  PROVE  LET t == [s EXCEPT !.sent = Append(s.sent, e), !.toServer = Append(s.toServer, e)]
         IN  t \in ByteStreams /\ FitsItsServer(x, t) /\ t.phase = s.phase
<1> DEFINE u == Append(s.sent, e)
           v == Append(s.toServer, e)
           t == [s EXCEPT !.sent = u, !.toServer = v]
<1>1. /\ s.sent \in Seq(Bytes) /\ s.toServer \in Seq(Bytes) /\ x.data \in Seq(Bytes)
      /\ s.toClient \in Seq(Bytes) /\ s.received \in Seq(Bytes)
  BY RecordParts
<1>2. u \in Seq(Bytes) /\ v \in Seq(Bytes)
  BY <1>1, AppendProperties
<1>3. /\ t.phase = s.phase /\ t.shut = s.shut /\ t.sent = u /\ t.toServer = v
      /\ t.toClient = s.toClient /\ t.received = s.received
  BY DEF ByteStreams
<1>4. t \in ByteStreams
  BY <1>2 DEF ByteStreams
<1>5. s.received \o s.toClient \o x.data \o v
         = Append(s.received \o s.toClient \o x.data \o s.toServer, e)
  <2> DEFINE p == s.received \o s.toClient \o x.data
             w == s.toServer
  <2>1. p \in Seq(Bytes)
    <3>1. s.received \o s.toClient \in Seq(Bytes)
      BY <1>1, ConcatProperties
    <3> QED
      BY <1>1, <3>1, ConcatProperties
  <2>2. w \in Seq(Bytes)
    BY <1>1
  <2> HIDE DEF p, w
  <2>3. p \o Append(w, e) = Append(p \o w, e)
    BY <2>1, <2>2, AppendedToAll
  <2> QED
    BY <2>3 DEF p, w
<1>6. s.received \o s.toClient \o x.data \o s.toServer = s.sent /\ x.op # "ended"
  BY DEF FitsItsServer, Echoes
<1> HIDE DEF u, v, t
<1>7. s.received \o s.toClient \o x.data \o v = u
  BY <1>5, <1>6 DEF u
<1>8. SessionFits(x, t)
  BY <1>3 DEF FitsItsServer, SessionFits
<1>9. Echoes(x, t)
  BY <1>3, <1>6, <1>7 DEF Echoes
<1> QED
  BY <1>3, <1>4, <1>8, <1>9 DEF FitsItsServer, t, u, v

LEMMA FitsClientReads ==
  ASSUME NEW x \in Sessions, NEW s \in ByteStreams, FitsItsServer(x, s), s.phase = "open",
         s.toClient # <<>>, tcpKind \in TcpKinds
  PROVE  LET t == [s EXCEPT !.toClient = Tail(s.toClient),
                            !.received = Append(s.received, Head(s.toClient))]
         IN  t \in ByteStreams /\ FitsItsServer(x, t) /\ t.phase = s.phase
<1> DEFINE u == Append(s.received, Head(s.toClient))
           v == Tail(s.toClient)
           t == [s EXCEPT !.toClient = v, !.received = u]
<1>1. /\ s.sent \in Seq(Bytes) /\ s.toServer \in Seq(Bytes) /\ x.data \in Seq(Bytes)
      /\ s.toClient \in Seq(Bytes) /\ s.received \in Seq(Bytes)
  BY RecordParts
<1>2. /\ Head(s.toClient) \in Bytes /\ v \in Seq(Bytes) /\ Len(v) = Len(s.toClient) - 1
      /\ Len(s.toClient) \in Nat
  BY <1>1, HeadAndRest
<1>3. u \in Seq(Bytes)
  BY <1>1, <1>2, AppendProperties
<1>4. /\ t.phase = s.phase /\ t.shut = s.shut /\ t.sent = s.sent /\ t.toServer = s.toServer
      /\ t.toClient = v /\ t.received = u
  BY DEF ByteStreams
<1>5. t \in ByteStreams
  BY <1>2, <1>3 DEF ByteStreams
<1>6. u \o v = s.received \o s.toClient
  BY <1>1, MoveToReceived
<1> HIDE DEF u, v, t
<1>7. SessionFits(x, t)
  BY <1>2, <1>4, AsioConstants DEF FitsItsServer, SessionFits
<1>8. ASSUME tcpKind = "echo" PROVE Echoes(x, t)
  BY <1>4, <1>6, <1>8 DEF FitsItsServer, Echoes
<1>9. ASSUME tcpKind \in TcpKinds \ {"echo"} PROVE TellsTheTime(x, t)
  BY <1>4, <1>6, <1>9 DEF FitsItsServer, TellsTheTime
<1> QED
  BY <1>4, <1>5, <1>7, <1>8, <1>9 DEF FitsItsServer, t, u, v

LEMMA FitsEof ==
  ASSUME NEW x \in Sessions, NEW s \in ByteStreams, FitsItsServer(x, s), s.phase = "open",
         x.op = "ended", s.toClient = <<>>
  PROVE  LET t == [s EXCEPT !.phase = "eof"] IN t \in ByteStreams /\ FitsItsServer(x, t)
<1> DEFINE t == [s EXCEPT !.phase = "eof"]
<1>1. /\ t.phase = "eof" /\ t.shut = s.shut /\ t.sent = s.sent /\ t.toServer = s.toServer
      /\ t.toClient = s.toClient /\ t.received = s.received
  BY DEF ByteStreams
<1>2. t \in ByteStreams
  BY DEF ByteStreams
<1> HIDE DEF t
<1>3. SessionFits(x, t)
  BY <1>1 DEF FitsItsServer, SessionFits
<1>4. ASSUME tcpKind = "echo" PROVE Echoes(x, t)
  BY <1>1, <1>4 DEF FitsItsServer, Echoes
<1>5. ASSUME tcpKind \in TcpKinds \ {"echo"} PROVE TellsTheTime(x, t)
  BY <1>1, <1>5 DEF FitsItsServer, TellsTheTime
<1> QED
  BY <1>1, <1>2, <1>3, <1>4, <1>5 DEF FitsItsServer, t

LEMMA FitsGone ==
  ASSUME NEW x \in Sessions, NEW s \in ByteStreams, FitsItsServer(x, s), s.phase = "open"
  PROVE  LET t == [s EXCEPT !.phase = "gone", !.toClient = <<>>] IN t \in ByteStreams /\ FitsItsServer(x, t)
<1> DEFINE t == [s EXCEPT !.phase = "gone", !.toClient = <<>>]
<1>1. t.phase = "gone" /\ t.toClient = <<>> /\ t.received = s.received
  BY DEF ByteStreams
<1>2. t \in ByteStreams
  BY RecordParts DEF ByteStreams
<1>3. Len(<<>>) = 0
  OBVIOUS
<1> HIDE DEF t
<1>4. SessionFits(x, t)
  BY <1>1, <1>3, AsioConstants DEF FitsItsServer, SessionFits
<1>5. Echoes(x, t)
  BY <1>1 DEF Echoes
<1>6. ASSUME tcpKind \in TcpKinds \ {"echo"} PROVE TellsTheTime(x, t)
  BY <1>1, <1>6 DEF FitsItsServer, TellsTheTime
<1> QED
  BY <1>2, <1>4, <1>5, <1>6 DEF FitsItsServer, t

LEMMA FitsConnect ==
  ASSUME NEW x \in Sessions, NEW s \in ByteStreams, FitsItsServer(x, s), s.phase = "new"
  PROVE  LET t == [s EXCEPT !.phase = "open"] IN t \in ByteStreams /\ FitsItsServer(x, t)
<1> DEFINE t == [s EXCEPT !.phase = "open"]
<1>1. /\ t.phase = "open" /\ t.shut = s.shut /\ t.sent = s.sent /\ t.toServer = s.toServer
      /\ t.toClient = s.toClient /\ t.received = s.received
  BY DEF ByteStreams
<1>2. t \in ByteStreams
  BY DEF ByteStreams
<1>3. /\ x.op = "none" /\ x.data = <<>> /\ s.sent = <<>> /\ s.toServer = <<>>
      /\ s.toClient = <<>> /\ s.received = <<>> /\ Len(s.toClient) <= WindowMax
  BY DEF FitsItsServer, SessionFits
<1>4. <<>> \o <<>> = <<>>
  OBVIOUS
<1> HIDE DEF t
<1>5. SessionFits(x, t)
  BY <1>1, <1>3 DEF SessionFits
<1>6. Echoes(x, t)
  <2>1. <<>> \o <<>> \o <<>> \o <<>> = <<>>
    BY <1>4
  <2> QED
    BY <1>1, <1>3, <2>1 DEF Echoes
<1>7. TellsTheTime(x, t)
  BY <1>1, <1>3 DEF TellsTheTime
<1> QED
  BY <1>1, <1>2, <1>5, <1>6, <1>7 DEF FitsItsServer, t

\* An accepted connection: an echo session reads, the others have the time to write.
LEMMA FitsAccept ==
  ASSUME NEW x \in Sessions, NEW s \in ByteStreams, FitsItsServer(x, s), s.phase # "new", x.op = "none",
         tcpKind \in TcpKinds
  PROVE  FitsItsServer(NewSession, s)
<1>1. s.phase # "eof" /\ x.data = <<>> /\ Len(s.toClient) <= WindowMax
  BY DEF FitsItsServer, SessionFits
<1>2. CASE tcpKind = "echo"
  <2>1. NewSession = [op |-> "read", data |-> <<>>]
    BY <1>2 DEF NewSession
  <2>2. NewSession.op = "read" /\ NewSession.data = <<>>
    BY <2>1
  <2>3. SessionFits(NewSession, s)
    BY <1>1, <2>2 DEF SessionFits
  <2>4. Echoes(NewSession, s)
    BY <1>1, <1>2, <2>2 DEF FitsItsServer, Echoes
  <2> QED
    BY <1>2, <2>3, <2>4 DEF FitsItsServer
<1>3. CASE tcpKind # "echo"
  <2>1. NewSession.op = "write" /\ NewSession.data = Daytime
    BY <1>3 DEF NewSession, WritesTheTime
  <2>2. SessionFits(NewSession, s)
    BY <1>1, <2>1 DEF SessionFits
  <2>3. s.phase = "open" => s.received = <<>> /\ s.toClient = <<>>
    BY <1>3 DEF FitsItsServer, TellsTheTime
  <2>4. <<>> \o <<>> \o Daytime = Daytime
    BY DEF Daytime
  <2>5. TellsTheTime(NewSession, s)
    BY <1>1, <2>1, <2>3, <2>4 DEF TellsTheTime
  <2> QED
    BY <1>3, <2>2, <2>5 DEF FitsItsServer
<1> QED
  BY <1>2, <1>3
-----------------------------------------------------------------------------
(* The steps of the TCP servers.                                           *)

LEMMA Connections ==
  ASSUME AsioIInv
  PROVE  /\ session \in [Peers -> Sessions] /\ stream \in [Peers -> ByteStreams]
         /\ acceptQueue \in Seq(Peers)
         /\ \A c \in Peers : /\ session[c] \in Sessions /\ stream[c] \in ByteStreams
                             /\ FitsItsServer(session[c], stream[c])
BY DEF AsioIInv, AsioTypeOK, AsioInv, ConnectionsFit

\* The part of the invariant about UDP does not depend on the connections.
LEMMA UdpUntouched ==
  ASSUME AsioIInv, UNCHANGED <<udp, asking>>
  PROVE  Answering' /\ AnswersWhoAsked'
<1>1. Answering'
  BY DEF AsioIInv, AsioInv, Answering
<1>2. AnswersWhoAsked'
  BY DEF AsioIInv, AsioInv, AnswersWhoAsked, NowServed
<1> QED
  BY <1>1, <1>2

\* A step of one connection that leaves the queue of the acceptor alone.
LEMMA OneConnection ==
  ASSUME AsioIInv, tcpKind \in TcpKinds, NEW c \in Peers,
         NEW y \in Sessions, NEW t \in ByteStreams, FitsItsServer(y, t),
         session' = [session EXCEPT ![c] = y], stream' = [stream EXCEPT ![c] = t],
         UNCHANGED <<tcpKind, acceptQueue, udp, asking>>,
         stream[c].phase # "new", t.phase # "new",
         y = session[c] \/ session[c].op # "none",
         y.op = "write" => session[c].op = "write" \/ tcpKind # "sync daytime"
  PROVE  AsioIInv'
<1>1. /\ session'[c] = y /\ stream'[c] = t
      /\ \A d \in Peers : d # c => session'[d] = session[d] /\ stream'[d] = stream[d]
      /\ session' \in [Peers -> Sessions] /\ stream' \in [Peers -> ByteStreams]
  BY Connections
<1>2. AsioTypeOK'
  BY <1>1 DEF AsioIInv, AsioTypeOK
<1>3. ConnectionsFit'
  <2> SUFFICES ASSUME NEW d \in Peers PROVE FitsItsServer(session[d], stream[d])'
    BY DEF ConnectionsFit
  <2>1. CASE d = c
    BY <1>1, <2>1 DEF FitsItsServer
  <2>2. CASE d # c
    <3>1. FitsItsServer(session[d], stream[d])
      BY Connections
    <3> QED
      BY <1>1, <2>2, <3>1 DEF FitsItsServer
  <2> QED
    BY <2>1, <2>2
<1>4. AcceptedOnce'
  <2>1. ASSUME NEW i \in 1 .. Len(acceptQueue)
        PROVE  stream'[acceptQueue[i]].phase # "new" /\ session'[acceptQueue[i]].op = "none"
    <3>1. PICK d \in Peers : d = acceptQueue[i]
      BY <2>1, Connections, ElementOfSeq
    <3>2. stream[d].phase # "new" /\ session[d].op = "none"
      BY <2>1, <3>1 DEF AsioIInv, AsioInv, AcceptedOnce
    <3> QED
      BY <1>1, <3>1, <3>2
  <2>2. \A i, j \in 1 .. Len(acceptQueue) : acceptQueue[i] = acceptQueue[j] => i = j
    BY DEF AsioIInv, AsioInv, AcceptedOnce
  <2> QED
    BY <2>1, <2>2 DEF AcceptedOnce
<1>5. ServesOneAtATime'
  <2> SUFFICES ASSUME tcpKind = "sync daytime", NEW d \in Peers, NEW e \in Peers,
                      session'[d].op = "write", session'[e].op = "write"
               PROVE  d = e
    BY DEF ServesOneAtATime
  <2>1. session[d].op = "write" /\ session[e].op = "write"
    BY <1>1
  <2> QED
    BY <2>1 DEF AsioIInv, AsioInv, ServesOneAtATime
<1>6. OneProgram'
  <2>1. tcpKind # "none"
    BY DEF TcpKinds
  <2> QED
    BY <2>1 DEF AsioIInv, AsioInv, OneProgram
<1> QED
  BY <1>2, <1>3, <1>4, <1>5, <1>6, UdpUntouched DEF AsioIInv, AsioInv

LEMMA ReadSomeHolds ==
  ASSUME AsioIInv, tcpKind \in TcpKinds, NEW c \in Peers, ReadSome(c),
         UNCHANGED <<tcpKind, udp, asking>>
  PROVE  AsioIInv'
<1>1. PICK n \in 1 .. Len(stream[c].toServer) :
         /\ session' = [session EXCEPT ![c] =
                           [op |-> "write", data |-> SubSeq(stream[c].toServer, 1, n)]]
         /\ stream' = [stream EXCEPT ![c].toServer = SubSeq(@, n + 1, Len(@))]
  BY DEF ReadSome
<1> DEFINE y == [op |-> "write", data |-> SubSeq(stream[c].toServer, 1, n)]
           t == [stream[c] EXCEPT !.toServer =
                    SubSeq(stream[c].toServer, n + 1, Len(stream[c].toServer))]
<1>2. session[c] \in Sessions /\ stream[c] \in ByteStreams /\ FitsItsServer(session[c], stream[c])
  BY Connections
<1>3. session[c].op = "read" /\ UNCHANGED acceptQueue
  BY DEF ReadSome
<1>4. /\ y \in Sessions /\ t \in ByteStreams /\ FitsItsServer(y, t) /\ t.phase = stream[c].phase
      /\ tcpKind = "echo"
  BY <1>2, <1>3, FitsRead
<1>5. session' = [session EXCEPT ![c] = y] /\ stream' = [stream EXCEPT ![c] = t]
  BY <1>1
<1>6. stream[c].phase # "new"
  BY <1>2, <1>3 DEF FitsItsServer, SessionFits
<1> HIDE DEF y, t
<1> QED
  BY <1>3, <1>4, <1>5, <1>6, OneConnection

LEMMA WriteSomeHolds ==
  ASSUME AsioIInv, tcpKind \in TcpKinds, NEW c \in Peers, WriteSome(c),
         UNCHANGED <<tcpKind, udp, asking>>
  PROVE  AsioIInv'
<1>1. /\ session[c].op = "write" /\ stream[c].phase = "open" /\ UNCHANGED acceptQueue
      /\ \E n \in 1 .. Len(session[c].data) :
            /\ n <= WindowMax - Len(stream[c].toClient)
            /\ stream' = [stream EXCEPT ![c].toClient = @ \o SubSeq(session[c].data, 1, n)]
            /\ session' = [session EXCEPT ![c] =
                  AfterWrite(SubSeq(session[c].data, n + 1, Len(session[c].data)))]
  BY DEF WriteSome
<1>2. PICK n \in 1 .. Len(session[c].data) :
         /\ n <= WindowMax - Len(stream[c].toClient)
         /\ stream' = [stream EXCEPT ![c].toClient = @ \o SubSeq(session[c].data, 1, n)]
         /\ session' = [session EXCEPT ![c] =
               AfterWrite(SubSeq(session[c].data, n + 1, Len(session[c].data)))]
  BY <1>1
<1> DEFINE y == AfterWrite(SubSeq(session[c].data, n + 1, Len(session[c].data)))
           t == [stream[c] EXCEPT !.toClient =
                    stream[c].toClient \o SubSeq(session[c].data, 1, n)]
<1>3. session[c] \in Sessions /\ stream[c] \in ByteStreams /\ FitsItsServer(session[c], stream[c])
  BY Connections
<1>4. y \in Sessions /\ t \in ByteStreams /\ FitsItsServer(y, t) /\ t.phase = stream[c].phase
  <2>1. n <= WindowMax - Len(stream[c].toClient)
    BY <1>2
  <2>2. session[c].op = "write" /\ stream[c].phase = "open"
    BY <1>1
  <2> QED
    BY <1>3, <2>1, <2>2, FitsWrite
<1>5. session' = [session EXCEPT ![c] = y] /\ stream' = [stream EXCEPT ![c] = t]
  BY <1>2
<1> HIDE DEF y, t
<1> QED
  BY <1>1, <1>4, <1>5, OneConnection

LEMMA EndHolds ==
  ASSUME AsioIInv, tcpKind \in TcpKinds, NEW c \in Peers, ReadError(c) \/ WriteError(c),
         UNCHANGED <<tcpKind, udp, asking>>
  PROVE  AsioIInv'
<1>1. /\ session' = [session EXCEPT ![c] = EndedSession]
      /\ UNCHANGED <<acceptQueue, stream>>
      /\ session[c].op # "none"
  BY DEF ReadError, WriteError
<1>2. session[c] \in Sessions /\ stream[c] \in ByteStreams /\ FitsItsServer(session[c], stream[c])
  BY Connections
<1>3. stream[c].shut = TRUE \/ stream[c].shut = FALSE
  BY <1>2 DEF ByteStreams
<1>4. FitsItsServer(EndedSession, stream[c])
  BY <1>2, <1>3, FitsEnd DEF ReadError, WriteError
<1>5. stream' = [stream EXCEPT ![c] = stream[c]]
  BY <1>1, Connections
<1>6. stream[c].phase # "new"
  BY <1>1, <1>2 DEF FitsItsServer, SessionFits
<1>7. EndedSession \in Sessions /\ EndedSession.op = "ended"
  BY RecordParts DEF EndedSession
<1> QED
  BY <1>1, <1>2, <1>4, <1>5, <1>6, <1>7, OneConnection

\* The client's own steps change its stream only.
LEMMA ClientHolds ==
  ASSUME AsioIInv, tcpKind \in TcpKinds, NEW c \in Peers,
         ClientWrites(c) \/ ClientReads(c) \/ ClientShuts(c) \/ ClientSeesEof(c) \/ ClientGoes(c),
         UNCHANGED <<tcpKind, udp, asking>>
  PROVE  AsioIInv'
<1>1. session[c] \in Sessions /\ stream[c] \in ByteStreams /\ FitsItsServer(session[c], stream[c])
  BY Connections
<1>2. /\ stream[c].phase = "open" /\ UNCHANGED <<acceptQueue, session>>
  BY DEF ClientWrites, ClientReads, ClientShuts, ClientSeesEof, ClientGoes
<1>3. session' = [session EXCEPT ![c] = session[c]]
  BY <1>2, Connections
<1>4. ASSUME NEW t \in ByteStreams, FitsItsServer(session[c], t), t.phase # "new",
             stream' = [stream EXCEPT ![c] = t]
      PROVE  AsioIInv'
  BY <1>1, <1>2, <1>3, <1>4, OneConnection
<1>5. CASE ClientWrites(c)
  <2> DEFINE e == Len(stream[c].sent) + 1
             t == [stream[c] EXCEPT !.sent = Append(stream[c].sent, e),
                                    !.toServer = Append(stream[c].toServer, e)]
  <2>1. stream[c].shut = FALSE /\ e \in Bytes /\ tcpKind = "echo"
    <3>1. stream[c].shut \in BOOLEAN /\ Len(stream[c].sent) \in Nat
      BY <1>1, RecordParts
    <3> QED
      BY <1>5, <3>1 DEF ClientWrites, Bytes
  <2>2. stream' = [stream EXCEPT ![c] = t]
    BY <1>5 DEF ClientWrites
  <2> HIDE DEF e
  <2>3. t \in ByteStreams /\ FitsItsServer(session[c], t) /\ t.phase = stream[c].phase
    BY <1>1, <1>2, <2>1, FitsClientWrites
  <2> HIDE DEF t
  <2> QED
    BY <1>2, <1>4, <2>2, <2>3
<1>6. CASE ClientReads(c)
  <2> DEFINE t == [stream[c] EXCEPT !.toClient = Tail(stream[c].toClient),
                       !.received = Append(stream[c].received, Head(stream[c].toClient))]
  <2>1. stream[c].toClient # <<>>
    BY <1>6 DEF ClientReads
  <2>2. stream' = [stream EXCEPT ![c] = t]
    BY <1>6 DEF ClientReads
  <2>3. t \in ByteStreams /\ FitsItsServer(session[c], t) /\ t.phase = stream[c].phase
    BY <1>1, <1>2, <2>1, FitsClientReads
  <2> HIDE DEF t
  <2> QED
    BY <1>2, <1>4, <2>2, <2>3
<1>7. CASE ClientShuts(c)
  <2> DEFINE t == [stream[c] EXCEPT !.shut = TRUE]
  <2>1. stream' = [stream EXCEPT ![c] = t]
    BY <1>7 DEF ClientShuts
  <2>2. t \in ByteStreams /\ FitsItsServer(session[c], t) /\ t.phase = stream[c].phase
    BY <1>1, <1>2, FitsShut
  <2> HIDE DEF t
  <2> QED
    BY <1>2, <1>4, <2>1, <2>2
<1>8. CASE ClientSeesEof(c)
  <2> DEFINE t == [stream[c] EXCEPT !.phase = "eof"]
  <2>1. stream' = [stream EXCEPT ![c] = t]
    BY <1>8 DEF ClientSeesEof
  <2>2. t \in ByteStreams /\ FitsItsServer(session[c], t)
    BY <1>1, <1>2, <1>8, FitsEof DEF ClientSeesEof
  <2>3. t.phase = "eof"
    BY <1>1 DEF ByteStreams
  <2> HIDE DEF t
  <2> QED
    BY <1>4, <2>1, <2>2, <2>3
<1>9. CASE ClientGoes(c)
  <2> DEFINE t == [stream[c] EXCEPT !.phase = "gone", !.toClient = <<>>]
  <2>1. stream' = [stream EXCEPT ![c] = t]
    BY <1>9 DEF ClientGoes
  <2>2. t \in ByteStreams /\ FitsItsServer(session[c], t)
    BY <1>1, <1>2, FitsGone
  <2>3. t.phase = "gone"
    BY <1>1 DEF ByteStreams
  <2> HIDE DEF t
  <2> QED
    BY <1>4, <2>1, <2>2, <2>3
<1> QED
  BY <1>5, <1>6, <1>7, <1>8, <1>9
\* A client connects: it waits to be accepted, and has waited nowhere before.
LEMMA ConnectHolds ==
  ASSUME AsioIInv, tcpKind \in TcpKinds, NEW c \in Peers, TcpConnect(c),
         UNCHANGED <<tcpKind, udp, asking>>
  PROVE  AsioIInv'
<1> DEFINE t == [stream[c] EXCEPT !.phase = "open"]
<1>1. /\ stream[c].phase = "new" /\ stream' = [stream EXCEPT ![c] = t]
      /\ acceptQueue' = Append(acceptQueue, c) /\ session' = session
  BY DEF TcpConnect
<1>2. /\ session[c] \in Sessions /\ stream[c] \in ByteStreams /\ FitsItsServer(session[c], stream[c])
      /\ acceptQueue \in Seq(Peers)
  BY Connections
<1>3. t \in ByteStreams /\ FitsItsServer(session[c], t)
  BY <1>1, <1>2, FitsConnect
<1>4. t.phase = "open" /\ session[c].op = "none"
  BY <1>1, <1>2 DEF ByteStreams, FitsItsServer, SessionFits
<1> HIDE DEF t
<1>5. /\ stream'[c] = t /\ stream' \in [Peers -> ByteStreams]
      /\ \A d \in Peers : d # c => stream'[d] = stream[d]
  BY <1>1, <1>3, Connections
<1>6. /\ acceptQueue' \in Seq(Peers) /\ Len(acceptQueue') = Len(acceptQueue) + 1
      /\ Len(acceptQueue) \in Nat /\ acceptQueue'[Len(acceptQueue) + 1] = c
      /\ \A i \in 1 .. Len(acceptQueue) : acceptQueue'[i] = acceptQueue[i]
  BY <1>1, <1>2, AppendProperties
<1>7. AsioTypeOK'
  BY <1>1, <1>5, <1>6 DEF AsioIInv, AsioTypeOK
<1>8. ConnectionsFit'
  <2> SUFFICES ASSUME NEW d \in Peers PROVE FitsItsServer(session[d], stream[d])'
    BY DEF ConnectionsFit
  <2>1. FitsItsServer(session[d], stream[d])
    BY Connections
  <2> QED
    BY <1>1, <1>3, <1>5, <2>1 DEF FitsItsServer
<1>9. AcceptedOnce'
  <2>1. ASSUME NEW i \in 1 .. Len(acceptQueue)
        PROVE  /\ acceptQueue[i] \in Peers /\ acceptQueue[i] # c
               /\ stream[acceptQueue[i]].phase # "new" /\ session[acceptQueue[i]].op = "none"
    <3>1. acceptQueue[i] \in Peers
      BY <1>2, ElementOfSeq
    <3>2. stream[acceptQueue[i]].phase # "new" /\ session[acceptQueue[i]].op = "none"
      BY DEF AsioIInv, AsioInv, AcceptedOnce
    <3> QED
      BY <1>1, <3>1, <3>2
  <2>2. \A i \in 1 .. Len(acceptQueue') : i \in 1 .. Len(acceptQueue) \/ i = Len(acceptQueue) + 1
    BY <1>6
  <2>3. ASSUME NEW i \in 1 .. Len(acceptQueue')
        PROVE  stream'[acceptQueue'[i]].phase # "new" /\ session'[acceptQueue'[i]].op = "none"
    <3>1. CASE i = Len(acceptQueue) + 1
      BY <1>1, <1>4, <1>5, <1>6, <3>1
    <3>2. CASE i \in 1 .. Len(acceptQueue)
      BY <1>1, <1>5, <1>6, <2>1, <3>2
    <3> QED
      BY <2>2, <3>1, <3>2
  <2>4. ASSUME NEW i \in 1 .. Len(acceptQueue'), NEW j \in 1 .. Len(acceptQueue'),
               acceptQueue'[i] = acceptQueue'[j]
        PROVE  i = j
    <3>1. \A k, m \in 1 .. Len(acceptQueue) : acceptQueue[k] = acceptQueue[m] => k = m
      BY DEF AsioIInv, AsioInv, AcceptedOnce
    <3> QED
      BY <1>6, <2>1, <2>2, <2>4, <3>1
  <2> QED
    BY <2>3, <2>4 DEF AcceptedOnce
<1>10. ServesOneAtATime' /\ OneProgram'
  <2>1. ServesOneAtATime'
    BY <1>1 DEF AsioIInv, AsioInv, ServesOneAtATime
  <2>2. tcpKind # "none"
    BY DEF TcpKinds
  <2> QED
    BY <2>1, <2>2 DEF AsioIInv, AsioInv, OneProgram
<1> QED
  BY <1>7, <1>8, <1>9, <1>10, UdpUntouched DEF AsioIInv, AsioInv

\* do_accept's handler: the first that waits gets its session.
LEMMA AcceptHolds ==
  ASSUME AsioIInv, tcpKind \in TcpKinds, TcpAccept, UNCHANGED <<tcpKind, udp, asking>>
  PROVE  AsioIInv'
<1>1. acceptQueue \in Seq(Peers) /\ acceptQueue # <<>>
  BY Connections DEF TcpAccept
<1>2. PICK c \in Peers : c = Head(acceptQueue)
  BY <1>1, HeadTailProperties
<1>3. /\ session' = [session EXCEPT ![c] = NewSession] /\ UNCHANGED stream
      /\ acceptQueue' = Tail(acceptQueue) /\ FreeToAccept
  BY <1>2 DEF TcpAccept
<1>4. /\ Len(acceptQueue) \in Nat \ {0} /\ Head(acceptQueue) = acceptQueue[1]
      /\ acceptQueue' \in Seq(Peers) /\ Len(acceptQueue') = Len(acceptQueue) - 1
      /\ \A i \in 1 .. Len(acceptQueue) - 1 : acceptQueue'[i] = acceptQueue[i + 1]
  BY <1>1, <1>3, HeadTailProperties
<1>5. /\ \A i \in 1 .. Len(acceptQueue) :
            stream[acceptQueue[i]].phase # "new" /\ session[acceptQueue[i]].op = "none"
      /\ \A i, j \in 1 .. Len(acceptQueue) : acceptQueue[i] = acceptQueue[j] => i = j
  BY DEF AsioIInv, AsioInv, AcceptedOnce
<1>6. 1 \in 1 .. Len(acceptQueue)
  BY <1>4
<1>7. stream[c].phase # "new" /\ session[c].op = "none"
  BY <1>2, <1>4, <1>5, <1>6
<1>8. FitsItsServer(NewSession, stream[c]) /\ NewSession \in Sessions
  BY <1>7, Connections, FitsAccept, RecordParts
<1>9. /\ session'[c] = NewSession /\ session' \in [Peers -> Sessions]
      /\ \A d \in Peers : d # c => session'[d] = session[d]
  BY <1>3, <1>8, Connections
<1>10. AsioTypeOK'
  BY <1>3, <1>4, <1>9 DEF AsioIInv, AsioTypeOK
<1>11. ConnectionsFit'
  <2> SUFFICES ASSUME NEW d \in Peers PROVE FitsItsServer(session[d], stream[d])'
    BY DEF ConnectionsFit
  <2>1. FitsItsServer(session[d], stream[d])
    BY Connections
  <2>2. FitsItsServer(session'[d], stream[d])
    BY <1>8, <1>9, <2>1
  <2> QED
    BY <1>3, <2>2 DEF FitsItsServer
<1>12. AcceptedOnce'
  <2>1. \A i \in 1 .. Len(acceptQueue') :
          i + 1 \in 1 .. Len(acceptQueue) /\ i + 1 # 1 /\ acceptQueue'[i] = acceptQueue[i + 1]
    BY <1>4
  <2>2. ASSUME NEW i \in 1 .. Len(acceptQueue')
        PROVE  stream'[acceptQueue'[i]].phase # "new" /\ session'[acceptQueue'[i]].op = "none"
    <3>1. acceptQueue'[i] # c
      BY <1>2, <1>4, <1>5, <1>6, <2>1
    <3>2. acceptQueue'[i] \in Peers
      BY <1>4, ElementOfSeq
    <3> QED
      BY <1>3, <1>5, <1>9, <2>1, <3>1, <3>2
  <2>3. ASSUME NEW i \in 1 .. Len(acceptQueue'), NEW j \in 1 .. Len(acceptQueue'),
               acceptQueue'[i] = acceptQueue'[j]
        PROVE  i = j
    <3>1. i + 1 = j + 1
      BY <1>5, <2>1, <2>3
    <3> QED
      BY <3>1
  <2> QED
    BY <2>2, <2>3 DEF AcceptedOnce
<1>13. ServesOneAtATime'
  <2> SUFFICES ASSUME tcpKind = "sync daytime", NEW d \in Peers, NEW e \in Peers,
                      session'[d].op = "write", session'[e].op = "write"
               PROVE  d = e
    BY DEF ServesOneAtATime
  <2>1. \A p \in Peers : session[p].op # "write"
    BY <1>3 DEF FreeToAccept
  <2> QED
    BY <1>9, <2>1
<1>14. OneProgram'
  <2>1. tcpKind # "none"
    BY DEF TcpKinds
  <2> QED
    BY <1>3, <2>1 DEF AsioIInv, AsioInv, OneProgram
<1> QED
  BY <1>10, <1>11, <1>12, <1>13, <1>14, UdpUntouched DEF AsioIInv, AsioInv

\* The first that waits gets none.
LEMMA AcceptErrorHolds ==
  ASSUME AsioIInv, tcpKind \in TcpKinds, TcpAcceptError, UNCHANGED <<tcpKind, udp, asking>>
  PROVE  AsioIInv'
<1>1. acceptQueue \in Seq(Peers) /\ acceptQueue # <<>>
  BY Connections DEF TcpAcceptError
<1>2. UNCHANGED <<session, stream, tcpKind>> /\ acceptQueue' = Tail(acceptQueue)
  BY DEF TcpAcceptError
<1>3. /\ Len(acceptQueue) \in Nat \ {0}
      /\ acceptQueue' \in Seq(Peers) /\ Len(acceptQueue') = Len(acceptQueue) - 1
      /\ \A i \in 1 .. Len(acceptQueue) - 1 : acceptQueue'[i] = acceptQueue[i + 1]
  BY <1>1, <1>2, HeadTailProperties
<1>4. /\ \A i \in 1 .. Len(acceptQueue) :
            stream[acceptQueue[i]].phase # "new" /\ session[acceptQueue[i]].op = "none"
      /\ \A i, j \in 1 .. Len(acceptQueue) : acceptQueue[i] = acceptQueue[j] => i = j
  BY DEF AsioIInv, AsioInv, AcceptedOnce
<1>5. \A i \in 1 .. Len(acceptQueue') :
        i + 1 \in 1 .. Len(acceptQueue) /\ acceptQueue'[i] = acceptQueue[i + 1]
  BY <1>3
<1>6. AsioTypeOK'
  BY <1>2, <1>3 DEF AsioIInv, AsioTypeOK
<1>7. ConnectionsFit'
  BY <1>2 DEF AsioIInv, AsioInv, ConnectionsFit, FitsItsServer
<1>8. AcceptedOnce'
  <2>1. ASSUME NEW i \in 1 .. Len(acceptQueue'), NEW j \in 1 .. Len(acceptQueue'),
               acceptQueue'[i] = acceptQueue'[j]
        PROVE  i = j
    <3>1. i + 1 = j + 1
      BY <1>4, <1>5, <2>1
    <3> QED
      BY <3>1
  <2> QED
    BY <1>2, <1>4, <1>5, <2>1 DEF AcceptedOnce
<1>9. ServesOneAtATime' /\ OneProgram'
  <2>1. tcpKind # "none"
    BY DEF TcpKinds
  <2> QED
    BY <1>2, <2>1 DEF AsioIInv, AsioInv, ServesOneAtATime, OneProgram
<1> QED
  BY <1>6, <1>7, <1>8, <1>9, UdpUntouched DEF AsioIInv, AsioInv

LEMMA TcpStepHolds ==
  ASSUME AsioIInv, tcpKind # "none", TcpStep
  PROVE  AsioIInv'
<1>1. tcpKind \in TcpKinds /\ UNCHANGED <<tcpKind, udp, asking>>
  BY DEF AsioIInv, AsioTypeOK, TcpStep
<1>2. CASE TcpAccept
  BY <1>1, <1>2, AcceptHolds
<1>8. CASE TcpAcceptError
  BY <1>1, <1>8, AcceptErrorHolds
<1>3. ASSUME NEW c \in Peers, TcpConnect(c) PROVE AsioIInv'
  BY <1>1, <1>3, ConnectHolds
<1>4. ASSUME NEW c \in Peers, ReadSome(c) PROVE AsioIInv'
  BY <1>1, <1>4, ReadSomeHolds
<1>5. ASSUME NEW c \in Peers, WriteSome(c) PROVE AsioIInv'
  BY <1>1, <1>5, WriteSomeHolds
<1>6. ASSUME NEW c \in Peers, ReadError(c) \/ WriteError(c) PROVE AsioIInv'
  BY <1>1, <1>6, EndHolds
<1>7. ASSUME NEW c \in Peers,
             ClientWrites(c) \/ ClientReads(c) \/ ClientShuts(c) \/ ClientSeesEof(c)
               \/ ClientGoes(c)
      PROVE AsioIInv'
  BY <1>1, <1>7, ClientHolds
<1> QED
  BY <1>2, <1>3, <1>4, <1>5, <1>6, <1>7, <1>8 DEF TcpStep

-----------------------------------------------------------------------------
(* How often a client waits in the queue of the UDP server's socket.       *)

LEMMA PlacesFinite ==
  ASSUME NEW S, NEW q \in Seq(S), NEW c
  PROVE  /\ IsFiniteSet({i \in 1 .. Len(q) : q[i] = c}) /\ DOMAIN q = 1 .. Len(q)
         /\ WaitsIn(q, c) = Cardinality({i \in 1 .. Len(q) : q[i] = c})
         /\ WaitsIn(q, c) \in Nat
<1>1. Len(q) \in Nat /\ DOMAIN q = 1 .. Len(q)
  OBVIOUS
<1>2. IsFiniteSet(1 .. Len(q))
  BY <1>1, FS_Interval
<1>3. {i \in 1 .. Len(q) : q[i] = c} \in SUBSET (1 .. Len(q))
  OBVIOUS
<1>4. IsFiniteSet({i \in 1 .. Len(q) : q[i] = c})
  BY <1>2, <1>3, FS_Subset
<1> QED
  BY <1>1, <1>4, FS_CardinalityType DEF WaitsIn

LEMMA WaitsInNobody == \A c : WaitsIn(<<>>, c) = 0
<1> SUFFICES ASSUME NEW c PROVE WaitsIn(<<>>, c) = 0
  OBVIOUS
<1>1. {i \in DOMAIN <<>> : <<>>[i] = c} = {}
  OBVIOUS
<1> QED
  BY <1>1, FS_EmptySet DEF WaitsIn

LEMMA WaitsInAppend ==
  ASSUME NEW S, NEW q \in Seq(S), NEW e \in S, NEW c
  PROVE  WaitsIn(Append(q, e), c) = WaitsIn(q, c) + (IF e = c THEN 1 ELSE 0)
<1> DEFINE A == {i \in 1 .. Len(q) : q[i] = c}
           B == {i \in 1 .. Len(Append(q, e)) : Append(q, e)[i] = c}
<1>1. /\ Append(q, e) \in Seq(S) /\ Len(Append(q, e)) = Len(q) + 1 /\ Len(q) \in Nat
      /\ Append(q, e)[Len(q) + 1] = e
      /\ \A i \in 1 .. Len(q) : Append(q, e)[i] = q[i]
  BY AppendProperties
<1>2. IsFiniteSet(A) /\ WaitsIn(q, c) = Cardinality(A) /\ WaitsIn(q, c) \in Nat
  BY PlacesFinite
<1>3. WaitsIn(Append(q, e), c) = Cardinality(B)
  BY <1>1, PlacesFinite
<1>4. Len(q) + 1 \notin A
  BY <1>1
<1>5. CASE e = c
  <2>1. B = A \cup {Len(q) + 1}
    BY <1>1, <1>5
  <2> HIDE DEF A, B
  <2>2. Cardinality(B) = Cardinality(A) + 1
    BY <1>2, <1>4, <2>1, FS_AddElement
  <2> QED
    BY <1>2, <1>3, <1>5, <2>2
<1>6. CASE e # c
  <2>1. B = A
    BY <1>1, <1>6
  <2> HIDE DEF A, B
  <2> QED
    BY <1>2, <1>3, <1>6, <2>1
<1> QED
  BY <1>5, <1>6

LEMMA WaitsInTail ==
  ASSUME NEW S, NEW q \in Seq(S), q # <<>>, NEW c
  PROVE  WaitsIn(q, c) = WaitsIn(Tail(q), c) + (IF Head(q) = c THEN 1 ELSE 0)
<1> DEFINE A == {i \in 1 .. Len(q) : q[i] = c}
           B == {i \in 1 .. Len(Tail(q)) : Tail(q)[i] = c}
           later == [i \in A \ {1} |-> i - 1]
<1>1. /\ Len(q) \in Nat \ {0} /\ Head(q) = q[1] /\ Tail(q) \in Seq(S)
      /\ Len(Tail(q)) = Len(q) - 1 /\ \A i \in 1 .. Len(Tail(q)) : Tail(q)[i] = q[i + 1]
  BY HeadTailProperties
<1>2. IsFiniteSet(A) /\ WaitsIn(q, c) = Cardinality(A) /\ WaitsIn(q, c) \in Nat
  BY PlacesFinite
<1>3. WaitsIn(Tail(q), c) = Cardinality(B) /\ WaitsIn(Tail(q), c) \in Nat
  BY <1>1, PlacesFinite
<1>4. 1 \in A <=> Head(q) = c
  BY <1>1
<1>5. \A i \in A \ {1} : i \in Int /\ i - 1 \in B
  BY <1>1
<1>6. \A j \in B : j + 1 \in A \ {1} /\ (j + 1) - 1 = j
  BY <1>1
<1> HIDE DEF A, B
<1>7. later \in [A \ {1} -> B]
  BY <1>5
<1>8. \A i, j \in A \ {1} : later[i] = later[j] => i = j
  BY <1>5
<1>9. \A j \in B : later[j + 1] = j
  BY <1>6
<1>10. later \in Bijection(A \ {1}, B)
  <2>1. later \in Injection(A \ {1}, B)
    BY <1>7, <1>8 DEF Injection, IsInjective
  <2>2. later \in Surjection(A \ {1}, B)
    BY <1>6, <1>7, <1>9 DEF Surjection
  <2> QED
    BY <2>1, <2>2 DEF Bijection
<1>11. IsFiniteSet(A \ {1})
       /\ Cardinality(A \ {1}) = IF 1 \in A THEN Cardinality(A) - 1 ELSE Cardinality(A)
  BY <1>2, FS_RemoveElement
<1>12. Cardinality(B) = Cardinality(A \ {1})
  BY <1>10, <1>11, FS_Bijection DEF ExistsBijection
<1> QED
  BY <1>2, <1>3, <1>4, <1>11, <1>12
-----------------------------------------------------------------------------
(* The steps of the UDP server and its clients.                            *)

LEMMA ServerParts ==
  ASSUME AsioIInv
  PROVE  /\ udp \in UdpServers /\ udp.kind \in UdpKinds \cup {"none"}
         /\ udp.op \in {"off", "receive", "send", "ended"} /\ udp.queue \in Seq(Peers)
         /\ udp.remote \in Peers \cup {"nobody"}
         /\ \A c \in Peers : udp.arrived[c] \in Nat /\ udp.answered[c] \in Nat
         /\ asking \in [Peers -> UdpClients]
         /\ \A c \in Peers : /\ asking[c] \in UdpClients /\ asking[c].asked \in 0 .. AskMax
                             /\ asking[c].asked \in Nat
                             /\ asking[c].replies \in Nat /\ asking[c].times \in Nat
                             /\ asking[c].op \in {"idle", "waiting", "ended"}
         /\ \A c \in Peers : WaitsIn(udp.queue, c) \in Nat
         /\ (udp.op = "send" => udp.remote \in Peers)
         /\ \A c \in Peers : udp.arrived[c] <= asking[c].asked
<1>1. udp \in UdpServers /\ asking \in [Peers -> UdpClients]
  BY DEF AsioIInv, AsioTypeOK
<1>2. /\ udp.kind \in UdpKinds \cup {"none"}
      /\ udp.op \in {"off", "receive", "send", "ended"} /\ udp.queue \in Seq(Peers)
      /\ udp.remote \in Peers \cup {"nobody"}
      /\ \A c \in Peers : udp.arrived[c] \in Nat /\ udp.answered[c] \in Nat
  BY <1>1 DEF UdpServers
<1>3. \A c \in Peers : /\ asking[c] \in UdpClients /\ asking[c].asked \in 0 .. AskMax
                       /\ asking[c].replies \in Nat /\ asking[c].times \in Nat
                       /\ asking[c].op \in {"idle", "waiting", "ended"}
  BY <1>1 DEF UdpClients
<1>4. \A c \in Peers : asking[c].asked \in Nat
  BY <1>3, AsioConstants
<1>5. \A c \in Peers : WaitsIn(udp.queue, c) \in Nat
  BY <1>2, PlacesFinite
<1>6. /\ (udp.op = "send" => udp.remote \in Peers)
      /\ \A c \in Peers : udp.arrived[c] <= asking[c].asked
  BY DEF AsioIInv, AsioInv, Answering
<1> QED
  BY <1>1, <1>2, <1>3, <1>4, <1>5, <1>6

\* The part of the invariant about TCP while the UDP server runs.
LEMMA TcpUntouched ==
  ASSUME AsioIInv, udp.op # "off" \/ tcpKind = "none", udp'.op # "off",
         UNCHANGED <<tcpKind, acceptQueue, session, stream>>
  PROVE  ConnectionsFit' /\ AcceptedOnce' /\ ServesOneAtATime' /\ OneProgram'
<1>1. ConnectionsFit'
  BY DEF AsioIInv, AsioInv, ConnectionsFit, FitsItsServer
<1>2. AcceptedOnce'
  BY DEF AsioIInv, AsioInv, AcceptedOnce
<1>3. ServesOneAtATime'
  BY DEF AsioIInv, AsioInv, ServesOneAtATime
<1>4. OneProgram'
  BY DEF AsioIInv, AsioInv, OneProgram
<1> QED
  BY <1>1, <1>2, <1>3, <1>4

\* What a step of UDP has to keep, for the server and of each client.
Serves(u, a) ==
    /\ u \in UdpServers /\ a \in [Peers -> UdpClients] /\ u.op # "off"
    /\ u.op = "send" => u.remote \in Peers
    /\ \A c \in Peers :
          /\ u.arrived[c] <= a[c].asked
          /\ u.arrived[c] = WaitsIn(u.queue, c)
                + (IF u.op = "send" /\ u.remote = c THEN 1 ELSE 0) + u.answered[c]
          /\ a[c].replies + a[c].times <= u.answered[c]

LEMMA ServesHere ==
  ASSUME AsioIInv, udp.op # "off"
  PROVE  Serves(udp, asking)
BY ServerParts DEF AsioIInv, AsioInv, Answering, AnswersWhoAsked, NowServed, Serves

LEMMA ServesNext ==
  ASSUME AsioIInv, udp.op # "off" \/ tcpKind = "none",
         UNCHANGED <<tcpKind, acceptQueue, session, stream>>, Serves(udp', asking')
  PROVE  AsioIInv'
<1>1. AsioTypeOK'
  BY DEF AsioIInv, AsioTypeOK, Serves
<1>2. Answering'
  BY DEF Answering, Serves
<1>3. AnswersWhoAsked'
  <2> SUFFICES ASSUME NEW c \in Peers
               PROVE  /\ udp'.arrived[c] = WaitsIn(udp'.queue, c) + NowServed(c)' + udp'.answered[c]
                      /\ asking'[c].replies + asking'[c].times <= udp'.answered[c]
                      /\ udp'.answered[c] <= asking'[c].asked
    BY DEF AnswersWhoAsked
  <2>1. /\ udp' \in UdpServers /\ asking' \in [Peers -> UdpClients]
        /\ udp'.arrived[c] <= asking'[c].asked
        /\ udp'.arrived[c] = WaitsIn(udp'.queue, c)
              + (IF udp'.op = "send" /\ udp'.remote = c THEN 1 ELSE 0) + udp'.answered[c]
        /\ asking'[c].replies + asking'[c].times <= udp'.answered[c]
    BY DEF Serves
  <2>2. NowServed(c)' = IF udp'.op = "send" /\ udp'.remote = c THEN 1 ELSE 0
    BY DEF NowServed
  <2>3. udp'.queue \in Seq(Peers) /\ udp'.answered[c] \in Nat /\ udp'.arrived[c] \in Nat
    BY <2>1 DEF UdpServers
  <2>4. WaitsIn(udp'.queue, c) \in Nat
    BY <2>3, PlacesFinite
  <2>5. asking'[c].asked \in 0 .. AskMax
    BY <2>1 DEF UdpClients
  <2>6. asking'[c].asked \in Nat
    BY <2>5, AsioConstants
  <2> QED
    BY <2>1, <2>2, <2>3, <2>4, <2>6
<1>4. udp'.op # "off"
  BY DEF Serves
<1> QED
  BY <1>1, <1>2, <1>3, <1>4, TcpUntouched DEF AsioIInv, AsioInv

LEMMA ReceiveServes ==
  ASSUME NEW u, NEW a, Serves(u, a), u.op = "receive", u.queue # <<>>
  PROVE  Serves(HandleReceive(u), a)
<1> DEFINE v == HandleReceive(u)
<1>1. /\ u \in UdpServers /\ u.queue \in Seq(Peers) /\ a \in [Peers -> UdpClients]
      /\ \A c \in Peers : u.arrived[c] \in Nat /\ u.answered[c] \in Nat
  BY DEF Serves, UdpServers
<1>2. Head(u.queue) \in Peers /\ Tail(u.queue) \in Seq(Peers)
  BY <1>1, HeadTailProperties
<1>3. /\ v.op = "send" /\ v.remote = Head(u.queue) /\ v.queue = Tail(u.queue)
      /\ v.arrived = u.arrived /\ v.answered = u.answered
  BY <1>1 DEF HandleReceive, UdpServers
<1>4. v \in UdpServers
  BY <1>1, <1>2 DEF HandleReceive, UdpServers
<1> HIDE DEF v
<1>5. ASSUME NEW c \in Peers
      PROVE  v.arrived[c] = WaitsIn(v.queue, c)
                + (IF v.op = "send" /\ v.remote = c THEN 1 ELSE 0) + v.answered[c]
  <2>1. WaitsIn(u.queue, c) = WaitsIn(Tail(u.queue), c) + (IF Head(u.queue) = c THEN 1 ELSE 0)
    BY <1>1, WaitsInTail
  <2>2. WaitsIn(Tail(u.queue), c) \in Nat
    BY <1>2, PlacesFinite
  <2>3. u.arrived[c] = WaitsIn(u.queue, c) + 0 + u.answered[c]
    BY DEF Serves
  <2>4. u.arrived[c] = WaitsIn(Tail(u.queue), c) + (IF Head(u.queue) = c THEN 1 ELSE 0)
                         + u.answered[c]
    BY <1>1, <2>1, <2>2, <2>3
  <2> QED
    BY <1>3, <2>4
<1>6. Serves(v, a)
  BY <1>1, <1>2, <1>3, <1>4, <1>5 DEF Serves
<1> QED
  BY <1>6 DEF v

\* The request that was answered is counted; the server goes on in another operation.
LEMMA SendServes ==
  ASSUME NEW u, NEW a, Serves(u, a), u.op = "send", NEW o \in {"receive", "ended"}
  PROVE  LET v == [u EXCEPT !.answered[u.remote] = @ + 1, !.op = o]
         IN  /\ Serves(v, a)
             /\ Serves(v, [a EXCEPT ![u.remote].replies = @ + 1])
<1> DEFINE v == [u EXCEPT !.answered[u.remote] = @ + 1, !.op = o]
           b == [a EXCEPT ![u.remote].replies = @ + 1]
<1>1. /\ u \in UdpServers /\ u.queue \in Seq(Peers) /\ a \in [Peers -> UdpClients]
      /\ u.answered \in [Peers -> Nat] /\ u.remote \in Peers
      /\ \A c \in Peers : u.arrived[c] \in Nat /\ u.answered[c] \in Nat
  BY DEF Serves, UdpServers
<1>2. PICK r \in Peers : r = u.remote
  BY <1>1
<1>3. /\ v.op = o /\ v.remote = u.remote /\ v.queue = u.queue /\ v.arrived = u.arrived
      /\ v.answered = [u.answered EXCEPT ![r] = @ + 1]
  BY <1>1, <1>2 DEF UdpServers
<1>4. v.answered \in [Peers -> Nat]
  BY <1>1, <1>3
<1>5. v \in UdpServers
  <2> DEFINE w == [u.answered EXCEPT ![r] = @ + 1]
  <2>1. w \in [Peers -> Nat]
    BY <1>1
  <2>2. v = [u EXCEPT !.answered = w, !.op = o]
    BY <1>1, <1>2 DEF UdpServers
  <2> HIDE DEF w, v
  <2>3. [u EXCEPT !.answered = w, !.op = o] \in UdpServers
    BY <1>1, <2>1 DEF UdpServers
  <2> QED
    BY <2>2, <2>3
<1>6. /\ v.answered[r] = u.answered[r] + 1
      /\ \A c \in Peers : c # r => v.answered[c] = u.answered[c]
  BY <1>1, <1>3
<1>7. /\ b \in [Peers -> UdpClients] /\ \A c \in Peers : c # r => b[c] = a[c]
      /\ b[r].replies = a[r].replies + 1 /\ b[r].times = a[r].times /\ b[r].asked = a[r].asked
  <2> DEFINE f == [a[r] EXCEPT !.replies = @ + 1]
  <2>1. a[r] \in UdpClients
    BY <1>1
  <2>2. /\ f \in UdpClients /\ f.replies = a[r].replies + 1
        /\ f.times = a[r].times /\ f.asked = a[r].asked
    BY <2>1 DEF UdpClients
  <2>3. b = [a EXCEPT ![r] = f]
    BY <1>2
  <2> HIDE DEF f, b
  <2> QED
    BY <1>1, <2>2, <2>3
<1>8. \A c \in Peers : a[c].replies \in Nat /\ a[c].times \in Nat /\ WaitsIn(u.queue, c) \in Nat
  BY <1>1, PlacesFinite DEF UdpClients
<1>9. \A c \in Peers :
         /\ u.arrived[c] <= a[c].asked
         /\ u.arrived[c] = WaitsIn(u.queue, c) + (IF r = c THEN 1 ELSE 0) + u.answered[c]
         /\ a[c].replies + a[c].times <= u.answered[c]
  BY <1>2 DEF Serves
<1> HIDE DEF v, b
<1>10. \A c \in Peers : v.arrived[c] = WaitsIn(v.queue, c)
                + (IF v.op = "send" /\ v.remote = c THEN 1 ELSE 0) + v.answered[c]
  <2> SUFFICES ASSUME NEW c \in Peers
               PROVE  v.arrived[c] = WaitsIn(v.queue, c) + 0 + v.answered[c]
    BY <1>3
  <2>1. /\ v.arrived[c] = u.arrived[c] /\ WaitsIn(v.queue, c) = WaitsIn(u.queue, c)
        /\ u.arrived[c] \in Nat /\ WaitsIn(u.queue, c) \in Nat /\ u.answered[c] \in Nat
        /\ u.arrived[c] = WaitsIn(u.queue, c) + (IF r = c THEN 1 ELSE 0) + u.answered[c]
    BY <1>1, <1>3, <1>8, <1>9
  <2>2. CASE c = r
    <3>1. v.answered[c] = u.answered[c] + 1
      BY <1>6, <2>2
    <3> QED
      BY <2>1, <2>2, <3>1
  <2>3. CASE c # r
    <3>1. v.answered[c] = u.answered[c]
      BY <1>6, <2>3
    <3> QED
      BY <2>1, <2>3, <3>1
  <2> QED
    BY <2>2, <2>3
<1>11. \A c \in Peers : a[c].replies + a[c].times <= v.answered[c]
  <2> SUFFICES ASSUME NEW c \in Peers PROVE a[c].replies + a[c].times <= v.answered[c]
    OBVIOUS
  <2>1. /\ a[c].replies + a[c].times <= u.answered[c] /\ u.answered[c] \in Nat
        /\ a[c].replies \in Nat /\ a[c].times \in Nat
    BY <1>1, <1>8, <1>9
  <2>2. v.answered[c] = u.answered[c] + 1 \/ v.answered[c] = u.answered[c]
    BY <1>6
  <2> QED
    BY <2>1, <2>2
<1>12. \A c \in Peers : b[c].replies + b[c].times <= v.answered[c]
  <2> SUFFICES ASSUME NEW c \in Peers PROVE b[c].replies + b[c].times <= v.answered[c]
    OBVIOUS
  <2>1. /\ a[c].replies + a[c].times <= u.answered[c] /\ u.answered[c] \in Nat
        /\ a[c].replies \in Nat /\ a[c].times \in Nat
    BY <1>1, <1>8, <1>9
  <2>2. CASE c = r
    <3>1. /\ v.answered[c] = u.answered[c] + 1
          /\ b[c].replies = a[c].replies + 1 /\ b[c].times = a[c].times
      BY <1>6, <1>7, <2>2
    <3> QED
      BY <2>1, <3>1
  <2>3. CASE c # r
    <3>1. v.answered[c] = u.answered[c] /\ b[c] = a[c]
      BY <1>6, <1>7, <2>3
    <3> QED
      BY <2>1, <3>1
  <2> QED
    BY <2>2, <2>3
<1>13. Serves(v, a)
  BY <1>1, <1>3, <1>5, <1>9, <1>10, <1>11 DEF Serves
<1>14. \A c \in Peers : v.arrived[c] <= b[c].asked
  BY <1>3, <1>7, <1>9
<1>15. Serves(v, b)
  BY <1>3, <1>5, <1>7, <1>10, <1>12, <1>14 DEF Serves
<1> QED
  BY <1>13, <1>15 DEF v, b

\* A client asks; its datagram arrives or is lost.
LEMMA AskServes ==
  ASSUME NEW u, NEW a, Serves(u, a), NEW c \in Peers, a[c].op = "idle", a[c].asked < AskMax
  PROVE  LET b == [a EXCEPT ![c].op = "waiting", ![c].asked = @ + 1]
             v == [u EXCEPT !.queue = Append(@, c), !.arrived[c] = @ + 1]
         IN  Serves(u, b) /\ Serves(v, b)
<1> DEFINE b == [a EXCEPT ![c].op = "waiting", ![c].asked = @ + 1]
           v == [u EXCEPT !.queue = Append(@, c), !.arrived[c] = @ + 1]
<1>1. /\ u \in UdpServers /\ u.queue \in Seq(Peers) /\ a \in [Peers -> UdpClients]
      /\ u.arrived \in [Peers -> Nat]
      /\ \A d \in Peers : u.arrived[d] \in Nat /\ u.answered[d] \in Nat
  BY DEF Serves, UdpServers
<1>2. \A d \in Peers : /\ a[d].replies \in Nat /\ a[d].times \in Nat
                       /\ a[d].asked \in 0 .. AskMax /\ a[d].asked \in Nat
  <2>1. \A d \in Peers : a[d].replies \in Nat /\ a[d].times \in Nat /\ a[d].asked \in 0 .. AskMax
    BY <1>1 DEF UdpClients
  <2> QED
    BY <2>1, AsioConstants
<1>3. a[c].asked + 1 \in 0 .. AskMax
  BY <1>2, AsioConstants
<1>4. /\ b \in [Peers -> UdpClients] /\ \A d \in Peers : d # c => b[d] = a[d]
      /\ b[c].replies = a[c].replies /\ b[c].times = a[c].times /\ b[c].asked = a[c].asked + 1
  BY <1>1, <1>3 DEF UdpClients
<1>5. /\ v.op = u.op /\ v.remote = u.remote /\ v.queue = Append(u.queue, c)
      /\ v.arrived = [u.arrived EXCEPT ![c] = @ + 1] /\ v.answered = u.answered
  BY <1>1 DEF UdpServers
<1>6. v.arrived \in [Peers -> Nat] /\ v.queue \in Seq(Peers)
  BY <1>1, <1>5, AppendProperties
<1>7. v \in UdpServers
  BY <1>1, <1>5, <1>6 DEF UdpServers
<1>8. \A d \in Peers : WaitsIn(v.queue, d) = WaitsIn(u.queue, d) + (IF c = d THEN 1 ELSE 0)
                       /\ WaitsIn(u.queue, d) \in Nat
  <2> SUFFICES ASSUME NEW d \in Peers
               PROVE  WaitsIn(v.queue, d) = WaitsIn(u.queue, d) + (IF c = d THEN 1 ELSE 0)
                      /\ WaitsIn(u.queue, d) \in Nat
    OBVIOUS
  <2>1. v.queue = Append(u.queue, c) /\ u.queue \in Seq(Peers)
    BY <1>1, <1>5
  <2> HIDE DEF v, b
  <2> QED
    <3>1. PICK q \in Seq(Peers) : q = u.queue
      BY <2>1
    <3>2. WaitsIn(q, d) \in Nat
      BY <3>1, PlacesFinite
    <3>3. WaitsIn(Append(q, c), d) = WaitsIn(q, d) + (IF c = d THEN 1 ELSE 0)
      BY <3>1, WaitsInAppend
    <3> QED
      BY <2>1, <3>1, <3>2, <3>3
<1>9. \A d \in Peers : v.arrived[d] = u.arrived[d] + (IF c = d THEN 1 ELSE 0)
  BY <1>1, <1>5
<1>10. \A d \in Peers : /\ b[d].replies = a[d].replies /\ b[d].times = a[d].times
                        /\ b[d].asked = a[d].asked + (IF c = d THEN 1 ELSE 0)
  BY <1>2, <1>4
<1>11. \A d \in Peers :
         /\ u.arrived[d] <= a[d].asked
         /\ u.arrived[d] = WaitsIn(u.queue, d)
                + (IF u.op = "send" /\ u.remote = d THEN 1 ELSE 0) + u.answered[d]
         /\ a[d].replies + a[d].times <= u.answered[d]
  BY DEF Serves
<1> HIDE DEF v, b
<1>12. \A d \in Peers : u.arrived[d] <= b[d].asked /\ v.arrived[d] <= b[d].asked
  BY <1>1, <1>2, <1>9, <1>10, <1>11
<1>13. \A d \in Peers : v.arrived[d] = WaitsIn(v.queue, d)
                + (IF v.op = "send" /\ v.remote = d THEN 1 ELSE 0) + v.answered[d]
  <2> SUFFICES ASSUME NEW d \in Peers
               PROVE  v.arrived[d] = WaitsIn(v.queue, d)
                        + (IF v.op = "send" /\ v.remote = d THEN 1 ELSE 0) + v.answered[d]
    OBVIOUS
  <2> DEFINE n == IF u.op = "send" /\ u.remote = d THEN 1 ELSE 0
             k == IF c = d THEN 1 ELSE 0
  <2>1. /\ u.arrived[d] = WaitsIn(u.queue, d) + n + u.answered[d]
        /\ v.arrived[d] = u.arrived[d] + k /\ WaitsIn(v.queue, d) = WaitsIn(u.queue, d) + k
        /\ v.answered[d] = u.answered[d]
        /\ (IF v.op = "send" /\ v.remote = d THEN 1 ELSE 0) = n
    BY <1>5, <1>8, <1>9, <1>11
  <2>2. /\ n \in Nat /\ k \in Nat /\ WaitsIn(u.queue, d) \in Nat
        /\ u.answered[d] \in Nat /\ u.arrived[d] \in Nat
    BY <1>1, <1>8
  <2> HIDE DEF n, k
  <2> QED
    BY <2>1, <2>2
<1>14. \A d \in Peers : b[d].replies + b[d].times <= v.answered[d]
  BY <1>5, <1>10, <1>11
<1>15. u.op # "off" /\ (u.op = "send" => u.remote \in Peers)
  BY DEF Serves
<1>16. Serves(u, b)
  BY <1>1, <1>4, <1>5, <1>11, <1>12, <1>14, <1>15 DEF Serves
<1>17. Serves(v, b)
  BY <1>4, <1>5, <1>7, <1>12, <1>13, <1>14, <1>15 DEF Serves
<1> QED
  BY <1>16, <1>17 DEF v, b
\* A client that fails to ask, or has its answer.
LEMMA ClientServes ==
  ASSUME NEW u, NEW a, Serves(u, a), NEW c \in Peers, NEW f \in UdpClients,
         f.asked = a[c].asked, f.replies + f.times = a[c].replies + a[c].times
  PROVE  Serves(u, [a EXCEPT ![c] = f])
<1> DEFINE b == [a EXCEPT ![c] = f]
<1>1. a \in [Peers -> UdpClients]
  BY DEF Serves
<1>2. b \in [Peers -> UdpClients] /\ b[c] = f /\ \A d \in Peers : d # c => b[d] = a[d]
  BY <1>1
<1> HIDE DEF b
<1>3. \A d \in Peers : b[d].asked = a[d].asked
                       /\ b[d].replies + b[d].times = a[d].replies + a[d].times
  BY <1>2
<1>4. Serves(u, b)
  BY <1>2, <1>3 DEF Serves
<1> QED
  BY <1>4 DEF b

LEMMA EndServes ==
  ASSUME NEW u, NEW a, Serves(u, a), u.op = "receive"
  PROVE  Serves([u EXCEPT !.op = "ended"], a)
<1> DEFINE v == [u EXCEPT !.op = "ended"]
<1>1. u \in UdpServers
  BY DEF Serves
<1>2. /\ v.op = "ended" /\ v.remote = u.remote /\ v.queue = u.queue
      /\ v.arrived = u.arrived /\ v.answered = u.answered /\ v \in UdpServers
  BY <1>1 DEF UdpServers
<1> HIDE DEF v
<1>3. Serves(v, a)
  BY <1>2 DEF Serves
<1> QED
  BY <1>3 DEF v

LEMMA UdpStepHolds ==
  ASSUME AsioIInv, udp.op # "off", UdpStep
  PROVE  AsioIInv'
<1>1. Serves(udp, asking) /\ UNCHANGED <<tcpKind, acceptQueue, session, stream>>
  BY ServesHere DEF UdpStep
<1>2. ASSUME Serves(udp', asking') PROVE AsioIInv'
  BY <1>1, <1>2, ServesNext
<1>3. udp \in UdpServers /\ asking \in [Peers -> UdpClients]
  BY <1>1 DEF Serves
<1>4. CASE UdpReceive
  <2>1. Serves(HandleReceive(udp), asking)
    BY <1>1, <1>4, ReceiveServes DEF UdpReceive
  <2> QED
    BY <1>2, <1>4, <2>1 DEF UdpReceive
<1>5. CASE UdpReceiveError
  <2>1. Serves([udp EXCEPT !.op = "ended"], asking)
    BY <1>1, <1>5, EndServes DEF UdpReceiveError
  <2> QED
    BY <1>2, <1>5, <2>1 DEF UdpReceiveError
<1>6. ASSUME udp.op = "send", NEW o \in {"receive", "ended"},
             udp' = [udp EXCEPT !.answered[udp.remote] = @ + 1, !.op = o],
             asking' \in {asking, [asking EXCEPT ![udp.remote].replies = @ + 1]}
      PROVE  AsioIInv'
  <2>1. /\ Serves(udp', asking)
        /\ Serves(udp', [asking EXCEPT ![udp.remote].replies = @ + 1])
    BY <1>1, <1>6, SendServes, Zenon
  <2>2. Serves(udp', asking')
    <3>1. CASE asking' = asking
      BY ONLY <2>1, <3>1
    <3>2. CASE asking' = [asking EXCEPT ![udp.remote].replies = @ + 1]
      BY ONLY <2>1, <3>2
    <3> QED
      BY ONLY <1>6, <3>1, <3>2
  <2> QED
    BY ONLY <1>2, <2>2, Zenon
<1>7. /\ StartReceive(HandleSend(udp)) =
            [udp EXCEPT !.answered[udp.remote] = @ + 1, !.op = "receive"]
      /\ [HandleSend(udp) EXCEPT !.op = "ended"] =
            [udp EXCEPT !.answered[udp.remote] = @ + 1, !.op = "ended"]
  BY <1>3 DEF StartReceive, HandleSend, UdpServers
<1>8. ASSUME NEW arrives \in BOOLEAN, UdpSendTo(arrives) PROVE AsioIInv'
  <2>1. /\ udp.op = "send" /\ udp' = StartReceive(HandleSend(udp))
        /\ asking' \in {asking, [asking EXCEPT ![udp.remote].replies = @ + 1]}
    BY <1>8 DEF UdpSendTo
  <2> QED
    BY <1>6, <1>7, <2>1
<1>9. CASE UdpSendError
  <2>1. /\ udp.op = "send" /\ asking' = asking
        /\ \/ udp' = StartReceive(HandleSend(udp))
           \/ udp' = [HandleSend(udp) EXCEPT !.op = "ended"]
    BY <1>9 DEF UdpSendError
  <2> QED
    BY <1>6, <1>7, <2>1
<1>10. ASSUME NEW c \in Peers, AskError(c) PROVE AsioIInv'
  <2> DEFINE o == IF asking[c].kind = "sync client" THEN "ended" ELSE "waiting"
             f == [asking[c] EXCEPT !.op = o]
  <2>1. asking[c] \in UdpClients
    BY <1>3
  <2>2. /\ f \in UdpClients /\ f.asked = asking[c].asked
        /\ f.replies = asking[c].replies /\ f.times = asking[c].times
    BY <2>1 DEF UdpClients
  <2>3. udp' = udp /\ asking' = [asking EXCEPT ![c] = f]
    BY <1>10 DEF AskError
  <2> HIDE DEF f
  <2>4. Serves(udp, [asking EXCEPT ![c] = f])
    BY <1>1, <2>2, ClientServes
  <2> QED
    BY <1>2, <2>3, <2>4
<1>11. ASSUME NEW c \in Peers, GotTime(c) PROVE AsioIInv'
  <2> DEFINE f == [asking[c] EXCEPT !.op = "idle", !.replies = @ - 1, !.times = @ + 1]
  <2>1. asking[c] \in UdpClients /\ asking[c].replies > 0
    BY <1>3, <1>11 DEF GotTime
  <2>2. asking[c].replies \in Nat /\ asking[c].times \in Nat
    BY <2>1 DEF UdpClients
  <2>3. asking[c].replies - 1 \in Nat
    BY <2>1, <2>2
  <2>4. /\ f \in UdpClients /\ f.asked = asking[c].asked
        /\ f.replies = asking[c].replies - 1 /\ f.times = asking[c].times + 1
    <3>1. PICK n \in Nat : n = asking[c].replies - 1
      BY <2>3
    <3>2. asking[c].times + 1 \in Nat
      BY <2>2
    <3>3. PICK m \in Nat : m = asking[c].times + 1
      BY <3>2
    <3>4. f = [asking[c] EXCEPT !.op = "idle", !.replies = n, !.times = m]
      BY <2>1, <3>1, <3>3 DEF UdpClients
    <3> HIDE DEF f
    <3> QED
      BY <2>1, <3>1, <3>3, <3>4 DEF UdpClients
  <2>5. udp' = udp /\ asking' = [asking EXCEPT ![c] = f]
    BY <1>11 DEF GotTime
  <2> HIDE DEF f
  <2>6. f.replies + f.times = asking[c].replies + asking[c].times
    BY <2>2, <2>4
  <2>7. Serves(udp, [asking EXCEPT ![c] = f])
    BY <1>1, <2>4, <2>6, ClientServes
  <2> QED
    BY <1>2, <2>5, <2>7
<1>12. ASSUME NEW c \in Peers, NEW arrives \in BOOLEAN, AskDatagram(c, arrives) PROVE AsioIInv'
  <2> DEFINE b == [asking EXCEPT ![c].op = "waiting", ![c].asked = @ + 1]
             v == [udp EXCEPT !.queue = Append(@, c), !.arrived[c] = @ + 1]
  <2>1. /\ asking[c].op = "idle" /\ asking[c].asked < AskMax /\ asking' = b
        /\ udp' \in {udp, v}
    BY <1>12 DEF AskDatagram
  <2>2. Serves(udp, b) /\ Serves(v, b)
    BY <1>1, <2>1, AskServes
  <2> HIDE DEF b, v
  <2> QED
    BY <1>2, <2>1, <2>2
<1> QED
  BY <1>4, <1>5, <1>8, <1>9, <1>10, <1>11, <1>12 DEF UdpStep
-----------------------------------------------------------------------------
(* The beginning, and what follows.                                        *)

LEMMA AsioInitInv == AsioInit => AsioIInv
<1> SUFFICES ASSUME AsioInit PROVE AsioIInv
  OBVIOUS
<1>1. /\ session = [c \in Peers |-> [op |-> "none", data |-> <<>>]]
      /\ stream = [c \in Peers |-> [phase |-> "new", shut |-> FALSE, sent |-> <<>>,
                       toServer |-> <<>>, toClient |-> <<>>, received |-> <<>>]]
      /\ tcpKind = "none" /\ acceptQueue = <<>>
  BY DEF AsioInit
<1>2. udp = [kind |-> "none", op |-> "off", remote |-> "nobody", queue |-> <<>>,
             arrived |-> [c \in Peers |-> 0], answered |-> [c \in Peers |-> 0]]
  BY DEF AsioInit
<1>3. asking = [c \in Peers |-> [kind |-> "sync client", op |-> "idle", asked |-> 0,
                                 replies |-> 0, times |-> 0]]
  BY DEF AsioInit, NewClient
<1>4. <<>> \in Seq(Bytes) /\ <<>> \in Seq(Peers) /\ Len(<<>>) = 0
  OBVIOUS
<1>5. 0 \in 0 .. AskMax
  BY AsioConstants
<1>6. AsioTypeOK
  <2>1. session \in [Peers -> Sessions]
    BY <1>1, <1>4 DEF Sessions
  <2>2. stream \in [Peers -> ByteStreams]
    BY <1>1, <1>4 DEF ByteStreams
  <2>3. udp \in UdpServers
    BY <1>2, <1>4 DEF UdpServers
  <2>4. asking \in [Peers -> UdpClients]
    BY <1>3, <1>5 DEF UdpClients, ClientKinds
  <2> QED
    BY <1>1, <1>4, <2>1, <2>2, <2>3, <2>4 DEF AsioTypeOK
<1>7. ConnectionsFit
  BY <1>1, <1>4, AsioConstants DEF ConnectionsFit, FitsItsServer, SessionFits, TcpKinds
<1>8. AcceptedOnce /\ ServesOneAtATime /\ OneProgram
  BY <1>1, <1>2, <1>4 DEF AcceptedOnce, ServesOneAtATime, OneProgram
<1>9. Answering /\ AnswersWhoAsked
  <2>1. Answering
    <3>1. udp.op = "off"
      BY <1>2
    <3>2. \A c \in Peers : udp.arrived[c] = 0 /\ asking[c].asked = 0
      BY <1>2, <1>3
    <3> QED
      BY <3>1, <3>2 DEF Answering
  <2>2. ASSUME NEW c \in Peers
        PROVE  /\ udp.arrived[c] = 0 /\ WaitsIn(udp.queue, c) = 0 /\ NowServed(c) = 0
               /\ udp.answered[c] = 0 /\ asking[c].replies = 0 /\ asking[c].times = 0
               /\ asking[c].asked = 0
    <3>1. udp.queue = <<>>
      BY <1>2
    <3>2. WaitsIn(udp.queue, c) = 0
      BY <3>1, WaitsInNobody
    <3> QED
      BY <1>2, <1>3, <3>2 DEF NowServed
  <2> QED
    BY <2>1, <2>2 DEF AnswersWhoAsked
<1> QED
  BY <1>6, <1>7, <1>8, <1>9 DEF AsioIInv, AsioInv

LEMMA StartTcpHolds ==
  ASSUME AsioIInv, StartTcp
  PROVE  AsioIInv'
<1>1. /\ tcpKind = "none" /\ udp.op = "off" /\ tcpKind' \in TcpKinds
      /\ UNCHANGED <<acceptQueue, session, stream, udp, asking>>
  BY DEF StartTcp
<1>2. ASSUME NEW c \in Peers
      PROVE  /\ session[c].op = "none" /\ stream[c].phase = "new"
             /\ SessionFits(session[c], stream[c])
  BY <1>1, Connections DEF AsioIInv, AsioInv, OneProgram, FitsItsServer, SessionFits
<1>3. AsioTypeOK'
  BY <1>1 DEF AsioIInv, AsioTypeOK
<1>4. ConnectionsFit'
  BY <1>1, <1>2 DEF ConnectionsFit, FitsItsServer, Echoes, TellsTheTime
<1>5. AcceptedOnce'
  BY <1>1 DEF AsioIInv, AsioInv, AcceptedOnce
<1>6. ServesOneAtATime'
  BY <1>1, <1>2 DEF ServesOneAtATime
<1>7. OneProgram'
  BY <1>1 DEF AsioIInv, AsioInv, OneProgram, TcpKinds
<1> QED
  BY <1>1, <1>3, <1>4, <1>5, <1>6, <1>7, UdpUntouched DEF AsioIInv, AsioInv

LEMMA StartUdpHolds ==
  ASSUME AsioIInv, StartUdp
  PROVE  AsioIInv'
<1>1. tcpKind = "none" /\ udp.op = "off" /\ UNCHANGED <<tcpKind, acceptQueue, session, stream>>
  BY DEF StartUdp
<1>2. PICK k \in UdpKinds : udp' = StartReceive([udp EXCEPT !.kind = k])
  BY DEF StartUdp
<1>3. PICK kinds \in [Peers -> ClientKinds] : asking' = [c \in Peers |-> NewClient(kinds[c])]
  BY DEF StartUdp
<1>4. udp \in UdpServers
  BY ServerParts
<1>5. /\ udp' \in UdpServers /\ udp'.op = "receive" /\ udp'.queue = udp.queue
      /\ udp'.arrived = udp.arrived /\ udp'.answered = udp.answered
  BY <1>2, <1>4 DEF StartReceive, UdpServers
<1>6. /\ asking' \in [Peers -> UdpClients]
      /\ \A c \in Peers : /\ asking'[c].asked = 0 /\ asking'[c].replies = 0
                          /\ asking'[c].times = 0
  <2>1. 0 \in 0 .. AskMax
    BY AsioConstants
  <2>2. \A c \in Peers : NewClient(kinds[c]) \in UdpClients
    BY <2>1 DEF NewClient, UdpClients
  <2> QED
    BY <1>3, <2>2 DEF NewClient
<1>7. \A c \in Peers : udp.arrived[c] = 0 /\ WaitsIn(udp.queue, c) = 0 /\ udp.answered[c] = 0
  <2> SUFFICES ASSUME NEW c \in Peers
               PROVE  udp.arrived[c] = 0 /\ WaitsIn(udp.queue, c) = 0 /\ udp.answered[c] = 0
    OBVIOUS
  <2>1. udp.arrived[c] = 0
    BY <1>1 DEF AsioIInv, AsioInv, OneProgram
  <2>2. udp.arrived[c] = WaitsIn(udp.queue, c) + 0 + udp.answered[c]
    BY <1>1 DEF AsioIInv, AsioInv, AnswersWhoAsked, NowServed
  <2>3. WaitsIn(udp.queue, c) \in Nat /\ udp.answered[c] \in Nat
    BY ServerParts
  <2> QED
    BY <2>1, <2>2, <2>3
<1>8. Serves(udp', asking')
  BY <1>5, <1>6, <1>7 DEF Serves
<1> QED
  BY <1>1, <1>8, ServesNext

LEMMA AsioNextInv == AsioIInv /\ [AsioNext]_asioVars => AsioIInv'
<1> SUFFICES ASSUME AsioIInv, [AsioNext]_asioVars PROVE AsioIInv'
  OBVIOUS
<1>1. CASE UNCHANGED asioVars
  <2>1. UNCHANGED <<tcpKind, acceptQueue, session, stream, udp, asking>>
    BY <1>1 DEF asioVars
  <2>2. AsioTypeOK'
    BY <2>1 DEF AsioIInv, AsioTypeOK
  <2>3. ConnectionsFit' /\ AcceptedOnce' /\ ServesOneAtATime' /\ OneProgram'
    BY <2>1 DEF AsioIInv, AsioInv, ConnectionsFit, FitsItsServer, AcceptedOnce, ServesOneAtATime, OneProgram
  <2> QED
    BY <2>1, <2>2, <2>3, UdpUntouched DEF AsioIInv, AsioInv
<1>2. CASE StartTcp
  BY <1>2, StartTcpHolds
<1>3. CASE StartUdp
  BY <1>3, StartUdpHolds
<1>4. CASE tcpKind # "none" /\ TcpStep
  BY <1>4, TcpStepHolds
<1>5. CASE udp.op # "off" /\ UdpStep
  BY <1>5, UdpStepHolds
<1> QED
  BY <1>1, <1>2, <1>3, <1>4, <1>5 DEF AsioNext

THEOREM AsioInvariant == AsioSpec => []AsioIInv
<1> QED
  BY AsioInitInv, AsioNextInv, PTL DEF AsioSpec

(* The echo server (async_tcp_echo_server.cpp) returns every byte, in      *)
(* order, through its one buffer, partial reads and writes.                *)
THEOREM EchoIsComplete == AsioSpec => []EchoesEverything
<1>1. AsioIInv => EchoesEverything
  <2> SUFFICES ASSUME AsioIInv, tcpKind = "echo", NEW c \in Peers,
                      stream[c].phase \in {"open", "eof"}
               PROVE  /\ stream[c].received \o stream[c].toClient \o session[c].data
                            \o stream[c].toServer = stream[c].sent
                      /\ stream[c].phase = "eof" => stream[c].received = stream[c].sent
    BY DEF EchoesEverything
  <2>1. /\ SessionFits(session[c], stream[c]) /\ Echoes(session[c], stream[c])
        /\ stream[c] \in ByteStreams
    BY Connections DEF FitsItsServer
  <2>2. stream[c].received \o stream[c].toClient \o session[c].data \o stream[c].toServer
           = stream[c].sent
    BY <2>1 DEF Echoes
  <2>3. ASSUME stream[c].phase = "eof" PROVE stream[c].received = stream[c].sent
    <3>1. /\ stream[c].toClient = <<>> /\ session[c].data = <<>> /\ stream[c].toServer = <<>>
      BY <2>1, <2>3 DEF SessionFits, Echoes
    <3>2. PICK r \in Seq(Bytes) : r = stream[c].received
      BY <2>1, RecordParts
    <3>3. r \o <<>> = r
      BY ConcatEmptySeq
    <3>4. r \o <<>> \o <<>> \o <<>> = r
      BY <3>3
    <3> QED
      BY <2>2, <3>1, <3>2, <3>4
  <2> QED
    BY <2>2, <2>3
<1> QED
  BY <1>1, AsioInvariant, PTL

(* Every daytime server sends its client the whole message once, and the   *)
(* synchronous one serves one client at a time.                            *)
THEOREM TimeIsSentOnce == AsioSpec => []SendsTheTimeOnce
<1>1. AsioIInv => SendsTheTimeOnce
  <2> SUFFICES ASSUME AsioIInv, tcpKind \in TcpKinds \ {"echo"} PROVE SendsTheTimeOnce
    BY DEF SendsTheTimeOnce
  <2>1. ASSUME NEW c \in Peers
        PROVE  /\ stream[c].phase = "open" /\ session[c].op # "none" =>
                     stream[c].received \o stream[c].toClient \o session[c].data = Daytime
               /\ stream[c].phase = "eof" => stream[c].received = Daytime
    <3>1. /\ SessionFits(session[c], stream[c]) /\ TellsTheTime(session[c], stream[c])
          /\ stream[c] \in ByteStreams
      BY Connections DEF FitsItsServer
    <3>2. ASSUME stream[c].phase = "eof" PROVE stream[c].received = Daytime
      <4>1. /\ stream[c].toClient = <<>> /\ session[c].data = <<>>
            /\ stream[c].received \o stream[c].toClient \o session[c].data = Daytime
        BY <3>1, <3>2 DEF SessionFits, TellsTheTime
      <4>2. PICK r \in Seq(Bytes) : r = stream[c].received
        BY <3>1, RecordParts
      <4>3. r \o <<>> = r
        BY ConcatEmptySeq
      <4>4. r \o <<>> \o <<>> = r
        BY <4>3
      <4> QED
        BY <4>1, <4>2, <4>4
    <3> QED
      BY <3>1, <3>2 DEF TellsTheTime
  <2>2. ASSUME tcpKind = "sync daytime"
        PROVE  Cardinality({c \in Peers : session[c].op = "write"}) <= 1
    <3> DEFINE W == {c \in Peers : session[c].op = "write"}
    <3>1. \A c, d \in W : c = d
      BY <2>2 DEF AsioIInv, AsioInv, ServesOneAtATime
    <3>2. W = {} \/ \E c : W = {c}
      BY <3>1
    <3> HIDE DEF W
    <3>3. ASSUME W = {} PROVE Cardinality(W) <= 1
      <4>1. Cardinality({}) = 0
        BY FS_EmptySet
      <4> QED
        BY <3>3, <4>1
    <3>4. ASSUME NEW c, W = {c} PROVE Cardinality(W) <= 1
      <4>1. Cardinality({c}) = 1
        BY FS_Singleton
      <4> QED
        BY <3>4, <4>1
    <3> QED
      BY <3>2, <3>3, <3>4 DEF W
  <2> QED
    BY <2>1, <2>2 DEF SendsTheTimeOnce
<1> QED
  BY <1>1, AsioInvariant, PTL

(* Over UDP the one remote_endpoint_ is enough: the answers go to those    *)
(* who asked, one for each request that arrived.                           *)
THEOREM AnswersGoToWhoAsked == AsioSpec => []AnswersWhoAsked
<1>1. AsioIInv => AnswersWhoAsked
  BY DEF AsioIInv, AsioInv
<1> QED
  BY <1>1, AsioInvariant, PTL

(* What the run of the programs checks of the servers, for every number of *)
(* clients and all bounds.                                                 *)
THEOREM AsioServersCorrect == AsioSpec => []AsioServersOK
<1>1. EchoesEverything /\ SendsTheTimeOnce /\ AsioIInv => AsioServersOK
  BY DEF AsioIInv, AsioInv, AsioServersOK
<1> QED
  BY <1>1, EchoIsComplete, TimeIsSentOnce, AsioInvariant, PTL

-----------------------------------------------------------------------------
(* The timers, for any limits and receivers.                               *)

TimersIInv == TimersTypeOK /\ TimersInv

LEMMA LimitIsNat == TimersTypeOK => Limit \in Nat
BY TimersConstants DEF TimersTypeOK, Limit, Waits

\* A timer put behind the others is in the queue, one that is taken is not.
LEMMA QueuedBehind ==
  ASSUME NEW q \in Seq(Timers), NEW t \in Timers, NEW p, p = Append(q, t), Distinct(q), ~Queued(q, t)
  PROVE  /\ p \in Seq(Timers) /\ Distinct(p)
         /\ \A u \in Timers : Queued(p, u) <=> Queued(q, u) \/ u = t
<1>1. /\ Len(q) \in Nat /\ Len(p) = Len(q) + 1 /\ p \in Seq(Timers)
      /\ \A i \in 1 .. Len(q) : p[i] = q[i]
      /\ p[Len(q) + 1] = t
  OBVIOUS
<1>2. \A u \in Timers : Queued(p, u) <=> Queued(q, u) \/ u = t
  BY <1>1 DEF Queued
<1>3. \A i \in 1 .. Len(q) : q[i] # t
  BY DEF Queued
<1>4. Distinct(p)
  BY <1>1, <1>3 DEF Distinct
<1> QED
  BY <1>1, <1>2, <1>4

LEMMA QueuedTaken ==
  ASSUME NEW q \in Seq(Timers), q # <<>>, NEW p, p = Tail(q), Distinct(q)
  PROVE  /\ Head(q) \in Timers /\ Queued(q, Head(q)) /\ p \in Seq(Timers) /\ Distinct(p)
         /\ \A u \in Timers : Queued(p, u) <=> Queued(q, u) /\ u # Head(q)
<1>1. /\ Len(q) \in Nat \ {0} /\ Len(p) = Len(q) - 1 /\ p \in Seq(Timers)
      /\ \A i \in 1 .. Len(q) - 1 : p[i] = q[i + 1]
      /\ Head(q) = q[1] /\ q[1] \in Timers
  OBVIOUS
<1>2. Distinct(p)
  BY <1>1 DEF Distinct
<1>3. Queued(q, Head(q))
  BY <1>1 DEF Queued
<1>4. ASSUME NEW u \in Timers, Queued(p, u) PROVE Queued(q, u) /\ u # Head(q)
  BY <1>1, <1>4 DEF Queued, Distinct
<1>5. ASSUME NEW u \in Timers, Queued(q, u), u # Head(q) PROVE Queued(p, u)
  <2>1. PICK i \in 1 .. Len(q) : q[i] = u
    BY <1>5 DEF Queued
  <2>2. i - 1 \in 1 .. Len(p) /\ p[i - 1] = u
    BY <1>1, <1>5, <2>1
  <2> QED
    BY <2>2 DEF Queued
<1> QED
  BY <1>1, <1>2, <1>3, <1>4, <1>5

-----------------------------------------------------------------------------
(* The threads: what the step of one makes of who holds and runs a timer.  *)
LEMMA IdleHas ==
  /\ Idle \in Handlers /\ Idle.step = "idle" /\ Idle.handler = "none" /\ Idle.count = 0
  /\ \A t \in Timers : t # "none"
BY DEF Idle, Handlers, Timers

\* An idle thread that takes a timer nobody holds.
LEMMA OneTakes ==
  ASSUME TimersTypeOK, OneEach, NEW th \in Runners, running[th] = Idle,
         NEW t \in Timers, ~InHands(t), NEW w \in Handlers, w.handler = t, w.step # "idle",
         w.step = "print" => \A o \in Runners : running[o].step # "print",
         running' = [running EXCEPT ![th] = w]
  PROVE  /\ running' \in [Runners -> Handlers] /\ OneEach'
         /\ running'[th] = w /\ \A o \in Runners : o # th => running'[o] = running[o]
         /\ \A u \in Timers : InHands(u)' <=> InHands(u) \/ u = t
         /\ \A u \in Timers : Runs(u)' <=> Runs(u) \/ (u = t /\ w.step = "print")
<1>1. /\ running \in [Runners -> Handlers] /\ running' \in [Runners -> Handlers]
      /\ running'[th] = w /\ \A o \in Runners : o # th => running'[o] = running[o]
  BY DEF TimersTypeOK
<1>2. \A u \in Timers : InHands(u)' <=> InHands(u) \/ u = t
  <2>1. ASSUME NEW u \in Timers, InHands(u) PROVE InHands(u)'
    <3>1. PICK o \in Runners : running[o].handler = u
      BY <2>1 DEF InHands
    <3>2. o # th
      BY <3>1, IdleHas
    <3> QED
      BY <1>1, <3>1, <3>2 DEF InHands
  <2>2. ASSUME NEW u \in Timers, InHands(u)' PROVE InHands(u) \/ u = t
    BY <1>1, <2>2 DEF InHands
  <2>3. InHands(t)'
    BY <1>1 DEF InHands
  <2> QED
    BY <2>1, <2>2, <2>3
<1>3. \A u \in Timers : Runs(u)' <=> Runs(u) \/ (u = t /\ w.step = "print")
  <2>1. ASSUME NEW u \in Timers, Runs(u) PROVE Runs(u)'
    <3>1. PICK o \in Runners : running[o].handler = u /\ running[o].step = "print"
      BY <2>1 DEF Runs
    <3>2. o # th
      BY <3>1, IdleHas
    <3> QED
      BY <1>1, <3>1, <3>2 DEF Runs
  <2>2. ASSUME NEW u \in Timers, Runs(u)' PROVE Runs(u) \/ (u = t /\ w.step = "print")
    BY <1>1, <2>2 DEF Runs
  <2>3. w.step = "print" => Runs(t)'
    BY <1>1 DEF Runs
  <2> QED
    BY <2>1, <2>2, <2>3
<1>4. OneEach'
  <2>1. \A o \in Runners : /\ running[o].handler # t
                           /\ w.step = "print" => running[o].step # "print"
    BY DEF InHands
  <2>2. \A o \in Runners : /\ running'[o].handler = "none" => running'[o] = Idle
                           /\ running'[o].step = "idle" => running'[o] = Idle
    BY <1>1, IdleHas DEF OneEach
  <2>3. ASSUME NEW o \in Runners, NEW other \in Runners, o # other
        PROVE  /\ running'[o].handler = running'[other].handler => running'[o] = Idle
               /\ running'[o].step = "print" => running'[other].step # "print"
    <3>1. CASE o = th
      BY <1>1, <2>1, <2>3, <3>1
    <3>2. CASE other = th
      BY <1>1, <2>1, <2>3, <3>2
    <3>3. CASE o # th /\ other # th
      BY <1>1, <2>3, <3>3 DEF OneEach
    <3> QED
      BY <3>1, <3>2, <3>3
  <2> QED
    BY <2>2, <2>3 DEF OneEach
<1> QED
  BY <1>1, <1>2, <1>3, <1>4

\* A thread that lets its timer go.
LEMMA OneLetsGo ==
  ASSUME TimersTypeOK, OneEach, NEW th \in Runners, NEW t \in Timers, running[th].handler = t,
         running' = [running EXCEPT ![th] = Idle]
  PROVE  /\ running' \in [Runners -> Handlers] /\ OneEach'
         /\ running'[th] = Idle /\ \A o \in Runners : o # th => running'[o] = running[o]
         /\ InHands(t) /\ (Runs(t) <=> running[th].step = "print")
         /\ \A u \in Timers : InHands(u)' <=> InHands(u) /\ u # t
         /\ \A u \in Timers : Runs(u)' <=> Runs(u) /\ u # t
<1>1. /\ running \in [Runners -> Handlers] /\ running' \in [Runners -> Handlers]
      /\ running'[th] = Idle /\ \A o \in Runners : o # th => running'[o] = running[o]
  BY IdleHas DEF TimersTypeOK
<1>2. \A o \in Runners : o # th => running[o].handler # t
  <2> SUFFICES ASSUME NEW o \in Runners, o # th, running[o].handler = t PROVE FALSE
    OBVIOUS
  <2>1. running[o] = Idle
    BY DEF OneEach
  <2> QED
    BY <2>1, IdleHas
<1>3. InHands(t) /\ (Runs(t) <=> running[th].step = "print")
  BY <1>2 DEF InHands, Runs
<1>4. \A u \in Timers : InHands(u)' <=> InHands(u) /\ u # t
  <2>1. ASSUME NEW u \in Timers, InHands(u), u # t PROVE InHands(u)'
    BY <1>1, <2>1 DEF InHands
  <2>2. ASSUME NEW u \in Timers, InHands(u)' PROVE InHands(u) /\ u # t
    BY <1>1, <1>2, <2>2, IdleHas DEF InHands
  <2> QED
    BY <2>1, <2>2
<1>5. \A u \in Timers : Runs(u)' <=> Runs(u) /\ u # t
  <2>1. ASSUME NEW u \in Timers, Runs(u), u # t PROVE Runs(u)'
    BY <1>1, <2>1 DEF Runs
  <2>2. ASSUME NEW u \in Timers, Runs(u)' PROVE Runs(u) /\ u # t
    BY <1>1, <1>2, <2>2, IdleHas DEF Runs
  <2> QED
    BY <2>1, <2>2
<1>6. OneEach'
  <2>1. \A o \in Runners : /\ running'[o].handler = "none" => running'[o] = Idle
                           /\ running'[o].step = "idle" => running'[o] = Idle
    BY <1>1 DEF OneEach
  <2>2. ASSUME NEW o \in Runners, NEW other \in Runners, o # other
        PROVE  /\ running'[o].handler = running'[other].handler => running'[o] = Idle
               /\ running'[o].step = "print" => running'[other].step # "print"
    <3>1. CASE o = th
      BY <1>1, <3>1, IdleHas
    <3>2. CASE other = th
      <4>1. running'[o] = running[o] /\ running'[other] = Idle
        BY <1>1, <2>2, <3>2
      <4> QED
        BY <4>1, IdleHas DEF OneEach
    <3>3. CASE o # th /\ other # th
      BY <1>1, <2>2, <3>3 DEF OneEach
    <3> QED
      BY <3>1, <3>2, <3>3
  <2> QED
    BY <2>1, <2>2 DEF OneEach
<1> QED
  BY <1>1, <1>3, <1>4, <1>5, <1>6

-----------------------------------------------------------------------------
(* What a step of the threads or the clock leaves alone.                   *)
TheRest == UNCHANGED <<kind, sender, sentOut, inflight, received>>

LEMMA RestStays ==
  ASSUME TimersIInv, TheRest
  PROVE  /\ Limit' = Limit /\ Used' = Used
         /\ OneMessageAtATime' /\ EachMessageOnce'
<1>1. Limit' = Limit /\ Used' = Used
  BY DEF TheRest, Limit, Used
<1>2. OneMessageAtATime' /\ EachMessageOnce'
  BY DEF TimersIInv, TimersInv, TheRest, OneMessageAtATime, EachMessageOnce
<1> QED
  BY <1>1, <1>2

\* A timer changes its place, and nothing is counted.
LEMMA Moved ==
  ASSUME TimersIInv, UNCHANGED <<kind, count_, fired>>,
         \A u \in Timers : /\ Alone(u)' /\ (Somewhere(u)' <=> Somewhere(u))
                           /\ Waited(u)' => Waited(u) /\ expiry'[u] = expiry[u]
                           /\ Runs(u)' <=> Runs(u),
         Distinct(ready'), Distinct(strand'),
         \A th \in Runners : running'[th].step = "print" => running'[th] = running[th]
  PROVE  OnePlace' /\ CountIsCurrent'
<1>1. Limit' = Limit /\ Used' = Used
  BY DEF Limit, Used
<1>2. \A u \in Timers : Finished(u)' <=> Finished(u)
  BY <1>1 DEF Finished
<1>3. /\ InCall("timer1_")' = InCall("timer1_") /\ InCall("timer2_")' = InCall("timer2_")
      /\ LastCall("timer1_")' = LastCall("timer1_")
      /\ LastCall("timer2_")' = LastCall("timer2_")
  BY <1>2 DEF InCall, LastCall, Timers
<1>4. OnePlace'
  <2>1. \A u \in Timers : /\ Somewhere(u) => u \in Used
                          /\ Waited(u) => expiry[u] = fired[u] + 1
                          /\ u \notin Used => fired[u] = 0
    BY DEF TimersIInv, TimersInv, OnePlace
  <2>2. \A u \in Timers : /\ Alone(u)'
                          /\ Somewhere(u)' => u \in Used'
                          /\ Waited(u)' => expiry'[u] = fired'[u] + 1
                          /\ u \notin Used' => fired'[u] = 0
    BY <1>1, <2>1
  <2>3. Distinct(ready)' /\ Distinct(strand)'
    BY DEF Distinct
  <2> QED
    BY <2>2, <2>3 DEF OnePlace
<1>5. CountIsCurrent'
  <2>1. \A th \in Runners : running'[th].step = "print" => running'[th].count = count_'
    BY DEF TimersIInv, TimersInv, CountIsCurrent
  <2>2. /\ count_' <= Limit' /\ \A u \in Timers : Finished(u)' => count_' = Limit'
    BY <1>1, <1>2 DEF TimersIInv, TimersInv, CountIsCurrent
  <2>3. fired'["timer1_"] + fired'["timer2_"]
        = count_' + InCall("timer1_")' + InCall("timer2_")'
          + LastCall("timer1_")' + LastCall("timer2_")'
    BY <1>3 DEF TimersIInv, TimersInv, CountIsCurrent
  <2> QED
    BY <2>1, <2>2, <2>3 DEF CountIsCurrent
<1> QED
  BY <1>4, <1>5

\* Where a timer is, when expiry, ready, strand and running stay.
LEMMA PlacesStay ==
  ASSUME TimersIInv, UNCHANGED <<kind, expiry, ready, strand, running, count_, fired>>
  PROVE  OnePlace' /\ OneEach' /\ CountIsCurrent'
<1>1. \A u \in Timers : /\ Alone(u)' <=> Alone(u)
                        /\ Somewhere(u)' <=> Somewhere(u)
                        /\ Waited(u)' <=> Waited(u)
                        /\ Runs(u)' <=> Runs(u)
  BY DEF Alone, Somewhere, Waited, InHands, Runs
<1>2. \A u \in Timers : Alone(u)
  BY DEF TimersIInv, TimersInv, OnePlace
<1>3. Distinct(ready') /\ Distinct(strand')
  BY DEF TimersIInv, TimersInv, OnePlace
<1>4. OneEach'
  BY DEF TimersIInv, TimersInv, OneEach
<1> QED
  BY <1>1, <1>2, <1>3, <1>4, Moved

LEMMA TickKeeps == ASSUME TimersIInv, Tick PROVE TimersIInv'
<1>1. OneMessageAtATime' /\ EachMessageOnce'
  BY RestStays DEF Tick, TheRest, multicastVars
<1>2. OnePlace' /\ OneEach' /\ CountIsCurrent'
  BY PlacesStay DEF Tick
<1>3. TimersTypeOK'
  <2>1. TimersTypeOK /\ clock \in Nat /\ clock' = clock + 1
    BY DEF Tick, TimersTypeOK, TimersIInv
  <2>2. clock' \in Nat
    BY <2>1
  <2> QED
    BY <2>1, <2>2 DEF Tick, TimersTypeOK, multicastVars
<1> QED
  BY <1>1, <1>2, <1>3 DEF TimersIInv, TimersInv

\* The parts of the invariant that a step of the threads starts from.
LEMMA Parts ==
  ASSUME TimersIInv
  PROVE  /\ TimersTypeOK /\ OneEach /\ Distinct(ready) /\ Distinct(strand)
         /\ \A u \in Timers : /\ Alone(u)
                              /\ Somewhere(u) => u \in Used
                              /\ Waited(u) => expiry[u] = fired[u] + 1
                              /\ u \notin Used => fired[u] = 0
         /\ ready \in Seq(Timers) /\ strand \in Seq(Timers)
         /\ running \in [Runners -> Handlers] /\ count_ \in Nat
         /\ fired \in [Timers -> Nat] /\ expiry \in [Timers -> Nat]
BY DEF TimersIInv, TimersInv, TimersTypeOK, OnePlace

LEMMA ExpireKeeps == ASSUME TimersIInv, NEW t \in Timers, Expire(t) PROVE TimersIInv'
<1>1. OneMessageAtATime' /\ EachMessageOnce'
  BY RestStays DEF Expire, TheRest, multicastVars
<1>2. /\ Waited(t) /\ Alone(t) /\ ready' = Append(ready, t) /\ strand' = strand
      /\ running' = running /\ UNCHANGED <<kind, count_, fired>>
      /\ expiry' = [expiry EXCEPT ![t] = 0]
  BY Parts DEF Expire, Waited
<1>3. ~Queued(ready, t) /\ ~Queued(strand, t) /\ ~InHands(t)
  BY <1>2 DEF Alone
<1>4. /\ ready' \in Seq(Timers) /\ Distinct(ready')
      /\ \A u \in Timers : Queued(ready', u) <=> Queued(ready, u) \/ u = t
  BY <1>2, <1>3, Parts, QueuedBehind
<1>5. \A u \in Timers : /\ Waited(u)' <=> Waited(u) /\ u # t
                        /\ Waited(u)' => expiry'[u] = expiry[u]
                        /\ Queued(ready, u)' <=> Queued(ready, u) \/ u = t
                        /\ Queued(strand, u)' <=> Queued(strand, u)
                        /\ InHands(u)' <=> InHands(u)
                        /\ Runs(u)' <=> Runs(u)
  <2>1. \A u \in Timers : /\ Waited(u)' <=> Waited(u) /\ u # t
                          /\ Waited(u)' => expiry'[u] = expiry[u]
    BY <1>2, Parts DEF Waited
  <2>2. \A u \in Timers : Queued(ready, u)' <=> Queued(ready', u)
    BY DEF Queued
  <2>3. \A u \in Timers : /\ Queued(strand, u)' <=> Queued(strand, u)
                          /\ InHands(u)' <=> InHands(u)
                          /\ Runs(u)' <=> Runs(u)
    BY <1>2 DEF Queued, InHands, Runs
  <2> QED
    BY <1>4, <2>1, <2>2, <2>3
<1>6. \A u \in Timers : /\ Alone(u)' /\ (Somewhere(u)' <=> Somewhere(u))
                        /\ Waited(u)' => Waited(u) /\ expiry'[u] = expiry[u]
                        /\ Runs(u)' <=> Runs(u)
  <2>1. \A u \in Timers : Alone(u)
    BY Parts
  <2> QED
    BY <1>2, <1>3, <1>5, <2>1 DEF Alone, Somewhere
<1>7. OnePlace' /\ CountIsCurrent'
  BY <1>2, <1>4, <1>6, Parts, Moved
<1>8. OneEach'
  BY <1>2, Parts DEF OneEach
<1>9. TimersTypeOK'
  <2>1. expiry' \in [Timers -> Nat]
    BY <1>2, Parts
  <2> QED
    BY <1>4, <2>1, Parts DEF Expire, TimersTypeOK, multicastVars
<1> QED
  BY <1>1, <1>7, <1>8, <1>9 DEF TimersIInv, TimersInv

LEMMA TakeKeeps == ASSUME TimersIInv, NEW th \in Runners, TakeReady(th) PROVE TimersIInv'
<1>1. OneMessageAtATime' /\ EachMessageOnce'
  BY RestStays DEF TakeReady, TheRest, multicastVars
<1>2. /\ ready # <<>> /\ running[th] = Idle /\ ready' = Tail(ready) /\ strand' = strand
      /\ UNCHANGED <<kind, expiry, count_, fired>>
      /\ running' = [running EXCEPT ![th] =
                       [step |-> "entering", handler |-> Head(ready), count |-> 0]]
  BY DEF TakeReady, MayRun
<1>3. PICK t \in Timers : t = Head(ready)
  BY <1>2, Parts, QueuedTaken
<1>4. /\ Queued(ready, t) /\ ready' \in Seq(Timers) /\ Distinct(ready')
      /\ \A u \in Timers : Queued(ready', u) <=> Queued(ready, u) /\ u # t
  BY <1>2, <1>3, Parts, QueuedTaken
<1>5. Alone(t) /\ ~Waited(t) /\ ~Queued(strand, t) /\ ~InHands(t)
  BY <1>4, Parts DEF Alone
<1>6. PICK w \in Handlers : w = [step |-> "entering", handler |-> t, count |-> 0]
  BY DEF Handlers
<1>7. w.handler = t /\ w.step = "entering"
  BY <1>6
<1>8. /\ running' \in [Runners -> Handlers] /\ OneEach'
      /\ running'[th] = w /\ \A o \in Runners : o # th => running'[o] = running[o]
      /\ \A u \in Timers : InHands(u)' <=> InHands(u) \/ u = t
      /\ \A u \in Timers : Runs(u)' <=> Runs(u)
  <2>1. running' = [running EXCEPT ![th] = w]
    BY <1>2, <1>3, <1>6
  <2>2. w.step # "idle" /\ w.step # "print"
    BY <1>7
  <2>3. /\ running' \in [Runners -> Handlers] /\ OneEach'
        /\ running'[th] = w /\ \A o \in Runners : o # th => running'[o] = running[o]
        /\ \A u \in Timers : InHands(u)' <=> InHands(u) \/ u = t
        /\ \A u \in Timers : Runs(u)' <=> Runs(u) \/ (u = t /\ w.step = "print")
    <3>1. w.step = "print" => \A o \in Runners : running[o].step # "print"
      BY <2>2
    <3>2. TimersTypeOK /\ OneEach
      BY Parts
    <3>3. running[th] = Idle /\ ~InHands(t) /\ w.handler = t
      BY <1>2, <1>5, <1>7
    <3> QED
      BY <2>1, <2>2, <3>1, <3>2, <3>3, OneTakes
  <2> QED
    BY <2>2, <2>3
<1>9. \A u \in Timers : /\ Waited(u)' <=> Waited(u)
                        /\ Queued(ready, u)' <=> Queued(ready, u) /\ u # t
                        /\ Queued(strand, u)' <=> Queued(strand, u)
  <2>1. \A u \in Timers : Queued(ready, u)' <=> Queued(ready', u)
    BY DEF Queued
  <2>2. \A u \in Timers : (Queued(strand, u)' <=> Queued(strand, u)) /\ (Waited(u)' <=> Waited(u))
    BY <1>2 DEF Queued, Waited
  <2> QED
    BY <1>4, <2>1, <2>2
<1>10. \A u \in Timers : /\ Alone(u)' /\ (Somewhere(u)' <=> Somewhere(u))
                         /\ Waited(u)' => Waited(u) /\ expiry'[u] = expiry[u]
                         /\ Runs(u)' <=> Runs(u)
  <2>1. \A u \in Timers : Alone(u)
    BY Parts
  <2> QED
    BY <1>2, <1>4, <1>5, <1>8, <1>9, <2>1 DEF Alone, Somewhere
<1>11. OnePlace' /\ CountIsCurrent'
  <2>1. \A o \in Runners : running'[o].step = "print" => running'[o] = running[o]
    BY <1>7, <1>8
  <2> QED
    BY <1>2, <1>4, <1>10, <2>1, Parts, Moved
<1>12. TimersTypeOK'
  BY <1>4, <1>8, Parts DEF TakeReady, TimersTypeOK, multicastVars
<1> QED
  BY <1>1, <1>8, <1>11, <1>12 DEF TimersIInv, TimersInv

LEMMA EnterKeeps == ASSUME TimersIInv, NEW th \in Runners, EnterStrand(th) PROVE TimersIInv'
<1>1. OneMessageAtATime' /\ EachMessageOnce'
  BY RestStays DEF EnterStrand, TheRest, multicastVars
<1>2. /\ running[th].step = "entering" /\ strand' = Append(strand, running[th].handler)
      /\ ready' = ready /\ UNCHANGED <<kind, expiry, count_, fired>>
      /\ running' = [running EXCEPT ![th] = Idle]
  BY DEF EnterStrand
<1>3. PICK t \in Timers : t = running[th].handler
  <2>1. running[th].handler # "none"
    BY <1>2, Parts, IdleHas DEF OneEach
  <2> QED
    BY <2>1, Parts DEF Handlers
<1>4. /\ running' \in [Runners -> Handlers] /\ OneEach'
      /\ running'[th] = Idle /\ \A o \in Runners : o # th => running'[o] = running[o]
      /\ InHands(t) /\ (Runs(t) <=> running[th].step = "print")
      /\ \A u \in Timers : InHands(u)' <=> InHands(u) /\ u # t
      /\ \A u \in Timers : Runs(u)' <=> Runs(u) /\ u # t
  BY <1>2, <1>3, Parts, OneLetsGo
<1>5. ~Waited(t) /\ ~Queued(ready, t) /\ ~Queued(strand, t) /\ ~Runs(t)
  BY <1>2, <1>4, Parts DEF Alone
<1>6. /\ strand' \in Seq(Timers) /\ Distinct(strand')
      /\ \A u \in Timers : Queued(strand', u) <=> Queued(strand, u) \/ u = t
  <2>1. strand' = Append(strand, t)
    BY <1>2, <1>3
  <2> QED
    BY <1>5, <2>1, Parts, QueuedBehind
<1>7. \A u \in Timers : /\ Waited(u)' <=> Waited(u)
                        /\ Queued(ready, u)' <=> Queued(ready, u)
                        /\ Queued(strand, u)' <=> Queued(strand, u) \/ u = t
  <2>1. \A u \in Timers : Queued(strand, u)' <=> Queued(strand', u)
    BY DEF Queued
  <2>2. \A u \in Timers : (Queued(ready, u)' <=> Queued(ready, u)) /\ (Waited(u)' <=> Waited(u))
    BY <1>2 DEF Queued, Waited
  <2> QED
    BY <1>6, <2>1, <2>2
<1>8. \A u \in Timers : /\ Alone(u)' /\ (Somewhere(u)' <=> Somewhere(u))
                        /\ Waited(u)' => Waited(u) /\ expiry'[u] = expiry[u]
                        /\ Runs(u)' <=> Runs(u)
  <2>1. \A u \in Timers : Alone(u)
    BY Parts
  <2> QED
    BY <1>2, <1>4, <1>5, <1>7, <2>1 DEF Alone, Somewhere
<1>9. OnePlace' /\ CountIsCurrent'
  <2>1. \A o \in Runners : running'[o].step = "print" => running'[o] = running[o]
    BY <1>4, IdleHas
  <2> QED
    BY <1>2, <1>6, <1>8, <2>1, Parts, Moved
<1>10. TimersTypeOK'
  BY <1>4, <1>6, Parts DEF EnterStrand, TimersTypeOK, multicastVars
<1> QED
  BY <1>1, <1>4, <1>9, <1>10 DEF TimersIInv, TimersInv

\* The calls of print of a thread that begins one: one more fired, one more running.
LEMMA BeginCounts ==
  ASSUME NEW h \in Timers, fired \in [Timers -> Nat], count_ \in Nat,
         fired["timer1_"] + fired["timer2_"]
         = count_ + InCall("timer1_") + InCall("timer2_")
           + LastCall("timer1_") + LastCall("timer2_"),
         fired' = [fired EXCEPT ![h] = @ + 1], count_' = count_,
         \A u \in Timers : LastCall(u)' = LastCall(u),
         \A u \in Timers : InCall(u) = 0 /\ InCall(u)' = (IF u = h THEN 1 ELSE 0)
  PROVE  fired'["timer1_"] + fired'["timer2_"]
         = count_' + InCall("timer1_")' + InCall("timer2_")'
           + LastCall("timer1_")' + LastCall("timer2_")'
<1>1. /\ "timer1_" \in Timers /\ "timer2_" \in Timers /\ h \in {"timer1_", "timer2_"}
      /\ fired["timer1_"] \in Nat /\ fired["timer2_"] \in Nat
      /\ LastCall("timer1_") \in Nat /\ LastCall("timer2_") \in Nat
  BY DEF Timers, LastCall
<1>2. CASE h = "timer1_"
  <2>1. fired'["timer1_"] = fired["timer1_"] + 1 /\ fired'["timer2_"] = fired["timer2_"]
    BY <1>1, <1>2
  <2>2. /\ InCall("timer1_")' = 1 /\ InCall("timer2_")' = 0
        /\ InCall("timer1_") = 0 /\ InCall("timer2_") = 0
        /\ LastCall("timer1_")' = LastCall("timer1_")
        /\ LastCall("timer2_")' = LastCall("timer2_")
    BY <1>1, <1>2
  <2> QED
    BY <1>1, <2>1, <2>2
<1>3. CASE h = "timer2_"
  <2>1. fired'["timer2_"] = fired["timer2_"] + 1 /\ fired'["timer1_"] = fired["timer1_"]
    BY <1>1, <1>3
  <2>2. /\ InCall("timer2_")' = 1 /\ InCall("timer1_")' = 0
        /\ InCall("timer1_") = 0 /\ InCall("timer2_") = 0
        /\ LastCall("timer1_")' = LastCall("timer1_")
        /\ LastCall("timer2_")' = LastCall("timer2_")
    BY <1>1, <1>3
  <2> QED
    BY <1>1, <2>1, <2>2
<1> QED
  BY <1>1, <1>2, <1>3

LEMMA BeginKeeps == ASSUME TimersIInv, NEW th \in Runners, BeginPrint(th) PROVE TimersIInv'
<1>1. Limit' = Limit /\ Used' = Used /\ OneMessageAtATime' /\ EachMessageOnce'
  BY RestStays DEF BeginPrint, Begin, TheRest, multicastVars
<1>2. /\ strand # <<>> /\ running[th] = Idle /\ strand' = Tail(strand) /\ ready' = ready
      /\ \A o \in Runners : running[o].step # "print"
      /\ UNCHANGED <<kind, expiry, count_>>
      /\ fired' = [fired EXCEPT ![Head(strand)] = @ + 1]
      /\ running' = [running EXCEPT ![th] =
                       [step |-> "print", handler |-> Head(strand), count |-> count_]]
  BY DEF BeginPrint, Begin, MayRun, StrandIsFree
<1>3. PICK h \in Timers : h = Head(strand)
  BY <1>2, Parts, QueuedTaken
<1>4. /\ Queued(strand, h) /\ strand' \in Seq(Timers) /\ Distinct(strand')
      /\ \A u \in Timers : Queued(strand', u) <=> Queued(strand, u) /\ u # h
  BY <1>2, <1>3, Parts, QueuedTaken
<1>5. Alone(h) /\ ~Waited(h) /\ ~Queued(ready, h) /\ ~InHands(h) /\ h \in Used
  BY <1>4, Parts DEF Alone, Somewhere
<1>6. PICK w \in Handlers : w = [step |-> "print", handler |-> h, count |-> count_]
  BY Parts DEF Handlers
<1>7. w.handler = h /\ w.step = "print" /\ w.count = count_
  BY <1>6
<1>8. /\ running' \in [Runners -> Handlers] /\ OneEach'
      /\ running'[th] = w /\ \A o \in Runners : o # th => running'[o] = running[o]
      /\ \A u \in Timers : InHands(u)' <=> InHands(u) \/ u = h
      /\ \A u \in Timers : Runs(u)' <=> Runs(u) \/ u = h
  <2>1. running' = [running EXCEPT ![th] = w]
    BY <1>2, <1>3, <1>6
  <2>2. w.step # "idle" /\ TimersTypeOK /\ OneEach
    BY <1>7, Parts
  <2>3. running[th] = Idle /\ ~InHands(h) /\ w.handler = h
    BY <1>2, <1>5, <1>7
  <2>4. w.step = "print" => \A o \in Runners : running[o].step # "print"
    BY <1>2
  <2>5. /\ running' \in [Runners -> Handlers] /\ OneEach'
        /\ running'[th] = w /\ \A o \in Runners : o # th => running'[o] = running[o]
        /\ \A u \in Timers : InHands(u)' <=> InHands(u) \/ u = h
        /\ \A u \in Timers : Runs(u)' <=> Runs(u) \/ (u = h /\ w.step = "print")
    BY <2>1, <2>2, <2>3, <2>4, OneTakes
  <2> QED
    BY <1>7, <2>5
<1>9. \A u \in Timers : /\ Waited(u)' <=> Waited(u)
                        /\ Queued(ready, u)' <=> Queued(ready, u)
                        /\ Queued(strand, u)' <=> Queued(strand, u) /\ u # h
                        /\ ~Runs(u) /\ (Runs(u)' <=> u = h)
  <2>1. \A u \in Timers : Queued(strand, u)' <=> Queued(strand', u)
    BY DEF Queued
  <2>2. \A u \in Timers : (Queued(ready, u)' <=> Queued(ready, u)) /\ (Waited(u)' <=> Waited(u))
    BY <1>2 DEF Queued, Waited
  <2>3. \A u \in Timers : ~Runs(u)
    BY <1>2 DEF Runs
  <2> QED
    BY <1>4, <1>8, <2>1, <2>2, <2>3
<1>10. \A u \in Timers : /\ Alone(u)' /\ (Somewhere(u)' <=> Somewhere(u))
                         /\ Finished(u)' <=> Finished(u)
  <2>1. \A u \in Timers : Alone(u)
    BY Parts
  <2>2. \A u \in Timers : Alone(u)' /\ (Somewhere(u)' <=> Somewhere(u))
    BY <1>4, <1>5, <1>8, <1>9, <2>1 DEF Alone, Somewhere
  <2> QED
    BY <1>1, <2>2 DEF Finished
<1>11. \A u \in Timers : /\ fired'[u] = IF u = h THEN fired[u] + 1 ELSE fired[u]
                         /\ InCall(u) = 0 /\ InCall(u)' = (IF u = h THEN 1 ELSE 0)
                         /\ LastCall(u)' = LastCall(u)
  <2>1. \A u \in Timers : fired'[u] = IF u = h THEN fired[u] + 1 ELSE fired[u]
    BY <1>2, <1>3, Parts
  <2>2. \A u \in Timers : InCall(u) = 0 /\ InCall(u)' = (IF u = h THEN 1 ELSE 0)
    BY <1>9 DEF InCall
  <2>3. \A u \in Timers : LastCall(u)' = LastCall(u)
    BY <1>10 DEF LastCall
  <2> QED
    BY <2>1, <2>2, <2>3
<1>12. OnePlace'
  <2>1. \A u \in Timers : /\ Somewhere(u) => u \in Used
                          /\ Waited(u) => expiry[u] = fired[u] + 1
                          /\ u \notin Used => fired[u] = 0
    BY Parts
  <2>2. \A u \in Timers : /\ Alone(u)'
                          /\ Somewhere(u)' => u \in Used'
                          /\ Waited(u)' => expiry'[u] = fired'[u] + 1
                          /\ u \notin Used' => fired'[u] = 0
    BY <1>1, <1>2, <1>5, <1>9, <1>10, <1>11, <2>1
  <2>3. Distinct(ready)' /\ Distinct(strand)'
    BY <1>2, <1>4, Parts DEF Distinct
  <2> QED
    BY <2>2, <2>3 DEF OnePlace
<1>13. CountIsCurrent'
  <2>1. \A o \in Runners : running'[o].step = "print" => running'[o].count = count_'
    BY <1>2, <1>7, <1>8
  <2>2. /\ count_' <= Limit' /\ \A u \in Timers : Finished(u)' => count_' = Limit'
    BY <1>1, <1>2, <1>10 DEF TimersIInv, TimersInv, CountIsCurrent
  <2>3. fired'["timer1_"] + fired'["timer2_"]
        = count_' + InCall("timer1_")' + InCall("timer2_")'
          + LastCall("timer1_")' + LastCall("timer2_")'
    <3>1. fired["timer1_"] + fired["timer2_"]
          = count_ + InCall("timer1_") + InCall("timer2_")
            + LastCall("timer1_") + LastCall("timer2_")
      BY DEF TimersIInv, TimersInv, CountIsCurrent
    <3>2. fired' = [fired EXCEPT ![h] = @ + 1] /\ count_' = count_
      BY <1>2, <1>3
    <3>3. fired \in [Timers -> Nat] /\ count_ \in Nat
      BY Parts
    <3>4. /\ \A u \in Timers : LastCall(u)' = LastCall(u)
          /\ \A u \in Timers : InCall(u) = 0 /\ InCall(u)' = (IF u = h THEN 1 ELSE 0)
      BY <1>11
    <3> QED
      BY <3>1, <3>2, <3>3, <3>4, BeginCounts
  <2> QED
    BY <2>1, <2>2, <2>3 DEF CountIsCurrent
<1>14. TimersTypeOK'
  <2>1. fired' \in [Timers -> Nat]
    BY <1>2, <1>3, Parts
  <2> QED
    BY <1>4, <1>8, <2>1, Parts DEF BeginPrint, Begin, TimersTypeOK, multicastVars
<1> QED
  BY <1>1, <1>8, <1>12, <1>13, <1>14 DEF TimersIInv, TimersInv

\* The calls of print of a thread that ends one: counted, or the last of its timer.
LEMMA EndCounts ==
  ASSUME NEW t \in Timers, fired \in [Timers -> Nat], count_ \in Nat, NEW more \in {0, 1},
         fired["timer1_"] + fired["timer2_"]
         = count_ + InCall("timer1_") + InCall("timer2_")
           + LastCall("timer1_") + LastCall("timer2_"),
         fired' = fired, count_' = count_ + more,
         \A u \in Timers : InCall(u)' = 0 /\ InCall(u) = (IF u = t THEN 1 ELSE 0),
         \A u \in Timers : u # t => LastCall(u)' = LastCall(u),
         LastCall(t) = 0, LastCall(t)' = 1 - more
  PROVE  fired'["timer1_"] + fired'["timer2_"]
         = count_' + InCall("timer1_")' + InCall("timer2_")'
           + LastCall("timer1_")' + LastCall("timer2_")'
<1>1. /\ "timer1_" \in Timers /\ "timer2_" \in Timers /\ t \in {"timer1_", "timer2_"}
      /\ fired["timer1_"] \in Nat /\ fired["timer2_"] \in Nat
      /\ LastCall("timer1_") \in Nat /\ LastCall("timer2_") \in Nat
  BY DEF Timers, LastCall
<1>2. CASE t = "timer1_"
  <2>1. /\ InCall("timer1_") = 1 /\ InCall("timer2_") = 0
        /\ InCall("timer1_")' = 0 /\ InCall("timer2_")' = 0
        /\ LastCall("timer1_") = 0 /\ LastCall("timer2_")' = LastCall("timer2_")
        /\ LastCall("timer1_")' = 1 - more
    BY <1>1, <1>2
  <2> QED
    BY <1>1, <2>1
<1>3. CASE t = "timer2_"
  <2>1. /\ InCall("timer2_") = 1 /\ InCall("timer1_") = 0
        /\ InCall("timer1_")' = 0 /\ InCall("timer2_")' = 0
        /\ LastCall("timer2_") = 0 /\ LastCall("timer1_")' = LastCall("timer1_")
        /\ LastCall("timer2_")' = 1 - more
    BY <1>1, <1>3
  <2> QED
    BY <1>1, <2>1
<1> QED
  BY <1>1, <1>2, <1>3

LEMMA EndKeeps == ASSUME TimersIInv, NEW th \in Runners, EndPrint(th) PROVE TimersIInv'
<1>1. Limit' = Limit /\ Used' = Used /\ OneMessageAtATime' /\ EachMessageOnce'
  BY RestStays DEF EndPrint, TheRest, multicastVars
<1>2. /\ running[th].step = "print" /\ UNCHANGED <<kind, clock, ready, strand, fired>>
      /\ running' = [running EXCEPT ![th] = Idle]
  BY DEF EndPrint
<1>3. PICK t \in Timers : t = running[th].handler
  <2>1. running[th].handler # "none"
    BY <1>2, Parts, IdleHas DEF OneEach
  <2> QED
    BY <2>1, Parts DEF Handlers
<1>4. /\ running' \in [Runners -> Handlers] /\ OneEach'
      /\ running'[th] = Idle /\ \A o \in Runners : o # th => running'[o] = running[o]
      /\ InHands(t) /\ Runs(t)
      /\ \A u \in Timers : InHands(u)' <=> InHands(u) /\ u # t
  BY <1>2, <1>3, Parts, OneLetsGo
<1>5. ~Waited(t) /\ ~Queued(ready, t) /\ ~Queued(strand, t) /\ t \in Used
  BY <1>4, Parts DEF Alone, Somewhere
<1>6. /\ \A o \in Runners : o # th => running[o].step # "print"
      /\ \A u \in Timers : ~Runs(u)' /\ (Runs(u) <=> u = t)
  <2>1. \A o \in Runners : o # th => running[o].step # "print"
    BY <1>2, Parts DEF OneEach
  <2>2. \A u \in Timers : Runs(u) => u = t
    BY <1>3, <2>1 DEF Runs
  <2>3. \A u \in Timers : ~Runs(u)'
    BY <1>4, <2>1, IdleHas DEF Runs
  <2> QED
    BY <1>4, <2>1, <2>2, <2>3
<1>7. PICK more \in {0, 1} : more = IF count_ < Limit THEN 1 ELSE 0
  OBVIOUS
<1>8. /\ running[th].count = count_ /\ count_ <= Limit /\ Limit \in Nat
      /\ \A u \in Timers : Finished(u) => count_ = Limit
  BY <1>2, Parts, LimitIsNat DEF TimersIInv, TimersInv, CountIsCurrent
<1>9. IF more = 1
      THEN count_' = count_ + 1 /\ expiry' = [expiry EXCEPT ![t] = fired[t] + 1]
      ELSE count_' = count_ /\ expiry' = expiry
  BY <1>3, <1>7, <1>8 DEF EndPrint
<1>10. \A u \in Timers : /\ Waited(u)' <=> Waited(u) \/ (more = 1 /\ u = t)
                         /\ Waited(u)' => expiry'[u] = fired[u] + 1
  <2>1. \A u \in Timers : /\ Waited(u) => expiry[u] = fired[u] + 1
                          /\ fired[u] \in Nat
    BY Parts
  <2>2. CASE more = 1
    <3>1. \A u \in Timers : expiry'[u] = IF u = t THEN fired[t] + 1 ELSE expiry[u]
      BY <1>9, <2>2, Parts
    <3>2. fired[t] + 1 # 0
      BY <2>1
    <3> QED
      BY <2>1, <2>2, <3>1, <3>2 DEF Waited
  <2>3. CASE more = 0
    BY <1>9, <2>1, <2>3 DEF Waited
  <2> QED
    BY <2>2, <2>3
<1>11. \A u \in Timers : /\ Queued(ready, u)' <=> Queued(ready, u)
                         /\ Queued(strand, u)' <=> Queued(strand, u)
  BY <1>2 DEF Queued
<1>12. \A u \in Timers : /\ Alone(u)'
                         /\ Somewhere(u)' <=> Somewhere(u) /\ (u = t => more = 1)
  <2>1. \A u \in Timers : Alone(u)
    BY Parts
  <2> QED
    BY <1>4, <1>5, <1>10, <1>11, <2>1 DEF Alone, Somewhere
<1>13. /\ ~Finished(t) /\ (Finished(t)' <=> more = 0)
       /\ \A u \in Timers : u # t => (Finished(u)' <=> Finished(u))
  <2>1. Somewhere(t)
    BY <1>4 DEF Somewhere
  <2> QED
    BY <1>1, <1>5, <1>12, <2>1 DEF Finished
<1>14. OnePlace'
  <2>1. \A u \in Timers : /\ Somewhere(u) => u \in Used
                          /\ u \notin Used => fired[u] = 0
    BY Parts
  <2>2. \A u \in Timers : /\ Alone(u)'
                          /\ Somewhere(u)' => u \in Used'
                          /\ Waited(u)' => expiry'[u] = fired'[u] + 1
                          /\ u \notin Used' => fired'[u] = 0
    BY <1>1, <1>2, <1>10, <1>12, <2>1
  <2>3. Distinct(ready)' /\ Distinct(strand)'
    BY <1>2, Parts DEF Distinct
  <2> QED
    BY <2>2, <2>3 DEF OnePlace
<1>15. CountIsCurrent'
  <2>1. \A o \in Runners : running'[o].step = "print" => running'[o].count = count_'
    BY <1>4, <1>6, IdleHas
  <2>2. /\ count_' <= Limit' /\ \A u \in Timers : Finished(u)' => count_' = Limit'
    <3>1. count_ \in Nat
      BY Parts
    <3>2. more = 1 => \A u \in Timers : ~Finished(u)
      BY <1>7, <1>8, <3>1
    <3>3. CASE more = 1
      BY <1>1, <1>7, <1>8, <1>9, <1>13, <3>1, <3>2, <3>3
    <3>4. CASE more = 0
      BY <1>1, <1>7, <1>8, <1>9, <3>1, <3>4
    <3> QED
      BY <3>3, <3>4
  <2>3. /\ fired \in [Timers -> Nat] /\ count_ \in Nat /\ fired' = fired
        /\ count_' = count_ + more
    BY <1>2, <1>9, Parts
  <2>4. fired["timer1_"] + fired["timer2_"]
        = count_ + InCall("timer1_") + InCall("timer2_")
          + LastCall("timer1_") + LastCall("timer2_")
    BY DEF TimersIInv, TimersInv, CountIsCurrent
  <2>5. \A u \in Timers : InCall(u)' = 0 /\ InCall(u) = (IF u = t THEN 1 ELSE 0)
    BY <1>6 DEF InCall
  <2>6. /\ \A u \in Timers : u # t => LastCall(u)' = LastCall(u)
        /\ LastCall(t) = 0 /\ LastCall(t)' = 1 - more
    BY <1>13 DEF LastCall
  <2>7. fired'["timer1_"] + fired'["timer2_"]
        = count_' + InCall("timer1_")' + InCall("timer2_")'
          + LastCall("timer1_")' + LastCall("timer2_")'
    BY <2>3, <2>4, <2>5, <2>6, EndCounts
  <2> QED
    BY <2>1, <2>2, <2>7 DEF CountIsCurrent
<1>16. TimersTypeOK'
  <2>1. count_' \in Nat /\ expiry' \in [Timers -> Nat]
    <3>1. count_ \in Nat /\ expiry \in [Timers -> Nat] /\ fired[t] + 1 \in Nat
      BY Parts
    <3>2. CASE more = 1
      BY <1>9, <3>1, <3>2
    <3>3. CASE more = 0
      BY <1>9, <3>1, <3>3
    <3> QED
      BY <3>2, <3>3
  <2> QED
    BY <1>4, <2>1 DEF EndPrint, TimersTypeOK, TimersIInv, multicastVars
<1> QED
  BY <1>1, <1>4, <1>14, <1>15, <1>16 DEF TimersIInv, TimersInv

-----------------------------------------------------------------------------
(* The sender and the receivers: the timers stay as they are.              *)
TimersStay == UNCHANGED <<kind, clock, expiry, ready, strand, running, count_, fired>>

LEMMA SenderLeavesTimers ==
  ASSUME TimersIInv, TimersStay PROVE OnePlace' /\ OneEach' /\ CountIsCurrent'
BY PlacesStay DEF TimersStay

\* What a receiver has: each of the first n at most once, and none of a set.
OnceOf(s, n) == \A i, j \in DOMAIN s : s[i] \in 1 .. n /\ (s[i] = s[j] => i = j)
NoneOf(s, set) == \A i \in DOMAIN s : s[i] \notin set

LEMMA OneMoreSent ==
  ASSUME NEW s, NEW n \in Nat, NEW set, OnceOf(s, n), NoneOf(s, set)
  PROVE  OnceOf(s, n + 1) /\ NoneOf(s, set \cup {n + 1})
<1>1. \A k \in 1 .. n : k \in 1 .. n + 1 /\ k # n + 1
  OBVIOUS
<1> QED
  BY <1>1 DEF OnceOf, NoneOf

LEMMA OneMoreReceived ==
  ASSUME NEW s \in Seq(Nat), NEW n \in Nat, NEW set \in SUBSET (1 .. n), NEW m \in set,
         OnceOf(s, n), NoneOf(s, set)
  PROVE  /\ Append(s, m) \in Seq(Nat)
         /\ OnceOf(Append(s, m), n) /\ NoneOf(Append(s, m), set \ {m})
<1>0. m \in Nat /\ m \in 1 .. n
  OBVIOUS
<1>a. Append(s, m) \in Seq(Nat)
  BY <1>0, AppendProperties
<1>1. PICK p \in Seq(Nat) : p = Append(s, m)
  BY <1>a
<1>2. /\ Len(s) \in Nat /\ DOMAIN s = 1 .. Len(s)
      /\ DOMAIN p = 1 .. Len(s) + 1 /\ p[Len(s) + 1] = m
      /\ \A i \in 1 .. Len(s) : p[i] = s[i]
  BY <1>1
<1>3. \A i \in 1 .. Len(s) : p[i] \in 1 .. n /\ p[i] # m /\ p[i] \notin set
  BY <1>2 DEF OnceOf, NoneOf
<1>4. \A i, j \in 1 .. Len(s) : p[i] = p[j] => i = j
  BY <1>2 DEF OnceOf
<1>5. \A i \in DOMAIN p : i \in 1 .. Len(s) \/ i = Len(s) + 1
  BY <1>2
<1>6. OnceOf(p, n)
  BY <1>2, <1>3, <1>4, <1>5 DEF OnceOf
<1>7. NoneOf(p, set \ {m})
  BY <1>2, <1>3, <1>5 DEF NoneOf
<1> QED
  BY <1>1, <1>6, <1>7

\* What is known of the messages, with their types.
LEMMA Messages ==
  ASSUME TimersIInv
  PROVE  /\ sender \in Senders /\ sentOut \in Seq(Nat) /\ inflight \in [Receivers -> SUBSET Nat]
         /\ received \in [Receivers -> Seq(Nat)]
         /\ Len(sentOut) \in Nat /\ DOMAIN sentOut = 1 .. Len(sentOut)
         /\ sender.count \in Nat /\ Max_Message_Count \in Nat \ {0}
         /\ \A i \in 1 .. Len(sentOut) : sentOut[i] = i
         /\ sender.count <= Max_Message_Count
         /\ \A r \in Receivers :
               /\ received[r] \in Seq(Nat) /\ inflight[r] \in SUBSET (1 .. Len(sentOut))
               /\ OnceOf(received[r], Len(sentOut)) /\ NoneOf(received[r], inflight[r])
<1>1. /\ sender \in Senders /\ sentOut \in Seq(Nat) /\ inflight \in [Receivers -> SUBSET Nat]
      /\ received \in [Receivers -> Seq(Nat)] /\ sender.count \in Nat
      /\ Max_Message_Count \in Nat \ {0}
  BY TimersConstants DEF TimersIInv, TimersTypeOK, Senders
<1>2. Len(sentOut) \in Nat /\ DOMAIN sentOut = 1 .. Len(sentOut)
  BY <1>1
<1>3. OneMessageAtATime /\ EachMessageOnce
  BY DEF TimersIInv, TimersInv
<1>4. (\A i \in 1 .. Len(sentOut) : sentOut[i] = i) /\ sender.count <= Max_Message_Count
  BY <1>2, <1>3 DEF EachMessageOnce
<1>5. \A r \in Receivers : received[r] \in Seq(Nat) /\ inflight[r] \in SUBSET (1 .. Len(sentOut))
  BY <1>1, <1>3 DEF OneMessageAtATime
<1>6. \A r \in Receivers :
         OnceOf(received[r], Len(sentOut)) /\ NoneOf(received[r], inflight[r])
  BY <1>3 DEF OneMessageAtATime, EachMessageOnce, OnceOf, NoneOf
<1> QED
  BY <1>1, <1>2, <1>4, <1>5, <1>6

LEMMA SendKeeps ==
  ASSUME TimersIInv, NEW failed \in BOOLEAN, SendCompletes(failed) PROVE TimersIInv'
<1>1. /\ TimersStay /\ sender.op = "sending" /\ received' = received
      /\ sender' = [sender EXCEPT !.op = IF ~failed /\ sender.count < Max_Message_Count
                                         THEN "timeout" ELSE "ended"]
  BY DEF SendCompletes, TimersStay
<1>2. /\ kind = "multicast" /\ sender.message = sender.count
      /\ sender.count = Len(sentOut) + 1
  BY <1>1, Messages
     DEF TimersIInv, TimersInv, OneMessageAtATime, EachMessageOnce
<1>3. /\ sender' \in Senders /\ sender'.count = sender.count
      /\ sender'.op = (IF ~failed /\ sender.count < Max_Message_Count
                       THEN "timeout" ELSE "ended")
  BY <1>1, Messages DEF Senders
<1>4. CASE failed
  <2>1. sentOut' = sentOut /\ inflight' = inflight /\ sender'.op = "ended"
    BY <1>3, <1>4 DEF SendCompletes
  <2>2. EachMessageOnce'
    BY <1>1, <1>2, <1>3, <2>1 DEF TimersIInv, TimersInv, EachMessageOnce
  <2>3. OneMessageAtATime'
    BY <1>1, <1>2, <2>1 DEF TimersIInv, TimersInv, OneMessageAtATime, TimersStay
  <2>4. TimersTypeOK'
    BY <1>1, <1>3, <2>1 DEF TimersIInv, TimersTypeOK, TimersStay
  <2> QED
    BY <1>1, <2>2, <2>3, <2>4, SenderLeavesTimers DEF TimersIInv, TimersInv
<1>5. CASE ~failed
  <2>1. PICK n \in Nat : n = Len(sentOut) + 1
    BY Messages
  <2>2. /\ sentOut' = Append(sentOut, n) /\ sender.count = n
        /\ inflight' = [r \in Receivers |-> inflight[r] \cup {n}]
    BY <1>2, <1>5, <2>1 DEF SendCompletes
  <2>3. /\ sentOut' \in Seq(Nat) /\ Len(sentOut') = n /\ DOMAIN sentOut' = 1 .. n
        /\ \A i \in 1 .. n : sentOut'[i] = i
    <3>1. /\ sentOut' \in Seq(Nat) /\ Len(sentOut') = n /\ sentOut'[n] = n
          /\ \A i \in 1 .. Len(sentOut) : sentOut'[i] = sentOut[i]
      BY <2>1, <2>2, Messages
    <3>2. \A i \in 1 .. n : i \in 1 .. Len(sentOut) \/ i = n
      BY <2>1, Messages
    <3>3. DOMAIN sentOut' = 1 .. Len(sentOut')
      BY <3>1
    <3> QED
      BY <3>1, <3>2, <3>3, Messages
  <2>4. \A r \in Receivers : inflight'[r] = inflight[r] \cup {n}
    BY <2>2
  <2>5. EachMessageOnce'
    <3>1. /\ \A i \in DOMAIN sentOut' : sentOut'[i] = i
          /\ sender'.count <= Max_Message_Count
          /\ sender'.op = "timeout" => sender'.count = Len(sentOut')
          /\ sender'.op # "timeout" => /\ sender'.op = "ended"
                                       /\ sender'.count = Len(sentOut')
                                       /\ sender'.count = Max_Message_Count
      <4>1. sender.count \in Nat /\ Max_Message_Count \in Nat /\ sender.count <= Max_Message_Count
        BY Messages
      <4> QED
        BY <1>3, <1>5, <2>2, <2>3, <4>1
    <3>2. \A r \in Receivers : OnceOf(received[r], Len(sentOut'))
      <4>1. ASSUME NEW r \in Receivers PROVE OnceOf(received[r], Len(sentOut) + 1)
        BY OneMoreSent, Messages
      <4> QED
        BY <2>1, <2>3, <4>1
    <3> QED
      BY <1>1, <3>1, <3>2 DEF EachMessageOnce, OnceOf
  <2>6. OneMessageAtATime'
    <3>1. \A r \in Receivers : NoneOf(received[r], inflight'[r])
      BY <2>1, <2>4, OneMoreSent, Messages
    <3>2. \A r \in Receivers : inflight'[r] \subseteq 1 .. Len(sentOut')
      <4>1. n \in 1 .. n /\ \A k \in 1 .. Len(sentOut) : k \in 1 .. n
        BY <2>1, Messages
      <4>2. \A r \in Receivers : \A k \in inflight[r] : k \in 1 .. Len(sentOut)
        BY Messages
      <4> QED
        BY <2>3, <2>4, <4>1, <4>2
    <3>3. sender'.op = "timeout" => sender'.count < Max_Message_Count
      BY <1>3
    <3> QED
      BY <1>1, <1>2, <1>3, <3>1, <3>2, <3>3 DEF OneMessageAtATime, NoneOf, TimersStay
  <2>7. TimersTypeOK'
    <3>1. inflight' \in [Receivers -> SUBSET Nat]
      BY <2>2, Messages
    <3> QED
      BY <1>1, <1>3, <2>3, <3>1 DEF TimersIInv, TimersTypeOK, TimersStay
  <2> QED
    BY <1>1, <2>5, <2>6, <2>7, SenderLeavesTimers DEF TimersIInv, TimersInv
<1> QED
  BY <1>4, <1>5

\* One message more at one receiver, that was on its way to it.
LEMMA DeliverKeeps ==
  ASSUME TimersIInv, NEW r \in Receivers, NEW m \in inflight[r], Deliver(r, m) PROVE TimersIInv'
<1>1. /\ TimersStay /\ sender' = sender /\ sentOut' = sentOut
      /\ inflight' = [inflight EXCEPT ![r] = @ \ {m}]
      /\ received' = [received EXCEPT ![r] = Append(@, m)]
  BY DEF Deliver, TimersStay
<1>2. PICK p \in Seq(Nat) : p = Append(received[r], m)
  BY Messages, OneMoreReceived
<1>3. OnceOf(p, Len(sentOut)) /\ NoneOf(p, inflight[r] \ {m})
  BY <1>2, Messages, OneMoreReceived
<1>4. /\ inflight' \in [Receivers -> SUBSET Nat] /\ received' \in [Receivers -> Seq(Nat)]
      /\ received'[r] = p /\ inflight'[r] = inflight[r] \ {m}
      /\ \A o \in Receivers : o # r => received'[o] = received[o] /\ inflight'[o] = inflight[o]
  BY <1>1, <1>2, Messages
<1>5. \A o \in Receivers : /\ OnceOf(received'[o], Len(sentOut))
                           /\ NoneOf(received'[o], inflight'[o])
                           /\ inflight'[o] \subseteq 1 .. Len(sentOut)
  <2>1. \A o \in Receivers : /\ OnceOf(received[o], Len(sentOut))
                             /\ NoneOf(received[o], inflight[o])
                             /\ inflight[o] \subseteq 1 .. Len(sentOut)
    BY Messages
  <2>2. ASSUME NEW o \in Receivers
        PROVE  /\ OnceOf(received'[o], Len(sentOut))
               /\ NoneOf(received'[o], inflight'[o])
               /\ inflight'[o] \subseteq 1 .. Len(sentOut)
    <3>1. CASE o = r
      BY <1>3, <1>4, <2>1, <3>1
    <3>2. CASE o # r
      BY <1>4, <2>1, <3>2
    <3> QED
      BY <3>1, <3>2
  <2> QED
    BY <2>2
<1>6. EachMessageOnce'
  BY <1>1, <1>5 DEF TimersIInv, TimersInv, EachMessageOnce, OnceOf
<1>7. OneMessageAtATime'
  BY <1>1, <1>5 DEF TimersIInv, TimersInv, OneMessageAtATime, NoneOf, TimersStay
<1>8. TimersTypeOK'
  BY <1>1, <1>4 DEF TimersIInv, TimersTypeOK, TimersStay
<1> QED
  BY <1>1, <1>6, <1>7, <1>8, SenderLeavesTimers DEF TimersIInv, TimersInv

\* A send starts only when all before it are over.
LEMMA NextMessage ==
  ASSUME TimersIInv, sender.op \in {"off", "timeout"}, sender' = DoSend(sender),
         sender.count < Max_Message_Count, kind' = "multicast",
         UNCHANGED <<sentOut, inflight, received>>
  PROVE  sender' \in Senders /\ EachMessageOnce' /\ OneMessageAtATime'
<1>1. /\ sender' \in Senders /\ sender'.op = "sending" /\ sender'.count = sender.count + 1
      /\ sender'.message = sender.count + 1
  BY Messages DEF DoSend, Senders
<1>2. sender.count = Len(sentOut)
  BY DEF TimersIInv, TimersInv, EachMessageOnce
<1>3. EachMessageOnce'
  BY <1>1, <1>2, Messages DEF TimersIInv, TimersInv, EachMessageOnce
<1>4. OneMessageAtATime'
  BY <1>1 DEF TimersIInv, TimersInv, OneMessageAtATime
<1> QED
  BY <1>1, <1>3, <1>4

LEMMA TimeoutKeeps == ASSUME TimersIInv, TimeoutFires PROVE TimersIInv'
<1>1. /\ TimersStay /\ sender.op = "timeout" /\ sender' = DoSend(sender)
      /\ UNCHANGED <<sentOut, inflight, received>>
  BY DEF TimeoutFires, TimersStay
<1>2. kind' = "multicast" /\ sender.count < Max_Message_Count
  BY <1>1 DEF TimersStay, TimersIInv, TimersInv, OneMessageAtATime
<1>3. sender' \in Senders /\ EachMessageOnce' /\ OneMessageAtATime'
  BY <1>1, <1>2, NextMessage
<1>4. TimersTypeOK'
  BY <1>1, <1>3 DEF TimersIInv, TimersTypeOK, TimersStay
<1> QED
  BY <1>1, <1>3, <1>4, SenderLeavesTimers DEF TimersIInv, TimersInv

-----------------------------------------------------------------------------
(* The start: before, no timer is used and nothing was counted.            *)
LEMMA NothingQueued == ASSUME NEW q \in Seq(Timers), \A t \in Timers : ~Queued(q, t) PROVE q = <<>>
<1> SUFFICES ASSUME q # <<>> PROVE FALSE
  OBVIOUS
<1>1. Len(q) \in Nat /\ 1 \in 1 .. Len(q) /\ q[1] \in Timers
  OBVIOUS
<1> QED
  BY <1>1 DEF Queued

LEMMA BeforeTheStart ==
  ASSUME TimersIInv, kind = "none"
  PROVE  /\ expiry = [t \in Timers |-> 0] /\ ready = <<>> /\ strand = <<>> /\ count_ = 0
         /\ running = [th \in Runners |-> Idle] /\ fired = [t \in Timers |-> 0]
         /\ sender.op = "off" /\ sender.count = 0
<1>1. Used = {}
  BY DEF Used, Waits
<1>2. \A t \in Timers : /\ ~Waited(t) /\ ~Queued(ready, t) /\ ~Queued(strand, t) /\ ~InHands(t)
                        /\ fired[t] = 0
  BY <1>1, Parts DEF Somewhere
<1>3. expiry = [t \in Timers |-> 0] /\ fired = [t \in Timers |-> 0]
  BY <1>2, Parts DEF Waited
<1>4. ready = <<>> /\ strand = <<>>
  BY <1>2, NothingQueued, Parts
<1>5. running = [th \in Runners |-> Idle]
  <2>1. \A th \in Runners : running[th].handler = "none"
    BY <1>2, Parts DEF InHands, Handlers
  <2> QED
    BY <2>1, Parts DEF OneEach
<1>6. count_ = 0
  <2>1. \A t \in Timers : InCall(t) = 0 /\ LastCall(t) = 0
    BY <1>1, <1>2 DEF InCall, LastCall, Finished, Runs, InHands
  <2>2. /\ fired["timer1_"] = 0 /\ fired["timer2_"] = 0
        /\ InCall("timer1_") = 0 /\ InCall("timer2_") = 0
        /\ LastCall("timer1_") = 0 /\ LastCall("timer2_") = 0
    BY <1>2, <2>1 DEF Timers
  <2>3. fired["timer1_"] + fired["timer2_"]
           = count_ + InCall("timer1_") + InCall("timer2_")
             + LastCall("timer1_") + LastCall("timer2_")
    BY DEF TimersIInv, TimersInv, CountIsCurrent
  <2> QED
    BY <2>2, <2>3, Parts
<1>7. sender.op = "off" /\ sender.count = 0
  BY DEF TimersIInv, TimersInv, OneMessageAtATime
<1> QED
  BY <1>3, <1>4, <1>5, <1>6, <1>7

\* At the start every used timer is waited for, for its first expiry.
LEMMA Started ==
  ASSUME NEW used \in SUBSET Timers, Used' = used, Limit' \in Nat,
         expiry' = [t \in Timers |-> IF t \in used THEN 1 ELSE 0],
         ready' = <<>>, strand' = <<>>, count_' = 0, running' = [th \in Runners |-> Idle],
         fired' = [t \in Timers |-> 0]
  PROVE  OnePlace' /\ OneEach' /\ CountIsCurrent'
<1>1. \A th \in Runners : running'[th] = Idle
  OBVIOUS
<1>2. \A t \in Timers : /\ Waited(t)' <=> t \in used
                        /\ ~Queued(ready, t)' /\ ~Queued(strand, t)'
                        /\ ~InHands(t)' /\ ~Runs(t)'
                        /\ expiry'[t] = (IF t \in used THEN 1 ELSE 0)
                        /\ fired'[t] = 0
  BY <1>1, IdleHas DEF Waited, Queued, InHands, Runs
<1>3. \A t \in Timers : ~Finished(t)'
  BY <1>2 DEF Finished, Somewhere
<1>4. OnePlace'
  <2>1. Distinct(ready)' /\ Distinct(strand)'
    BY DEF Distinct
  <2> QED
    BY <1>2, <2>1 DEF OnePlace, Alone, Somewhere
<1>5. CountIsCurrent'
  <2>1. /\ fired'["timer1_"] = 0 /\ fired'["timer2_"] = 0
        /\ InCall("timer1_")' = 0 /\ InCall("timer2_")' = 0
        /\ LastCall("timer1_")' = 0 /\ LastCall("timer2_")' = 0
    BY <1>2, <1>3 DEF InCall, LastCall, Timers
  <2> QED
    BY <1>1, <1>3, <2>1, IdleHas DEF CountIsCurrent
<1>6. OneEach'
  BY <1>1, IdleHas DEF OneEach
<1> QED
  BY <1>4, <1>5, <1>6

StartKinds == Waits \cup {"one timer", "two timers"}
LEMMA StartKeeps ==
  ASSUME TimersIInv, NEW k \in StartKinds,
         StartTimers(k, IF k = "two timers" THEN Timers ELSE {"timer1_"})
  PROVE  TimersIInv'
<1> DEFINE used == IF k = "two timers" THEN Timers ELSE {"timer1_"}
<1>1. /\ kind = "none" /\ kind' = k /\ expiry' = [t \in Timers |-> IF t \in used THEN 1 ELSE 0]
      /\ UNCHANGED <<clock, ready, strand, running, count_, fired>>
      /\ UNCHANGED <<sender, sentOut, inflight, received>>
      /\ TimersTypeOK /\ used \in SUBSET Timers
  BY DEF StartTimers, TimersIInv, Timers, multicastVars
<1>2. /\ ready' = <<>> /\ strand' = <<>> /\ count_' = 0 /\ running' = [th \in Runners |-> Idle]
      /\ fired' = [t \in Timers |-> 0] /\ sender'.op = "off" /\ sender'.count = 0
  BY <1>1, BeforeTheStart
<1>3. Used' = used
  BY <1>1 DEF StartKinds, Waits, Used
<1> HIDE DEF used
<1>4. TimersTypeOK'
  <2>1. expiry' \in [Timers -> Nat] /\ k \in Waits \cup {"none", "one timer", "two timers", "multicast"}
    BY <1>1 DEF StartKinds
  <2> QED
    BY <1>1, <2>1 DEF TimersTypeOK
<1>5. Limit' \in Nat
  BY <1>1, TimersConstants DEF Limit
<1>6. OnePlace' /\ OneEach' /\ CountIsCurrent'
  BY <1>1, <1>2, <1>3, <1>5, Started
<1>7. OneMessageAtATime' /\ EachMessageOnce'
  BY <1>1, <1>2 DEF OneMessageAtATime, EachMessageOnce, TimersIInv, TimersInv
<1> QED
  BY <1>4, <1>6, <1>7 DEF TimersIInv, TimersInv

LEMMA StartSenderKeeps == ASSUME TimersIInv, StartSender PROVE TimersIInv'
<1>1. /\ kind = "none" /\ kind' = "multicast" /\ sender' = DoSend(sender) /\ TimersTypeOK
      /\ UNCHANGED <<clock, expiry, ready, strand, running, count_, fired>>
      /\ UNCHANGED <<sentOut, inflight, received>>
  BY DEF StartSender, TimersIInv
<1>2. /\ expiry = [t \in Timers |-> 0] /\ ready = <<>> /\ strand = <<>> /\ count_ = 0
      /\ running = [th \in Runners |-> Idle] /\ fired = [t \in Timers |-> 0]
      /\ sender.op = "off" /\ sender.count = 0
  BY <1>1, BeforeTheStart
<1>3. Used' = {} /\ Limit' \in Nat /\ {} \in SUBSET Timers
  BY <1>1, TimersConstants DEF Used, Limit, Waits
<1>4. OnePlace' /\ OneEach' /\ CountIsCurrent'
  <2>1. expiry' = [t \in Timers |-> IF t \in {} THEN 1 ELSE 0]
    BY <1>1, <1>2
  <2> QED
    BY <1>1, <1>2, <1>3, <2>1, Started
<1>5. sender' \in Senders /\ EachMessageOnce' /\ OneMessageAtATime'
  <2>1. sender.count < Max_Message_Count
    BY <1>2, TimersConstants
  <2> QED
    BY <1>1, <1>2, <2>1, NextMessage
<1>6. TimersTypeOK'
  BY <1>1, <1>5 DEF TimersTypeOK
<1> QED
  BY <1>4, <1>5, <1>6 DEF TimersIInv, TimersInv

LEMMA TimersInitially == TimersInit => TimersIInv
<1> SUFFICES ASSUME TimersInit PROVE TimersIInv
  OBVIOUS
<1>1. /\ kind = "none" /\ Used = {} /\ Limit \in Nat
      /\ ready = <<>> /\ strand = <<>> /\ count_ = 0 /\ expiry = [t \in Timers |-> 0]
      /\ running = [th \in Runners |-> Idle] /\ fired = [t \in Timers |-> 0]
  BY TimersConstants DEF TimersInit, Used, Limit, Waits
<1>2. \A t \in Timers : /\ ~Waited(t) /\ ~Queued(ready, t) /\ ~Queued(strand, t)
                        /\ ~InHands(t) /\ ~Runs(t) /\ fired[t] = 0
  BY <1>1, IdleHas DEF Waited, Queued, InHands, Runs
<1>3. \A t \in Timers : ~Finished(t) /\ InCall(t) = 0 /\ LastCall(t) = 0
  BY <1>1, <1>2 DEF Finished, InCall, LastCall
<1>4. OnePlace
  <2>1. Distinct(ready) /\ Distinct(strand)
    BY <1>1 DEF Distinct
  <2> QED
    BY <1>1, <1>2, <2>1 DEF OnePlace, Alone, Somewhere
<1>5. OneEach /\ CountIsCurrent
  <2>1. "timer1_" \in Timers /\ "timer2_" \in Timers
    BY DEF Timers
  <2>2. \A th \in Runners : running[th] = Idle
    BY <1>1
  <2> QED
    BY <1>1, <1>2, <1>3, <2>1, <2>2, IdleHas DEF OneEach, CountIsCurrent
<1>6. /\ sender.op = "off" /\ sender.count = 0 /\ sentOut = <<>>
      /\ inflight = [r \in Receivers |-> {}] /\ received = [r \in Receivers |-> <<>>]
  BY DEF TimersInit, NewReceiver
<1>7. OneMessageAtATime /\ EachMessageOnce
  <2>1. /\ Len(sentOut) = 0 /\ DOMAIN sentOut = {} /\ 0 <= Max_Message_Count
        /\ \A r \in Receivers : inflight[r] = {} /\ DOMAIN received[r] = {}
    BY <1>6, TimersConstants
  <2>2. EachMessageOnce
    BY <1>6, <2>1 DEF EachMessageOnce
  <2>3. OneMessageAtATime
    BY <1>6, <2>1 DEF OneMessageAtATime
  <2> QED
    BY <2>2, <2>3
<1>8. TimersTypeOK
  <2>1. sender \in Senders /\ clock \in Nat
    BY DEF TimersInit, Senders
  <2>2. ready \in Seq(Timers) /\ strand \in Seq(Timers) /\ sentOut \in Seq(Nat)
    BY <1>1, <1>6
  <2>3. inflight \in [Receivers -> SUBSET Nat] /\ received \in [Receivers -> Seq(Nat)]
    BY <1>6
  <2>4. running \in [Runners -> Handlers] /\ expiry \in [Timers -> Nat] /\ fired \in [Timers -> Nat]
    BY <1>1, IdleHas
  <2> QED
    BY <1>1, <2>1, <2>2, <2>3, <2>4 DEF TimersTypeOK
<1> QED
  BY <1>4, <1>5, <1>7, <1>8 DEF TimersIInv, TimersInv

LEMMA TimersStutter == ASSUME TimersIInv, UNCHANGED timersVars PROVE TimersIInv'
<1>1. TimersStay /\ TheRest
  BY DEF timersVars, multicastVars, TimersStay, TheRest
<1>2. OneMessageAtATime' /\ EachMessageOnce'
  BY <1>1, RestStays
<1>3. TimersTypeOK'
  BY <1>1 DEF TimersStay, TheRest, TimersTypeOK, TimersIInv
<1> QED
  BY <1>1, <1>2, <1>3, SenderLeavesTimers DEF TimersIInv, TimersInv

(* The types and the inductive invariant of the timers and the sender.     *)
THEOREM TimersInvariant == TimersSpec => []TimersIInv
<1>1. ASSUME TimersIInv, [TimersNext]_timersVars PROVE TimersIInv'
  <2>1. CASE StartBlockingWait \/ StartAsyncWait
    <3>1. "wait" \in StartKinds /\ "async_wait" \in StartKinds
      BY DEF StartKinds, Waits
    <3> QED
      BY <1>1, <2>1, <3>1, StartKeeps DEF StartBlockingWait, StartAsyncWait
  <2>2. CASE StartTimers("one timer", {"timer1_"}) \/ StartTimers("two timers", Timers)
    <3>1. "one timer" \in StartKinds /\ "two timers" \in StartKinds
      BY DEF StartKinds
    <3> QED
      BY <1>1, <2>2, <3>1, StartKeeps
  <2>3. CASE StartSender
    BY <1>1, <2>3, StartSenderKeeps
  <2>4. CASE Tick
    BY <1>1, <2>4, TickKeeps
  <2>5. CASE \E t \in Timers : Expire(t)
    BY <1>1, <2>5, ExpireKeeps
  <2>6. CASE \E th \in Runners : TakeReady(th) \/ EnterStrand(th)
    BY <1>1, <2>6, TakeKeeps, EnterKeeps
  <2>7. CASE \E th \in Runners : BeginPrint(th) \/ EndPrint(th)
    BY <1>1, <2>7, BeginKeeps, EndKeeps
  <2>8. CASE \E failed \in BOOLEAN : SendCompletes(failed)
    BY <1>1, <2>8, SendKeeps
  <2>9. CASE TimeoutFires
    BY <1>1, <2>9, TimeoutKeeps
  <2>10. CASE \E r \in Receivers : \E m \in inflight[r] : Deliver(r, m)
    BY <1>1, <2>10, DeliverKeeps
  <2>11. CASE UNCHANGED timersVars
    BY <1>1, <2>11, TimersStutter
  <2> QED
    BY <1>1, <2>1, <2>2, <2>3, <2>4, <2>5, <2>6, <2>7, <2>8, <2>9, <2>10, <2>11 DEF TimersNext
<1> QED
  BY <1>1, TimersInitially, PTL DEF TimersSpec

\* As many threads run a handler as calls are not over.
LEMMA CallsThatRun ==
  ASSUME TimersIInv
  PROVE  Cardinality({th \in Runners : running[th].step = "print"})
         = InCall("timer1_") + InCall("timer2_")
<1> DEFINE T == {th \in Runners : running[th].step = "print"}
<1>1. /\ running \in [Runners -> Handlers]
      /\ \A th \in Runners : running[th].step = "print" => running[th].handler # "none"
      /\ \A th, other \in Runners :
            running[th].step = "print" /\ running[other].step = "print" => th = other
  BY Parts, IdleHas DEF OneEach
<1>2. CASE T = {}
  <2>1. InCall("timer1_") = 0 /\ InCall("timer2_") = 0
    BY <1>2 DEF InCall, Runs
  <2>2. Cardinality({}) = 0
    BY FS_EmptySet
  <2> QED
    BY <1>2, <2>1, <2>2
<1>3. ASSUME NEW th \in Runners, running[th].step = "print"
      PROVE  Cardinality(T) = InCall("timer1_") + InCall("timer2_")
  <2>1. running[th].handler \in {"timer1_", "timer2_"}
    BY <1>1, <1>3 DEF Handlers, Timers
  <2>2. \A other \in Runners : other # th => running[other].step # "print"
    BY <1>1, <1>3
  <2>3. T = {th}
    BY <1>3, <2>2
  <2>4. Cardinality({th}) = 1
    BY FS_Singleton
  <2>5. InCall("timer1_") + InCall("timer2_") = 1
    <3>1. CASE running[th].handler = "timer1_"
      <4>1. Runs("timer1_") /\ ~Runs("timer2_")
        BY <1>3, <2>2, <3>1 DEF Runs
      <4> QED
        BY <4>1 DEF InCall
    <3>2. CASE running[th].handler = "timer2_"
      <4>1. Runs("timer2_") /\ ~Runs("timer1_")
        BY <1>3, <2>2, <3>2 DEF Runs
      <4> QED
        BY <4>1 DEF InCall
    <3> QED
      BY <2>1, <3>1, <3>2
  <2> QED
    BY <2>3, <2>4, <2>5
<1> QED
  BY <1>2, <1>3

LEMMA CardinalityOfTimers ==
  Cardinality({"timer1_"}) = 1 /\ Cardinality(Timers) = 2
<1>1. Cardinality({"timer1_"}) = 1
  BY FS_Singleton
<1>2. IsFiniteSet({"timer1_"})
  BY FS_Singleton
<1>3. Cardinality({"timer1_"} \cup {"timer2_"}) = 1 + 1
  <2>1. "timer2_" \notin {"timer1_"}
    OBVIOUS
  <2> QED
    BY <1>1, <1>2, <2>1, FS_AddElement
<1>4. {"timer1_"} \cup {"timer2_"} = Timers
  BY DEF Timers
<1> QED
  BY <1>1, <1>3, <1>4

(* However the two threads take the timers and enter the strand, every     *)
(* expiry is counted up to the limit, and when nothing is left each timer  *)
(* that is used was called just once more.                                 *)
THEOREM EveryExpiryCounts == TimersSpec => []CountsEveryExpiry
<1>1. ASSUME TimersIInv, HasRun PROVE CountsEveryExpiry
  <2> DEFINE running_ == Cardinality({th \in Runners : running[th].step = "print"})
             over == fired["timer1_"] + fired["timer2_"] - running_
             used == IF kind # "two timers" THEN {"timer1_"} ELSE Timers
             nobody == /\ \A t \in Timers : expiry[t] = 0
                       /\ ready = <<>> /\ strand = <<>>
                       /\ \A th \in Runners : running[th] = Idle
  <2>1. running_ = InCall("timer1_") + InCall("timer2_")
    BY <1>1, CallsThatRun
  <2>2. used = Used /\ used \in SUBSET Timers /\ "timer1_" \in used
    BY <1>1 DEF HasRun, Used, Waits, Timers
  <2>3. /\ InCall("timer1_") \in {0, 1} /\ InCall("timer2_") \in {0, 1}
        /\ LastCall("timer1_") \in {0, 1} /\ LastCall("timer2_") \in {0, 1}
        /\ count_ \in Nat /\ count_ <= Limit /\ Limit \in Nat
        /\ fired["timer1_"] \in Nat /\ fired["timer2_"] \in Nat
        /\ fired["timer1_"] + fired["timer2_"]
           = count_ + InCall("timer1_") + InCall("timer2_")
             + LastCall("timer1_") + LastCall("timer2_")
    <3>1. /\ fired \in [Timers -> Nat] /\ count_ \in Nat
          /\ "timer1_" \in Timers /\ "timer2_" \in Timers
      BY <1>1, Parts DEF Timers
    <3> QED
      BY <1>1, <3>1, LimitIsNat DEF TimersIInv, TimersInv, CountIsCurrent, InCall, LastCall
  <2> HIDE DEF running_, used
  <2>4. over = count_ + LastCall("timer1_") + LastCall("timer2_")
    BY <2>1, <2>3
  <2> HIDE DEF over
  <2>5. ASSUME NEW t \in Timers, LastCall(t) = 1 PROVE count_ = Limit
    <3>1. Finished(t)
      BY <2>5 DEF LastCall
    <3> QED
      BY <1>1, <3>1 DEF TimersIInv, TimersInv, CountIsCurrent
  <2>6. count_ = IF over <= Limit THEN over ELSE Limit
    <3>1. CASE LastCall("timer1_") = 0 /\ LastCall("timer2_") = 0
      BY <2>3, <2>4, <3>1
    <3>2. CASE LastCall("timer1_") = 1 \/ LastCall("timer2_") = 1
      <4>1. count_ = Limit
        BY <2>5, <3>2 DEF Timers
      <4> QED
        BY <2>3, <2>4, <3>2, <4>1
    <3> QED
      BY <2>3, <3>1, <3>2
  <2>7. ASSUME nobody PROVE count_ = Limit /\ over = Limit + Cardinality(used)
    <3>1. \A t \in Timers : ~Somewhere(t)
      BY <2>7, IdleHas DEF Somewhere, Waited, Queued, InHands
    <3>2. \A t \in Timers : LastCall(t) = IF t \in used THEN 1 ELSE 0
      BY <2>2, <3>1 DEF LastCall, Finished
    <3>3. count_ = Limit
      BY <2>2, <2>5, <3>2
    <3>4. over = Limit + Cardinality(used)
      <4>1. "timer1_" \in Timers /\ "timer2_" \in Timers
        BY DEF Timers
      <4>2. CASE kind # "two timers"
        <5>1. used = {"timer1_"}
          BY <4>2 DEF used
        <5>2. LastCall("timer1_") = 1 /\ LastCall("timer2_") = 0
          BY <3>2, <4>1, <5>1
        <5> QED
          BY <2>3, <2>4, <3>3, <5>1, <5>2, CardinalityOfTimers
      <4>3. CASE kind = "two timers"
        <5>1. used = Timers
          BY <4>3 DEF used
        <5>2. LastCall("timer1_") = 1 /\ LastCall("timer2_") = 1
          BY <3>2, <4>1, <5>1
        <5> QED
          BY <2>3, <2>4, <3>3, <5>1, <5>2, CardinalityOfTimers
      <4> QED
        BY <4>2, <4>3
    <3> QED
      BY <3>3, <3>4
  <2> QED
    BY <2>6, <2>7 DEF CountsEveryExpiry, running_, over, used
<1>2. TimersIInv => CountsEveryExpiry
  BY <1>1 DEF CountsEveryExpiry
<1> QED
  BY <1>2, TimersInvariant, PTL

(* The sender's messages go out one by one, none left out and none twice;  *)
(* whatever the network loses or turns round, a receiver sees each at most *)
(* once, and the sender ends after the last or after a send that failed.   *)
THEOREM MessagesArriveOnce == TimersSpec => []EachMessageOnce
<1>1. TimersIInv => EachMessageOnce
  BY DEF TimersIInv, TimersInv
<1> QED
  BY <1>1, TimersInvariant, PTL

(* What the run of the programs checks of the timers, for all limits.      *)
THEOREM TimersCorrect == TimersSpec => []AsioTimersOK
<1>1. CountsEveryExpiry /\ TimersIInv => AsioTimersOK
  BY DEF TimersIInv, TimersInv, AsioTimersOK
<1> QED
  BY <1>1, EveryExpiryCounts, TimersInvariant, PTL
=============================================================================
