---------------------------- MODULE RelayProofs -----------------------------
(***************************************************************************)
(* Theorems about the two relay servers, for any clients, messages and     *)
(* window.  RelayInv says what the kernel's side of the connections keeps  *)
(* (KernelInv), that the descriptors a server watches are those it has     *)
(* open, and how far the loop over j has come with the message received    *)
(* last: who still lacks it and who was sent it.  Once a pass of           *)
(* poll_server is behind its vector, only the types are left.              *)
(***************************************************************************)
EXTENDS RelayServers, SequenceTheorems, FiniteSetTheorems, TLAPS

SocketTypeOK ==
    /\ conn \in [Clients -> ConnStates]
    /\ sent \in [Clients -> 0..MaxSends] /\ unread \in [Clients -> 0..Window]
    /\ inbox \in [Clients -> Seq(Messages)] /\ received \in Seq(Messages)
    /\ got \in [Clients -> Seq([msg : Messages, size : 1..Size])]
    /\ backlog \subseteq Clients /\ up \in BOOLEAN
    /\ owner \in [Fds -> Clients \cup {NoClient}]

\* A client has one connection: it waits to be accepted or has one descriptor.
Connected ==
    /\ \A c \in backlog : conn[c] # "none"
    /\ \A f \in OpenFds : conn[owner[f]] # "none" /\ owner[f] \notin backlog
    /\ \A f, g \in OpenFds : owner[f] = owner[g] => f = g

\* The messages of c: the first ones are received, the others in its inbox.
Numbered(c) ==
    /\ Len(inbox[c]) <= sent[c]
    /\ \A n \in 1..Len(inbox[c]) : inbox[c][n] = <<c, sent[c] - Len(inbox[c]) + n>>
    /\ \A p \in 1..Len(received) :
          received[p][1] = c => received[p][2] <= sent[c] - Len(inbox[c])

Distinct == \A p, q \in 1..Len(received) : received[p] = received[q] => p = q

\* What c was sent: messages of others, in the order they were received.
Ordered(c) ==
    /\ \A n \in 1..Len(got[c]) :
          /\ got[c][n].msg[1] # c
          /\ \E p \in 1..Len(received) : received[p] = got[c][n].msg
    /\ \A n \in 2..Len(got[c]) : \A p, q \in 1..Len(received) :
          received[p] = got[c][n - 1].msg /\ received[q] = got[c][n].msg => p < q

KernelInv == SocketTypeOK /\ Connected /\ Distinct /\ \A c \in Clients : Numbered(c)
InOrder == \A c \in Clients : Ordered(c)
SocketInv == KernelInv /\ InOrder

\* m is the message received last; the client behind f was not sent it.
Latest(m) == Len(received) >= 1 /\ m = received[Len(received)]
Lacks(f, m) == \A n \in 1..Len(got[owner[f]]) : got[owner[f]][n].msg # m

Entries == [fd : Fds \cup {Listener}, ready : BOOLEAN]

PollWatch ==
    /\ pfds \in Seq(Entries) /\ i \in 0..Len(pfds)
    /\ \A k \in 1..Len(pfds) : pfds[k].fd \in {Listener} \cup OpenFds
    /\ \A f \in {Listener} \cup OpenFds : \E k \in 1..Len(pfds) : pfds[k].fd = f
    /\ \A k, l \in 1..Len(pfds) : pfds[k].fd = pfds[l].fd => k = l
    /\ Len(pfds) = 1 + Cardinality(OpenFds)

\* The loop over j of poll_server.
Relays(n) ==
    [msg : Messages, sender : Fds, nbytes : 0..Size, cut : 0..n, j : 1..(n + 1)]

Before(k, cut) == cut = 0 \/ k < cut

PollRelay ==
    relay # NoRelay =>
        /\ relay \in Relays(Len(pfds)) /\ relay.cut < relay.j
        /\ relay.cut = 0 => relay.nbytes = Size
        /\ i \in 1..Len(pfds) /\ pfds[i].ready /\ pfds[i].fd # Listener
        /\ relay.sender = pfds[i].fd
        /\ Latest(relay.msg) /\ relay.msg[1] = owner[pfds[i].fd]
        /\ \A k \in 1..Len(pfds) : pfds[k].fd # Listener =>
              /\ k >= relay.j => Lacks(pfds[k].fd, relay.msg)
              /\ k < relay.j /\ k # i /\ Before(k, relay.cut)
                    => SentWhole(pfds[k].fd, relay.msg)

\* A pass of poll_server is behind the vector.
PollAstray ==
    /\ pfds \in Seq(Entries) /\ i = Len(pfds) + 2
    /\ relay # NoRelay => relay \in Relays(Len(pfds))

SelectWatch ==
    /\ master = {Listener} \cup OpenFds /\ \A f \in master : f <= maxfd
    /\ read_fds \subseteq Fds \cup {Listener} /\ maxfd \in Fds \cup {Listener}
    /\ at \in 0..maxfd
    /\ at > 0 => \A f \in read_fds : f >= at => f \in master

\* The loop over j of selectserver.
SelectCast ==
    cast # NoCast =>
        /\ cast \in [msg : Messages, j : 1..maxfd]
        /\ at > Listener /\ at \in read_fds
        /\ Latest(cast.msg) /\ cast.msg[1] = owner[at]
        /\ \A f \in OpenFds :
              /\ f >= cast.j => Lacks(f, cast.msg)
              /\ f < cast.j /\ f # at => SentWhole(f, cast.msg)

\* The program that does not run has not begun.
PollInv ==
    IF program # "poll" THEN PollInit
    ELSE IF Astray THEN PollAstray ELSE PollWatch /\ PollRelay
SelectInv == IF program = "select" THEN SelectWatch /\ SelectCast ELSE SelectInit

RelayInv == KernelInv /\ (~Astray => InOrder) /\ PollInv /\ SelectInv

USE DEF SocketInv

-----------------------------------------------------------------------------
LEMMA FdFacts ==
    /\ Cardinality(Clients) \in Nat /\ IsFiniteSet(Fds) /\ Listener = 1 /\ Listener \notin Fds
    /\ \A f \in Fds : f \in Nat /\ f > Listener
<1>1. Cardinality(Clients) \in Nat
  BY SocketConstants, FS_CardinalityType
<1>2. IsFiniteSet(Fds)
  <2>1. Cardinality(Clients) + 1 \in Int /\ 2 \in Int
    BY <1>1
  <2>2. QED
    BY <2>1, FS_Interval DEF Fds
<1>3. QED
  BY <1>1, <1>2 DEF Fds, Listener

LEMMA OpenFacts ==
    ASSUME SocketTypeOK
    PROVE  /\ OpenFds \subseteq Fds /\ IsFiniteSet(OpenFds) /\ Cardinality(OpenFds) \in Nat
           /\ Listener \notin OpenFds
           /\ \A f \in OpenFds : owner[f] \in Clients
           /\ \A f \in Fds : owner[f] \in Clients <=> f \in OpenFds
<1>1. OpenFds \subseteq Fds
  BY DEF OpenFds
<1>2. IsFiniteSet(OpenFds) /\ Cardinality(OpenFds) \in Nat
  BY <1>1, FdFacts, FS_Subset, FS_CardinalityType
<1>3. \A f \in Fds : owner[f] \in Clients <=> f \in OpenFds
  BY SocketConstants DEF SocketTypeOK, OpenFds
<1>4. QED
  BY <1>1, <1>2, <1>3, FdFacts

\* The front of a queue, and its back.
LEMMA Taken ==
    ASSUME NEW S, NEW q \in Seq(S), q # <<>>
    PROVE  /\ Head(q) \in S /\ Head(q) = q[1] /\ Len(q) \in Nat /\ Len(q) >= 1
           /\ Tail(q) \in Seq(S) /\ Len(Tail(q)) = Len(q) - 1
           /\ \A n \in 1..Len(Tail(q)) : Tail(q)[n] = q[n + 1]
BY HeadTailProperties, EmptySeq

LEMMA Added ==
    ASSUME NEW S, NEW q \in Seq(S), NEW x \in S
    PROVE  /\ Append(q, x) \in Seq(S) /\ Append(q, x) # <<>>
           /\ Len(q) \in Nat /\ Len(Append(q, x)) = Len(q) + 1
           /\ \A n \in 1..Len(q) : Append(q, x)[n] = q[n]
           /\ Append(q, x)[Len(q) + 1] = x
           /\ \A n \in 1..Len(Append(q, x)) : n \in 1..Len(q) \/ n = Len(q) + 1
<1>1. /\ Append(q, x) \in Seq(S) /\ Append(q, x) # <<>>
      /\ Len(Append(q, x)) = Len(q) + 1
      /\ \A n \in 1..Len(q) : Append(q, x)[n] = q[n]
      /\ Append(q, x)[Len(q) + 1] = x
  BY AppendProperties
<1>2. Len(q) \in Nat
  BY LenProperties
<1>3. QED
  BY <1>1, <1>2

-----------------------------------------------------------------------------
\* The clients' side, and the system calls that receive nothing.
LEMMA OrderKept ==
    ASSUME UNCHANGED <<received, got>>
    PROVE  InOrder => InOrder'
BY DEF InOrder, Ordered

LEMMA KernelKept ==
    ASSUME KernelInv, UNCHANGED socketVars
    PROVE  /\ KernelInv' /\ (InOrder => InOrder') /\ OpenFds' = OpenFds
           /\ UNCHANGED <<sent, inbox, owner, received, got, backlog, conn, up, unread>>
<1>1. UNCHANGED <<sent, inbox, owner, received, got, backlog, conn, up, unread>>
  BY DEF socketVars, peerVars
<1>2. KernelInv'
  BY <1>1 DEF KernelInv, SocketTypeOK, Connected, Distinct, Numbered, OpenFds
<1>3. QED
  BY <1>1, <1>2, OrderKept DEF OpenFds

LEMMA SocketsKept ==
    ASSUME KernelInv, UNCHANGED <<sent, inbox, owner, received, got, backlog>>, SocketTypeOK',
           \A c \in Clients : conn'[c] = "none" => conn[c] = "none"
    PROVE  KernelInv' /\ (InOrder => InOrder')
<1>1. OpenFds' = OpenFds
  BY DEF OpenFds
<1>2. Connected'
  <2>1. Connected /\ SocketTypeOK
    BY DEF KernelInv
  <2>2. \A f \in OpenFds : owner[f] \in Clients
    BY <2>1, OpenFacts
  <2>3. \A c \in backlog : c \in Clients
    BY <2>1 DEF SocketTypeOK
  <2>4. QED
    BY <1>1, <2>1, <2>2, <2>3 DEF Connected
<1>3. Distinct' /\ \A c \in Clients : Numbered(c)'
  BY DEF KernelInv, Distinct, Numbered
<1>4. QED
  BY <1>2, <1>3, OrderKept DEF KernelInv

LEMMA ClientStepSockets ==
    ASSUME KernelInv, NEW c \in Clients, ClientStep(c)
    PROVE  /\ KernelInv' /\ (InOrder => InOrder') /\ UNCHANGED <<owner, received, got>>
           /\ \A f \in OpenFds : conn'[owner[f]] = "open" => conn[owner[f]] = "open"
<1> USE DEF KernelInv
<1>1. SocketTypeOK /\ Connected /\ Numbered(c) /\ \A f \in OpenFds : owner[f] \in Clients
  BY OpenFacts
<1>2. CASE Connect(c)
  <2>1. /\ conn[c] = "none" /\ conn' = [conn EXCEPT ![c] = "open"]
        /\ backlog' = backlog \cup {c}
        /\ UNCHANGED <<sent, inbox, unread, owner, up, received, got>>
    BY <1>2 DEF Connect
  <2>2. SocketTypeOK'
    BY <1>1, <2>1 DEF SocketTypeOK, ConnStates
  <2>3. \A f \in OpenFds : owner[f] # c
    BY <1>1, <2>1 DEF Connected
  <2>4. conn'[c] = "open" /\ \A d \in Clients \ {c} : conn'[d] = conn[d]
    BY <1>1, <2>1 DEF SocketTypeOK
  <2>5. Connected'
    <3>1. OpenFds' = OpenFds
      BY <2>1 DEF OpenFds
    <3>2. \A d \in backlog : d \in Clients
      BY <1>1 DEF SocketTypeOK
    <3>3. QED
      BY <1>1, <2>1, <2>3, <2>4, <3>1, <3>2 DEF Connected
  <2>6. Distinct' /\ \A d \in Clients : Numbered(d)'
    BY <2>1 DEF Distinct, Numbered
  <2>7. QED
    BY <1>1, <2>1, <2>2, <2>3, <2>4, <2>5, <2>6, OrderKept
<1>3. CASE ClientSend(c)
  <2> DEFINE m == <<c, sent[c] + 1>>
  <2>1. /\ conn[c] = "open" /\ sent[c] < MaxSends
        /\ sent' = [sent EXCEPT ![c] = @ + 1]
        /\ inbox' = [inbox EXCEPT ![c] = Append(@, <<c, sent'[c]>>)]
        /\ UNCHANGED <<conn, unread, backlog, owner, up, received, got>>
    BY <1>3 DEF ClientSend
  <2>2. sent[c] \in Nat /\ sent'[c] = sent[c] + 1 /\ m \in Messages /\ sent[c] + 1 \in 0..MaxSends
    BY <1>1, <2>1, SocketConstants DEF SocketTypeOK, Messages
  <2>3. /\ inbox[c] \in Seq(Messages) /\ inbox'[c] = Append(inbox[c], m)
        /\ \A d \in Clients \ {c} : inbox'[d] = inbox[d] /\ sent'[d] = sent[d]
    BY <1>1, <2>1, <2>2 DEF SocketTypeOK
  <2>4. /\ inbox'[c] \in Seq(Messages) /\ Len(inbox[c]) \in Nat
        /\ Len(inbox'[c]) = Len(inbox[c]) + 1
        /\ \A n \in 1..Len(inbox[c]) : inbox'[c][n] = inbox[c][n]
        /\ inbox'[c][Len(inbox[c]) + 1] = m
        /\ \A n \in 1..Len(inbox'[c]) : n \in 1..Len(inbox[c]) \/ n = Len(inbox[c]) + 1
    BY <2>2, <2>3, Added
  <2>5. SocketTypeOK'
    <3>1. sent' \in [Clients -> 0..MaxSends]
      BY <1>1, <2>1, <2>2 DEF SocketTypeOK
    <3>2. inbox' \in [Clients -> Seq(Messages)]
      BY <1>1, <2>1, <2>3, <2>4 DEF SocketTypeOK
    <3>3. QED
      BY <1>1, <2>1, <3>1, <3>2 DEF SocketTypeOK
  <2>6. Numbered(c)'
    <3>1. PICK k \in Nat, l \in Nat : k = sent[c] /\ l = Len(inbox[c])
      BY <2>2, <2>4
    <3>2. /\ sent'[c] = k + 1 /\ Len(inbox'[c]) = l + 1 /\ l <= k
          /\ \A n \in 1..l : inbox[c][n] = <<c, k - l + n>>
          /\ \A p \in 1..Len(received) : received[p][1] = c => received[p][2] <= k - l
      BY <1>1, <2>2, <2>4, <3>1 DEF Numbered
    <3>3. k + 1 - (l + 1) = k - l /\ l + 1 <= k + 1 /\ k - l + (l + 1) = k + 1
      <4>1. l <= k
        BY <3>2
      <4>2. QED
        BY <4>1
    <3>4. \A n \in 1..(l + 1) : inbox'[c][n] = <<c, k - l + n>>
      <4>1. \A n \in 1..l : inbox'[c][n] = <<c, k - l + n>>
        BY <2>4, <3>1, <3>2
      <4>2. inbox'[c][l + 1] = <<c, k - l + (l + 1)>>
        BY <2>4, <3>1, <3>3
      <4>3. \A n \in 1..(l + 1) : n \in 1..l \/ n = l + 1
        OBVIOUS
      <4>4. QED
        BY <4>1, <4>2, <4>3
    <3>5. sent'[c] - Len(inbox'[c]) = k - l /\ Len(inbox'[c]) <= sent'[c]
      BY <3>2, <3>3
    <3>6. QED
      BY <2>1, <3>2, <3>4, <3>5 DEF Numbered
  <2>7. \A d \in Clients \ {c} : Numbered(d)'
    BY <2>1, <2>3 DEF Numbered
  <2>8. Connected'
    BY <1>1, <2>1 DEF Connected, OpenFds
  <2>9. Distinct'
    BY <2>1 DEF Distinct
  <2>10. QED
    BY <2>1, <2>5, <2>6, <2>7, <2>8, <2>9, OrderKept
<1>4. CASE ClientRead(c) \/ ClientClose(c)
  <2>1. UNCHANGED <<sent, inbox, owner, received, got, backlog, up>>
    BY <1>4 DEF ClientRead, ClientClose
  <2>2. \/ /\ unread[c] > 0 /\ unread' = [unread EXCEPT ![c] = @ - 1] /\ UNCHANGED conn
        \/ /\ \E how \in {"left", "reset"} : conn' = [conn EXCEPT ![c] = how]
           /\ UNCHANGED unread
    BY <1>4 DEF ClientRead, ClientClose
  <2>3. unread' \in [Clients -> 0..Window]
    <3>1. unread \in [Clients -> 0..Window] /\ Window \in Nat
      BY <1>1, SocketConstants DEF SocketTypeOK
    <3>2. unread[c] > 0 => unread[c] - 1 \in 0..Window
      BY <3>1
    <3>3. QED
      BY <2>2, <3>1, <3>2
  <2>4. SocketTypeOK'
    BY <1>1, <2>1, <2>2, <2>3 DEF SocketTypeOK, ConnStates
  <2>5. \A d \in Clients : conn'[d] = conn[d] \/ conn'[d] \in {"left", "reset"}
    BY <1>1, <2>2 DEF SocketTypeOK
  <2>6. QED
    BY <1>1, <2>1, <2>4, <2>5, SocketsKept
<1>5. QED
  BY <1>2, <1>3, <1>4 DEF ClientStep

-----------------------------------------------------------------------------
\* accept and close.
LEMMA AcceptSockets ==
    ASSUME KernelInv, NEW f, Accept(f)
    PROVE  /\ KernelInv' /\ (InOrder => InOrder') /\ UNCHANGED <<received, got, conn>>
           /\ f \in Fds /\ f \notin OpenFds /\ OpenFds' = OpenFds \cup {f}
           /\ \A g \in OpenFds : owner'[g] = owner[g]
<1>1. SocketTypeOK /\ Connected /\ \A g \in OpenFds : owner[g] \in Clients
  BY OpenFacts DEF KernelInv
<1>2. PICK c \in backlog : owner' = [owner EXCEPT ![f] = c] /\ backlog' = backlog \ {c}
  BY DEF Accept
<1>3. /\ f \in Fds /\ f \notin OpenFds
      /\ UNCHANGED <<conn, sent, inbox, unread, up, received, got>>
  BY DEF Accept, peerVars
<1>4. c \in Clients /\ c # NoClient /\ owner'[f] = c
      /\ \A g \in Fds \ {f} : owner'[g] = owner[g]
  BY <1>1, <1>2, <1>3, SocketConstants DEF SocketTypeOK
<1>5. OpenFds' = OpenFds \cup {f}
  BY <1>3, <1>4 DEF OpenFds
<1>6. SocketTypeOK'
  BY <1>1, <1>2, <1>3, <1>4 DEF SocketTypeOK
<1>7. \A g \in OpenFds : g \in Fds /\ g # f /\ owner'[g] = owner[g] /\ owner[g] # c
  BY <1>1, <1>3, <1>4 DEF Connected, OpenFds
<1>8. Connected'
  <2>1. \A d \in backlog' : conn'[d] # "none"
    BY <1>1, <1>2, <1>3 DEF Connected
  <2>2. \A g \in OpenFds' : conn'[owner'[g]] # "none" /\ owner'[g] \notin backlog'
    BY <1>1, <1>2, <1>3, <1>4, <1>5, <1>7 DEF Connected
  <2>3. \A g, h \in OpenFds' : owner'[g] = owner'[h] => g = h
    BY <1>1, <1>4, <1>5, <1>7 DEF Connected
  <2>4. QED
    BY <2>1, <2>2, <2>3 DEF Connected
<1>9. Distinct' /\ \A d \in Clients : Numbered(d)'
  BY <1>3 DEF KernelInv, Distinct, Numbered
<1>10. QED
  BY <1>3, <1>5, <1>6, <1>7, <1>8, <1>9, OrderKept DEF KernelInv

LEMMA CloseSockets ==
    ASSUME KernelInv, NEW f \in OpenFds, Close(f)
    PROVE  /\ KernelInv' /\ (InOrder => InOrder') /\ UNCHANGED <<received, got, conn>>
           /\ OpenFds' = OpenFds \ {f}
           /\ \A g \in OpenFds \ {f} : owner'[g] = owner[g]
<1>1. SocketTypeOK /\ Connected /\ OpenFds \subseteq Fds
  BY OpenFacts DEF KernelInv
<1>2. /\ owner' = [owner EXCEPT ![f] = NoClient]
      /\ UNCHANGED <<conn, sent, inbox, unread, backlog, up, received, got>>
  BY DEF Close, peerVars
<1>3. owner'[f] = NoClient /\ \A g \in Fds \ {f} : owner'[g] = owner[g]
  BY <1>1, <1>2 DEF SocketTypeOK
<1>4. OpenFds' = OpenFds \ {f}
  BY <1>1, <1>3 DEF OpenFds
<1>5. SocketTypeOK'
  BY <1>1, <1>2 DEF SocketTypeOK
<1>6. Connected'
  BY <1>1, <1>2, <1>3, <1>4 DEF Connected
<1>7. Distinct' /\ \A d \in Clients : Numbered(d)'
  BY <1>2 DEF KernelInv, Distinct, Numbered
<1>8. QED
  BY <1>1, <1>2, <1>3, <1>4, <1>5, <1>6, <1>7, OrderKept DEF KernelInv

-----------------------------------------------------------------------------
\* recv: a message that nobody was sent yet.
LEMMA ReceiveSockets ==
    ASSUME KernelInv, NEW f \in OpenFds, Receive(f), NEW m, m = Head(inbox[owner[f]])
    PROVE  /\ KernelInv' /\ UNCHANGED <<owner, got, conn>>
           /\ m \in Messages /\ m[1] = owner[f] /\ Latest(m)'
           /\ InOrder => InOrder' /\ \A g \in OpenFds : Lacks(g, m)
<1> DEFINE c == owner[f]
<1>1. /\ SocketTypeOK /\ Connected /\ Distinct /\ c \in Clients /\ Numbered(c)
      /\ \A g \in OpenFds : owner[g] \in Clients
  BY OpenFacts DEF KernelInv
<1>2. /\ inbox[c] # <<>> /\ inbox' = [inbox EXCEPT ![c] = Tail(@)]
      /\ received' = Append(received, m)
      /\ UNCHANGED <<conn, sent, unread, backlog, owner, up, got>>
  BY DEF Receive
<1>3. /\ inbox[c] \in Seq(Messages) /\ m \in Messages /\ m = inbox[c][1]
      /\ Len(inbox[c]) \in Nat /\ Len(inbox[c]) >= 1
      /\ Tail(inbox[c]) \in Seq(Messages) /\ Len(Tail(inbox[c])) = Len(inbox[c]) - 1
      /\ \A n \in 1..Len(Tail(inbox[c])) : Tail(inbox[c])[n] = inbox[c][n + 1]
  <2>1. inbox[c] \in Seq(Messages)
    BY <1>1 DEF SocketTypeOK
  <2>2. QED
    BY <1>2, <2>1, Taken
<1>4. /\ received \in Seq(Messages) /\ received' \in Seq(Messages) /\ Len(received) \in Nat
      /\ Len(received') = Len(received) + 1 /\ received'[Len(received) + 1] = m
      /\ \A p \in 1..Len(received) : received'[p] = received[p]
      /\ \A p \in 1..Len(received') : p \in 1..Len(received) \/ p = Len(received) + 1
  BY <1>1, <1>2, <1>3, Added DEF SocketTypeOK
<1>5. /\ inbox'[c] = Tail(inbox[c]) /\ \A d \in Clients \ {c} : inbox'[d] = inbox[d]
  BY <1>1, <1>2 DEF SocketTypeOK
<1>6. PICK k \in Nat, l \in Nat, r \in Nat : k = sent[c] /\ l = Len(inbox[c]) /\ r = Len(received)
  BY <1>1, <1>3, <1>4, SocketConstants DEF SocketTypeOK
<1>7. /\ l <= k /\ l >= 1 /\ m = <<c, k - l + 1>>
      /\ \A n \in 1..l : inbox[c][n] = <<c, k - l + n>>
      /\ \A p \in 1..r : received[p][1] = c => received[p][2] <= k - l
  <2>1. /\ l <= k /\ \A n \in 1..l : inbox[c][n] = <<c, k - l + n>>
        /\ \A p \in 1..r : received[p][1] = c => received[p][2] <= k - l
    BY <1>1, <1>6 DEF Numbered
  <2>2. l >= 1 /\ 1 \in 1..l
    BY <1>3, <1>6
  <2>3. QED
    BY <1>3, <2>1, <2>2
<1>8. m[1] = c /\ m[2] = k - l + 1
  BY <1>7
<1>9. \A p \in 1..r : received[p] # m
  <2>1. ASSUME NEW p \in 1..r, received[p] = m PROVE FALSE
    <3>1. k - l + 1 <= k - l
      BY <1>7, <1>8, <2>1
    <3>2. QED
      BY <3>1
  <2>2. QED
    BY <2>1
<1>10. Latest(m)'
  <2>1. Len(received') >= 1 /\ received'[Len(received')] = m
    BY <1>4
  <2>2. QED
    BY <2>1 DEF Latest
<1>11. InOrder => \A g \in OpenFds : Lacks(g, m)
  <2>1. ASSUME InOrder, NEW g \in OpenFds, NEW n \in 1..Len(got[owner[g]]), got[owner[g]][n].msg = m
        PROVE  FALSE
    <3>1. Ordered(owner[g])
      BY <1>1, <2>1 DEF InOrder
    <3>2. PICK p \in 1..Len(received) : received[p] = m
      BY <2>1, <3>1 DEF Ordered
    <3>3. QED
      BY <1>6, <1>9, <3>2
  <2>2. QED
    BY <2>1 DEF Lacks
<1>12. SocketTypeOK'
  BY <1>1, <1>2, <1>3, <1>4 DEF SocketTypeOK
<1>13. Connected'
  BY <1>1, <1>2 DEF Connected, OpenFds
<1>14. Distinct'
  <2>1. \A p, q \in 1..Len(received) : received'[p] = received'[q] => p = q
    BY <1>1, <1>4 DEF Distinct
  <2>2. \A p \in 1..Len(received) : received'[p] # received'[Len(received) + 1]
    BY <1>4, <1>6, <1>9
  <2>3. QED
    BY <1>4, <2>1, <2>2 DEF Distinct
<1>15. Numbered(c)'
  <2>1. Len(inbox'[c]) = l - 1 /\ sent'[c] = k
    BY <1>2, <1>3, <1>5, <1>6
  <2>2. k - (l - 1) = k - l + 1 /\ l - 1 <= k /\ l - 1 \in Nat
    BY <1>7
  <2>3. ASSUME NEW n \in 1..(l - 1) PROVE inbox'[c][n] = <<c, k - l + 1 + n>>
    <3>1. n + 1 \in 1..l /\ k - l + (n + 1) = k - l + 1 + n
      BY <2>3
    <3>2. inbox'[c][n] = inbox[c][n + 1]
      BY <1>3, <1>5, <1>6, <2>1
    <3>3. QED
      BY <1>7, <3>1, <3>2
  <2>4. ASSUME NEW p \in 1..Len(received'), received'[p][1] = c
        PROVE  received'[p][2] <= k - l + 1
    <3>1. CASE p \in 1..r
      <4>1. received'[p] = received[p] /\ received[p] \in Messages
        BY <1>4, <1>6, <3>1, ElementOfSeq
      <4>2. received[p][2] <= k - l /\ received[p][2] \in Nat
        BY <1>7, <2>4, <3>1, <4>1, SocketConstants DEF Messages
      <4>3. \A x \in Nat : x <= k - l => x <= k - l + 1
        OBVIOUS
      <4>4. QED
        BY <4>1, <4>2, <4>3
    <3>2. CASE p = r + 1
      BY <1>4, <1>6, <1>8, <3>2
    <3>3. QED
      BY <1>4, <1>6, <3>1, <3>2
  <2>5. sent'[c] - Len(inbox'[c]) = k - l + 1 /\ Len(inbox'[c]) <= sent'[c]
    BY <2>1, <2>2
  <2>6. \A n \in 1..Len(inbox'[c]) : inbox'[c][n] = <<c, sent'[c] - Len(inbox'[c]) + n>>
    BY <2>1, <2>3, <2>5
  <2>7. \A p \in 1..Len(received') :
            received'[p][1] = c => received'[p][2] <= sent'[c] - Len(inbox'[c])
    BY <2>4, <2>5
  <2>8. QED
    BY <1>2, <2>5, <2>6, <2>7 DEF Numbered
<1>16. \A d \in Clients \ {c} : Numbered(d)'
  <2>1. ASSUME NEW d \in Clients \ {c} PROVE Numbered(d)'
    <3>1. Numbered(d)
      BY DEF KernelInv
    <3>2. \A p \in 1..Len(received') : received'[p][1] = d => p \in 1..Len(received)
      BY <1>4, <1>8
    <3>3. QED
      BY <1>2, <1>4, <1>5, <3>1, <3>2 DEF Numbered
  <2>2. QED
    BY <2>1
<1>17. InOrder => InOrder'
  <2>1. ASSUME InOrder, NEW d \in Clients PROVE Ordered(d)'
    <3>1. Ordered(d) /\ got'[d] = got[d]
      BY <1>2, <2>1 DEF InOrder
    <3>2. \A p \in 1..Len(received) : p \in 1..Len(received')
      BY <1>4
    <3>3. ASSUME NEW n \in 1..Len(got[d]) PROVE \E p \in 1..Len(received') : received'[p] = got[d][n].msg
      <4>1. PICK p \in 1..Len(received) : received[p] = got[d][n].msg
        BY <3>1 DEF Ordered
      <4>2. QED
        BY <1>4, <3>2, <4>1
    <3>4. \A n \in 1..Len(got[d]) : got[d][n].msg # m
      BY <1>6, <1>9, <3>1 DEF Ordered
    <3>5. ASSUME NEW n \in 2..Len(got[d]), NEW p \in 1..Len(received'), NEW q \in 1..Len(received'),
                 received'[p] = got[d][n - 1].msg, received'[q] = got[d][n].msg
          PROVE  p < q
      <4>1. n \in 1..Len(got[d]) /\ n - 1 \in 1..Len(got[d])
        BY <3>5
      <4>2. p \in 1..Len(received) /\ q \in 1..Len(received)
        BY <1>4, <3>4, <3>5, <4>1
      <4>3. received[p] = got[d][n - 1].msg /\ received[q] = got[d][n].msg
        BY <1>4, <3>5, <4>2
      <4>4. QED
        BY <3>1, <4>2, <4>3 DEF Ordered
    <3>6. QED
      BY <3>1, <3>3, <3>5 DEF Ordered
  <2>2. QED
    BY <2>1 DEF InOrder
<1>18. QED
  BY <1>2, <1>3, <1>8, <1>10, <1>11, <1>12, <1>13, <1>14, <1>15, <1>16, <1>17 DEF KernelInv

-----------------------------------------------------------------------------
\* send: the client behind f is sent a message, perhaps that received last.
LEMMA SendSockets ==
    ASSUME KernelInv, NEW f \in OpenFds, NEW m \in Messages, NEW n \in 1..Size, Send(f, m, n)
    PROVE  /\ KernelInv' /\ UNCHANGED <<owner, received>>
           /\ InOrder /\ Latest(m) /\ Lacks(f, m) /\ m[1] # owner[f] => InOrder'
           /\ \A g \in OpenFds \ {f} : /\ got'[owner[g]] = got[owner[g]]
                                       /\ conn'[owner[g]] = conn[owner[g]]
           /\ n = Size => SentWhole(f, m)'
<1> DEFINE x == [msg |-> m, size |-> n]
<1>0. PICK c \in Clients : c = owner[f]
  BY OpenFacts DEF KernelInv
<1>1. /\ SocketTypeOK /\ Connected /\ Distinct
      /\ \A g \in OpenFds : owner[g] \in Clients
      /\ \A g \in OpenFds \ {f} : owner[g] # c
  BY <1>0, OpenFacts DEF KernelInv, Connected
<1>2. UNCHANGED <<sent, inbox, backlog, owner, up, received>>
  BY DEF Send
<1>3. CASE /\ conn[c] = "open" /\ unread[c] < Window
           /\ unread' = [unread EXCEPT ![c] = @ + 1]
           /\ got' = [got EXCEPT ![c] = Append(@, x)] /\ UNCHANGED conn
  <2>1. /\ got[c] \in Seq([msg : Messages, size : 1..Size]) /\ x.msg = m
        /\ x \in [msg : Messages, size : 1..Size]
    BY <1>1 DEF SocketTypeOK
  <2>2. /\ got'[c] = Append(got[c], x)
        /\ \A d \in Clients \ {c} : got'[d] = got[d]
    BY <1>1, <1>3 DEF SocketTypeOK
  <2>3. /\ got'[c] \in Seq([msg : Messages, size : 1..Size])
        /\ Len(got[c]) \in Nat /\ Len(got'[c]) = Len(got[c]) + 1 /\ got'[c] # <<>>
        /\ \A k \in 1..Len(got[c]) : got'[c][k] = got[c][k]
        /\ got'[c][Len(got[c]) + 1] = x
        /\ \A k \in 1..Len(got'[c]) : k \in 1..Len(got[c]) \/ k = Len(got[c]) + 1
    <3> HIDE DEF x
    <3>1. PICK q \in Seq([msg : Messages, size : 1..Size]) : q = got[c]
      BY <2>1
    <3>2. QED
      BY <2>1, <2>2, <3>1, Added
  <2>4. unread' \in [Clients -> 0..Window]
    <3>1. unread \in [Clients -> 0..Window] /\ Window \in Nat
      BY <1>1, SocketConstants DEF SocketTypeOK
    <3>2. unread[c] + 1 \in 0..Window
      BY <1>1, <1>3, <3>1
    <3>3. QED
      BY <1>3, <3>1, <3>2
  <2>5. got' \in [Clients -> Seq([msg : Messages, size : 1..Size])]
    BY <1>1, <1>3, <2>2, <2>3 DEF SocketTypeOK
  <2>6. SocketTypeOK'
    BY <1>1, <1>2, <1>3, <2>4, <2>5 DEF SocketTypeOK
  <2>7. Connected' /\ Distinct' /\ \A d \in Clients : Numbered(d)'
    <3>1. Connected' /\ Distinct'
      BY <1>1, <1>2, <1>3 DEF Connected, Distinct, OpenFds
    <3>2. \A d \in Clients : Numbered(d)'
      BY <1>2 DEF KernelInv, Numbered
    <3>3. QED
      BY <3>1, <3>2
  <2>8. ASSUME Ordered(c), Latest(m), Lacks(f, m), m[1] # owner[f] PROVE Ordered(c)'
    <3>1. PICK r \in Nat, l \in Nat : r = Len(received) /\ l = Len(got[c])
      BY <1>1, <2>3, LenProperties DEF SocketTypeOK
    <3>2. r \in 1..Len(received) /\ received[r] = m /\ r = Len(received)
      BY <2>8, <3>1 DEF Latest
    <3>3. ASSUME NEW k \in 1..Len(got'[c])
          PROVE  got'[c][k].msg[1] # c /\ \E p \in 1..Len(received) : received[p] = got'[c][k].msg
      <4>1. CASE k \in 1..l
        BY <2>3, <2>8, <3>1, <4>1 DEF Ordered
      <4>2. CASE k = l + 1
        BY <1>0, <2>1, <2>3, <2>8, <3>1, <3>2, <4>2
      <4>3. QED
        BY <2>3, <3>1, <4>1, <4>2
    <3>4. ASSUME NEW k \in 2..Len(got'[c]), NEW p \in 1..Len(received), NEW q \in 1..Len(received),
                 received[p] = got'[c][k - 1].msg, received[q] = got'[c][k].msg
          PROVE  p < q
      <4>1. CASE k \in 1..l
        <5>1. k \in 2..l /\ k - 1 \in 1..l
          BY <4>1
        <5>2. got'[c][k - 1] = got[c][k - 1] /\ got'[c][k] = got[c][k]
          <6>1. \A h \in 1..l : got'[c][h] = got[c][h]
            BY <2>3, <3>1
          <6>2. QED
            BY <4>1, <5>1, <6>1
        <5>3. QED
          BY <2>8, <3>1, <3>4, <5>1, <5>2 DEF Ordered
      <4>2. CASE k = l + 1
        <5>1. k - 1 \in 1..l
          BY <4>2
        <5>2. received[p] # m
          BY <1>0, <2>3, <2>8, <3>1, <3>4, <5>1 DEF Lacks
        <5>3. q = r
          <6>1. received[q] = m
            BY <2>1, <2>3, <3>1, <3>4, <4>2
          <6>2. QED
            BY <1>1, <3>2, <6>1 DEF Distinct
        <5>4. p # r
          BY <3>2, <5>2
        <5>5. QED
          BY <3>1, <5>3, <5>4
      <4>3. QED
        BY <2>3, <3>1, <4>1, <4>2
    <3>5. received' = received
      BY <1>2
    <3>6. \A k \in 2..Len(got'[c]) : \A p, q \in 1..Len(received) :
             received[p] = got'[c][k - 1].msg /\ received[q] = got'[c][k].msg => p < q
      BY <3>4
    <3>7. QED
      BY <3>3, <3>5, <3>6 DEF Ordered
  <2>9. ASSUME NEW d \in Clients \ {c}, Ordered(d) PROVE Ordered(d)'
    <3>1. Ordered(d) /\ got'[d] = got[d] /\ received' = received
      BY <1>2, <2>2, <2>9
    <3>2. QED
      BY <3>1 DEF Ordered
  <2>10. n = Size => SentWhole(f, m)'
    <3>1. Last(got'[c]) = x
      BY <2>3 DEF Last
    <3>2. owner'[f] = c
      BY <1>0, <1>2
    <3>3. QED
      BY <2>3, <3>1, <3>2 DEF SentWhole
  <2>11. \A g \in OpenFds \ {f} : /\ got'[owner[g]] = got[owner[g]]
                                  /\ conn'[owner[g]] = conn[owner[g]]
    BY <1>1, <1>3, <2>2
  <2>12. KernelInv'
    BY <2>6, <2>7 DEF KernelInv
  <2>13. InOrder /\ Latest(m) /\ Lacks(f, m) /\ m[1] # owner[f] => InOrder'
    BY <2>8, <2>9 DEF InOrder
  <2>14. QED
    BY <1>2, <2>10, <2>11, <2>12, <2>13
<1>4. CASE conn[c] = "left" /\ conn' = [conn EXCEPT ![c] = "broken"] /\ UNCHANGED <<unread, got>>
  <2>1. SocketTypeOK'
    BY <1>1, <1>2, <1>4 DEF SocketTypeOK, ConnStates
  <2>2. conn'[c] = "broken" /\ \A d \in Clients \ {c} : conn'[d] = conn[d]
    BY <1>1, <1>4 DEF SocketTypeOK
  <2>3. KernelInv' /\ (InOrder => InOrder')
    BY <1>2, <1>4, <2>1, <2>2, SocketsKept
  <2>4. SentWhole(f, m)'
    BY <1>0, <1>2, <2>2 DEF SentWhole
  <2>5. QED
    BY <1>1, <1>2, <1>4, <2>2, <2>3, <2>4
<1>5. QED
  BY <1>0, <1>3, <1>4 DEF Send

LEMMA FailSockets ==
    ASSUME KernelInv, NEW f \in OpenFds, SendFails(f)
    PROVE  /\ KernelInv' /\ (InOrder => InOrder') /\ UNCHANGED <<owner, received, got>>
           /\ \A g \in OpenFds \ {f} : conn'[owner[g]] = conn[owner[g]]
           /\ conn'[owner[f]] = "broken"
<1> DEFINE c == owner[f]
<1>1. /\ SocketTypeOK /\ Connected /\ c \in Clients
      /\ \A g \in OpenFds : owner[g] \in Clients
      /\ \A g \in OpenFds \ {f} : owner[g] # c
  BY OpenFacts DEF KernelInv, Connected
<1>2. /\ conn' = [conn EXCEPT ![c] = "broken"]
      /\ UNCHANGED <<sent, inbox, unread, backlog, owner, up, received, got>>
  BY DEF SendFails
<1>3. SocketTypeOK'
  BY <1>1, <1>2 DEF SocketTypeOK, ConnStates
<1>4. conn'[c] = "broken" /\ \A d \in Clients \ {c} : conn'[d] = conn[d]
  BY <1>1, <1>2 DEF SocketTypeOK
<1>5. KernelInv' /\ (InOrder => InOrder')
  BY <1>2, <1>3, <1>4, SocketsKept
<1>6. QED
  BY <1>1, <1>2, <1>4, <1>5

LEMMA KilledSockets ==
    ASSUME KernelInv, up' = FALSE, UNCHANGED <<peerVars, backlog, owner, received, got>>
    PROVE  KernelInv' /\ (InOrder => InOrder') /\ UNCHANGED <<owner, received, got, conn>>
<1>1. UNCHANGED <<conn, sent, inbox, unread, backlog, owner, received, got>> /\ up' = FALSE
  BY DEF peerVars
<1>2. SocketTypeOK'
  BY <1>1 DEF KernelInv, SocketTypeOK
<1>3. QED
  BY <1>1, <1>2, SocketsKept

-----------------------------------------------------------------------------
\* What a step that changes neither the descriptors nor the histories leaves.
LEMMA SentWholeKept ==
    ASSUME NEW g, NEW m, owner'[g] = owner[g], got'[owner[g]] = got[owner[g]],
           conn'[owner[g]] = "open" => conn[owner[g]] = "open", SentWhole(g, m)
    PROVE  SentWhole(g, m)'
BY DEF SentWhole

LEMMA PollKept ==
    ASSUME SocketTypeOK, PollWatch, PollRelay, UNCHANGED <<pollVars, owner, received, got>>,
           \A f \in OpenFds : conn'[owner[f]] = "open" => conn[owner[f]] = "open"
    PROVE  PollWatch' /\ PollRelay'
<1>1. OpenFds' = OpenFds /\ UNCHANGED <<pfds, i, relay, owner, received, got>>
  BY DEF OpenFds, pollVars
<1>2. PollWatch'
  BY <1>1 DEF PollWatch
<1>3. CASE relay = NoRelay
  BY <1>1, <1>2, <1>3 DEF PollRelay
<1>4. CASE relay # NoRelay
  <2>1. /\ relay \in Relays(Len(pfds)) /\ relay.cut < relay.j
        /\ relay.cut = 0 => relay.nbytes = Size
        /\ i \in 1..Len(pfds) /\ pfds[i].ready /\ pfds[i].fd # Listener
        /\ relay.sender = pfds[i].fd
        /\ Latest(relay.msg) /\ relay.msg[1] = owner[pfds[i].fd]
    BY <1>4 DEF PollRelay
  <2>2. Latest(relay.msg)'
    BY <1>1, <2>1 DEF Latest
  <2>3. ASSUME NEW k \in 1..Len(pfds), pfds[k].fd # Listener
        PROVE  /\ k >= relay.j => Lacks(pfds[k].fd, relay.msg)'
               /\ k < relay.j /\ k # i /\ Before(k, relay.cut)
                    => SentWhole(pfds[k].fd, relay.msg)'
    <3>1. PICK g \in OpenFds : g = pfds[k].fd
      BY <2>3 DEF PollWatch
    <3>2. k >= relay.j => Lacks(g, relay.msg)'
      <4>1. k >= relay.j => Lacks(g, relay.msg)
        BY <1>4, <2>3, <3>1 DEF PollRelay
      <4>2. QED
        BY <1>1, <4>1 DEF Lacks
    <3>3. k < relay.j /\ k # i /\ Before(k, relay.cut) => SentWhole(g, relay.msg)'
      <4>1. k < relay.j /\ k # i /\ Before(k, relay.cut) => SentWhole(g, relay.msg)
        BY <1>4, <2>3, <3>1 DEF PollRelay
      <4>2. QED
        BY <1>1, <4>1 DEF SentWhole
    <3>4. QED
      BY <1>1, <3>1, <3>2, <3>3
  <2>4. \A k \in 1..Len(pfds) : pfds[k].fd # Listener =>
               /\ k >= relay.j => Lacks(pfds[k].fd, relay.msg)'
               /\ k < relay.j /\ k # i /\ Before(k, relay.cut)
                    => SentWhole(pfds[k].fd, relay.msg)'
    BY <2>3
  <2>5. PollRelay'
    <3>1. /\ relay' \in Relays(Len(pfds')) /\ relay'.cut < relay'.j
          /\ relay'.cut = 0 => relay'.nbytes = Size
          /\ i' \in 1..Len(pfds') /\ pfds'[i'].ready /\ pfds'[i'].fd # Listener
          /\ relay'.sender = pfds'[i'].fd /\ relay'.msg[1] = owner'[pfds'[i'].fd]
      BY <1>1, <2>1 DEF Relays
    <3>2. \A k \in 1..Len(pfds') : pfds'[k].fd # Listener =>
              /\ k >= relay'.j => Lacks(pfds[k].fd, relay.msg)'
              /\ k < relay'.j /\ k # i' /\ Before(k, relay'.cut)
                    => SentWhole(pfds[k].fd, relay.msg)'
      BY <1>1, <2>4
    <3>3. QED
      BY <2>2, <3>1, <3>2, Zenon DEF PollRelay
  <2>6. QED
    BY <1>2, <2>5
<1>5. QED
  BY <1>3, <1>4

-----------------------------------------------------------------------------
\* poll_server: the pass over pfds while no message is relayed.
LEMMA AdvanceRange ==
    ASSUME NEW s, Len(s) \in Nat, i \in 0..Len(s), Advance(s)
    PROVE  i' \in 0..Len(s)
BY DEF Advance

\* Once behind the vector, a pass stays there.
LEMMA AdvanceAstray ==
    ASSUME NEW s, Len(s) \in Nat, i \in Nat, i > Len(s), Advance(s)
    PROVE  i' = Len(s) + 2
BY DEF Advance

LEMMA PollPreserves ==
    ASSUME SocketInv, PollWatch, PollRelay, Poll
    PROVE  SocketInv' /\ PollWatch' /\ PollRelay'
<1>1. /\ i = 0 /\ i' = 1 /\ UNCHANGED socketVars /\ relay' = relay
      /\ pfds' = [k \in 1..Len(pfds) |-> [pfds[k] EXCEPT !.ready = Readable(pfds[k].fd)]]
      /\ \E k \in 1..Len(pfds) : Readable(pfds[k].fd)
  BY DEF Poll
<1>2. UNCHANGED <<sent, inbox, owner, received, got, backlog, conn, up, unread>>
  BY <1>1 DEF socketVars, peerVars
<1>3. SocketInv'
  BY <1>1, KernelKept
<1>4. relay = NoRelay
  BY <1>1 DEF PollRelay
<1>5. \A f : Readable(f) \in BOOLEAN
  BY DEF Readable
<1>6. pfds \in Seq(Entries) /\ Len(pfds) \in Nat /\ \A k \in 1..Len(pfds) : pfds[k] \in Entries
  BY LenProperties, ElementOfSeq DEF PollWatch, Entries
<1>7. \A k \in 1..Len(pfds) : pfds'[k] \in Entries /\ pfds'[k].fd = pfds[k].fd
  BY <1>1, <1>5, <1>6 DEF Entries
<1>8. DOMAIN pfds' = 1..Len(pfds) /\ pfds' = [k \in DOMAIN pfds' |-> pfds'[k]]
  BY <1>1
<1>9. pfds' \in Seq(Entries)
  BY <1>6, <1>7, <1>8, SeqDef
<1>10. Len(pfds') = Len(pfds)
  <2>1. Len(pfds') \in Nat /\ DOMAIN pfds' = 1..Len(pfds')
    BY <1>9, LenProperties
  <2>2. QED
    BY <1>6, <1>8, <2>1
<1>11. OpenFds' = OpenFds
  BY <1>2 DEF OpenFds
<1>12. PollWatch'
  <2>1. Len(pfds) >= 1
    BY <1>1, <1>6
  <2>2. i' \in 0..Len(pfds')
    BY <1>1, <1>6, <1>10, <2>1
  <2>3. \A k \in 1..Len(pfds') : pfds'[k].fd \in {Listener} \cup OpenFds'
    BY <1>7, <1>10, <1>11 DEF PollWatch
  <2>4. \A f \in {Listener} \cup OpenFds' : \E k \in 1..Len(pfds') : pfds'[k].fd = f
    BY <1>7, <1>10, <1>11 DEF PollWatch
  <2>5. \A k, l \in 1..Len(pfds') : pfds'[k].fd = pfds'[l].fd => k = l
    BY <1>7, <1>10 DEF PollWatch
  <2>6. Len(pfds') = 1 + Cardinality(OpenFds')
    BY <1>10, <1>11 DEF PollWatch
  <2>7. QED
    BY <1>9, <2>2, <2>3, <2>4, <2>5, <2>6 DEF PollWatch, Entries
<1>13. QED
  BY <1>1, <1>3, <1>4, <1>12 DEF PollRelay

LEMMA SkipPreserves ==
    ASSUME SocketInv, PollWatch, PollRelay, Skip(pfds[i])
    PROVE  SocketInv' /\ PollWatch' /\ PollRelay'
<1>1. ~pfds[i].ready /\ Advance(pfds) /\ UNCHANGED <<socketVars, pfds, relay>>
  BY DEF Skip
<1>2. SocketInv' /\ OpenFds' = OpenFds
  BY <1>1, KernelKept
<1>3. relay = NoRelay
  BY <1>1 DEF PollRelay
<1>4. i' \in 0..Len(pfds)
  BY <1>1, AdvanceRange, LenProperties DEF PollWatch
<1>5. PollWatch'
  BY <1>1, <1>2, <1>4 DEF PollWatch
<1>6. QED
  BY <1>1, <1>2, <1>3, <1>5 DEF PollRelay

LEMMA AcceptNewPreserves ==
    ASSUME SocketInv, PollWatch, PollRelay, AcceptNew(pfds[i])
    PROVE  SocketInv' /\ PollWatch' /\ PollRelay'
<1>1. /\ relay = NoRelay /\ Advance(pfds') /\ relay' = relay
      /\ \/ \E f \in Fds : Accept(f) /\ pfds' = Append(pfds, make_pollfd(f))
         \/ UNCHANGED <<socketVars, pfds>>
  BY DEF AcceptNew
<1>3. pfds \in Seq(Entries) /\ Len(pfds) \in Nat /\ i \in 0..Len(pfds)
  BY LenProperties DEF PollWatch
<1>4. CASE UNCHANGED <<socketVars, pfds>>
  <2>1. SocketInv' /\ OpenFds' = OpenFds
    BY <1>4, KernelKept
  <2>2. i' \in 0..Len(pfds)
    BY <1>1, <1>3, <1>4, AdvanceRange
  <2>3. PollWatch'
    BY <1>4, <2>1, <2>2 DEF PollWatch
  <2>4. QED
    BY <1>1, <2>1, <2>3 DEF PollRelay
<1>5. ASSUME NEW f \in Fds, Accept(f), pfds' = Append(pfds, make_pollfd(f))
      PROVE  SocketInv' /\ PollWatch'
  <2>1. /\ SocketInv' /\ f \notin OpenFds /\ OpenFds' = OpenFds \cup {f}
    BY <1>5, AcceptSockets
  <2>2. make_pollfd(f) \in Entries /\ make_pollfd(f).fd = f
    BY DEF make_pollfd, Entries
  <2>3. /\ pfds' \in Seq(Entries) /\ Len(pfds') = Len(pfds) + 1
        /\ \A n \in 1..Len(pfds) : pfds'[n] = pfds[n]
        /\ pfds'[Len(pfds) + 1] = make_pollfd(f)
        /\ \A n \in 1..Len(pfds') : n \in 1..Len(pfds) \/ n = Len(pfds) + 1
    BY <1>3, <1>5, <2>2, Added
  <2>4. /\ IsFiniteSet(OpenFds) /\ Cardinality(OpenFds) \in Nat /\ Listener \notin OpenFds
        /\ f # Listener
    BY OpenFacts, FdFacts DEF KernelInv
  <2>5. Cardinality(OpenFds') = Cardinality(OpenFds) + 1
    BY <2>1, <2>4, FS_AddElement
  <2>6. i' \in 0..Len(pfds')
    <3>1. Len(pfds') \in Nat /\ i \in 0..Len(pfds')
      BY <1>3, <2>3
    <3>2. QED
      BY <1>1, <3>1, AdvanceRange
  <2>7. \A n \in 1..Len(pfds) : n \in 1..Len(pfds') /\ pfds[n].fd # f
    BY <1>3, <2>1, <2>3, <2>4 DEF PollWatch
  <2>8. Len(pfds) + 1 \in 1..Len(pfds') /\ pfds'[Len(pfds) + 1].fd = f
    BY <1>3, <2>2, <2>3
  <2>9. \A k \in 1..Len(pfds') : pfds'[k].fd \in {Listener} \cup OpenFds'
    BY <2>1, <2>3, <2>8 DEF PollWatch
  <2>10. \A g \in {Listener} \cup OpenFds' : \E k \in 1..Len(pfds') : pfds'[k].fd = g
    <3>1. ASSUME NEW g \in {Listener} \cup OpenFds PROVE \E k \in 1..Len(pfds') : pfds'[k].fd = g
      <4>1. PICK k \in 1..Len(pfds) : pfds[k].fd = g
        BY DEF PollWatch
      <4>2. QED
        BY <2>3, <2>7, <4>1
    <3>2. \E k \in 1..Len(pfds') : pfds'[k].fd = f
      BY <2>8
    <3>3. QED
      BY <2>1, <3>1, <3>2
  <2>11. \A k, l \in 1..Len(pfds') : pfds'[k].fd = pfds'[l].fd => k = l
    <3>1. \A k, l \in 1..Len(pfds) : pfds'[k].fd = pfds'[l].fd => k = l
      BY <2>3 DEF PollWatch
    <3>2. \A k \in 1..Len(pfds) : pfds'[k].fd # pfds'[Len(pfds) + 1].fd
      BY <2>3, <2>7, <2>8
    <3>3. QED
      BY <2>3, <3>1, <3>2
  <2>12. Len(pfds') = 1 + Cardinality(OpenFds')
    BY <2>3, <2>4, <2>5 DEF PollWatch
  <2>13. PollWatch'
    BY <2>3, <2>6, <2>9, <2>10, <2>11, <2>12 DEF PollWatch, Entries
  <2>14. QED
    BY <2>1, <2>13
<1>6. QED
  BY <1>1, <1>4, <1>5 DEF PollRelay

\* What del_from_pfds leaves, also when k is behind the vector.
LEMMA Removed ==
    ASSUME NEW S, pfds \in Seq(S), pfds # <<>>, NEW k \in Nat, NEW q, q = del_from_pfds(k)
    PROVE  /\ q \in Seq(S) /\ Len(q) = Len(pfds) - 1 /\ Len(q) \in Nat
           /\ \A n \in 1..(Len(pfds) - 1) : /\ n = k => q[n] = pfds[Len(pfds)]
                                            /\ n # k => q[n] = pfds[n]
<1>1. PICK l \in Nat : l = Len(pfds) /\ l >= 1
  <2>1. Len(pfds) \in Nat /\ Len(pfds) >= 1
    BY LenProperties, EmptySeq
  <2>2. QED
    BY <2>1, Zenon
<1>2. \A n \in 1..l : pfds[n] \in S
  BY <1>1, ElementOfSeq
<1>3. q = [n \in 1..(l - 1) |-> IF n = k THEN pfds[l] ELSE pfds[n]]
  BY <1>1 DEF del_from_pfds, Last
<1>4. PICK r \in Nat : r = l - 1
  BY <1>1
<1>5. /\ DOMAIN q = 1..r
      /\ \A n \in 1..r : q[n] = IF n = k THEN pfds[l] ELSE pfds[n]
  BY <1>3, <1>4
<1>6. \A n \in 1..r : n \in 1..l /\ l \in 1..l
  BY <1>1, <1>4
<1>7. \A n \in 1..r : q[n] \in S
  BY <1>2, <1>5, <1>6
<1>8. q \in [1..r -> S]
  BY <1>3, <1>4, <1>7
<1>9. q \in Seq(S)
  BY <1>4, <1>8, SeqDef
<1>10. Len(q) = r
  <2>1. Len(q) \in Nat /\ DOMAIN q = 1..Len(q)
    BY <1>9, LenProperties
  <2>2. QED
    BY <1>4, <1>5, <2>1
<1>11. QED
  BY <1>1, <1>4, <1>5, <1>9, <1>10

LEMMA HangUpPreserves ==
    ASSUME SocketInv, PollWatch, PollRelay, i > 0, HangUp(pfds[i])
    PROVE  SocketInv' /\ ((PollWatch' /\ PollRelay') \/ PollAstray')
<1>1. /\ pfds[i].fd # Listener /\ relay = NoRelay /\ pfds # <<>>
      /\ IF pfds[i].fd \in OpenFds
         THEN NothingToReceive(pfds[i].fd) /\ Close(pfds[i].fd) ELSE UNCHANGED socketVars
      /\ pfds' = del_from_pfds(i) /\ Advance(pfds') /\ relay' = relay
  BY DEF HangUp
<1>2. /\ pfds \in Seq(Entries) /\ Len(pfds) \in Nat /\ i \in 1..Len(pfds)
  <2>1. pfds \in Seq(Entries) /\ Len(pfds) \in Nat /\ i \in 0..Len(pfds)
    BY LenProperties DEF PollWatch
  <2>2. QED
    BY <2>1
<1>3. PICK f \in OpenFds : f = pfds[i].fd
  BY <1>1, <1>2 DEF PollWatch
<1>4. SocketInv' /\ OpenFds' = OpenFds \ {f}
  <2>1. Close(f)
    BY <1>1, <1>3
  <2>2. QED
    BY <2>1, CloseSockets
<1>5. PICK l \in Nat, k \in Nat : l = Len(pfds) /\ k = i /\ k \in 1..l
  BY <1>2
<1>6. /\ pfds' \in Seq(Entries) /\ Len(pfds') = l - 1
      /\ \A n \in 1..(l - 1) : (n = k => pfds'[n] = pfds[l]) /\ (n # k => pfds'[n] = pfds[n])
  BY <1>1, <1>2, <1>5, Removed
<1>7. \A n \in 1..l : n # k => pfds[n].fd \in {Listener} \cup (OpenFds \ {f})
  BY <1>2, <1>3, <1>5 DEF PollWatch
<1>8. \A n \in 1..(l - 1) : n \in 1..l /\ (n = k => l \in 1..l /\ l # k)
  OBVIOUS
<1>9. IF k < l THEN i' \in 0..Len(pfds') ELSE i' = Len(pfds') + 2
  <2>1. CASE k < l
    <3>1. Len(pfds') \in Nat /\ i \in 0..Len(pfds')
      BY <1>5, <1>6, <2>1
    <3>2. QED
      BY <1>1, <2>1, <3>1, AdvanceRange
  <2>2. CASE k = l
    <3>1. Len(pfds') \in Nat /\ i \in Nat /\ i > Len(pfds')
      BY <1>5, <1>6, <2>2
    <3>2. QED
      BY <1>1, <2>2, <3>1, AdvanceAstray
  <2>3. QED
    BY <1>5, <2>1, <2>2
<1>10. \A n \in 1..Len(pfds') : pfds'[n].fd \in {Listener} \cup OpenFds'
  BY <1>4, <1>6, <1>7, <1>8
<1>11. ASSUME NEW g \in {Listener} \cup OpenFds' PROVE \E n \in 1..Len(pfds') : pfds'[n].fd = g
  <2>1. g \in {Listener} \cup OpenFds /\ g # f
    BY <1>1, <1>3, <1>4
  <2>2. PICK n \in 1..l : pfds[n].fd = g
    BY <1>5, <2>1 DEF PollWatch
  <2>3. n # k
    BY <1>3, <1>5, <2>1, <2>2
  <2>4. CASE n = l
    <3>1. k \in 1..(l - 1)
      BY <1>5, <2>3, <2>4
    <3>2. QED
      BY <1>6, <2>2, <2>4, <3>1
  <2>5. CASE n # l
    <3>1. n \in 1..(l - 1)
      BY <2>5
    <3>2. QED
      BY <1>6, <2>2, <2>3, <3>1
  <2>6. QED
    BY <2>4, <2>5
<1>12. \A m, n \in 1..Len(pfds') : pfds'[m].fd = pfds'[n].fd => m = n
  <2>1. \A m, n \in 1..l : pfds[m].fd = pfds[n].fd => m = n
    BY <1>5 DEF PollWatch
  <2>2. ASSUME NEW m \in 1..(l - 1), NEW n \in 1..(l - 1), pfds'[m].fd = pfds'[n].fd
        PROVE  m = n
    <3>1. CASE m = k /\ n = k
      BY <3>1
    <3>2. CASE m # k /\ n # k
      BY <1>6, <1>8, <2>1, <2>2, <3>2
    <3>3. CASE m = k /\ n # k
      <4>1. pfds[l].fd = pfds[n].fd /\ l \in 1..l /\ n \in 1..l /\ n # l
        BY <1>6, <2>2, <3>3
      <4>2. QED
        BY <2>1, <4>1
    <3>4. CASE m # k /\ n = k
      <4>1. pfds[m].fd = pfds[l].fd /\ l \in 1..l /\ m \in 1..l /\ m # l
        BY <1>6, <2>2, <3>4
      <4>2. QED
        BY <2>1, <4>1
    <3>5. QED
      BY <3>1, <3>2, <3>3, <3>4
  <2>3. QED
    BY <1>6, <2>2
<1>13. Len(pfds') = 1 + Cardinality(OpenFds')
  <2>1. IsFiniteSet(OpenFds) /\ Cardinality(OpenFds) \in Nat
    BY OpenFacts DEF KernelInv
  <2>2. Cardinality(OpenFds \ {f}) = Cardinality(OpenFds) - 1
    BY <2>1, FS_RemoveElement
  <2>3. l = 1 + Cardinality(OpenFds)
    BY <1>5 DEF PollWatch
  <2>4. QED
    BY <1>4, <1>6, <2>1, <2>2, <2>3
<1>14. CASE k < l
  <2>1. \A g \in {Listener} \cup OpenFds' : \E n \in 1..Len(pfds') : pfds'[n].fd = g
    BY <1>11
  <2>2. PollWatch'
    BY <1>6, <1>9, <1>10, <1>12, <1>13, <1>14, <2>1 DEF PollWatch
  <2>3. QED
    BY <1>1, <1>4, <2>2 DEF PollRelay
<1>15. CASE ~(k < l)
  BY <1>1, <1>4, <1>6, <1>9, <1>15 DEF PollAstray
<1>16. QED
  BY <1>14, <1>15

LEMMA StartRelayPreserves ==
    ASSUME SocketInv, PollWatch, PollRelay, i > 0, StartRelay(pfds[i])
    PROVE  SocketInv' /\ PollWatch' /\ PollRelay'
<1> DEFINE m == Head(inbox[owner[pfds[i].fd]])
<1>1. /\ pfds[i].ready /\ pfds[i].fd \in OpenFds /\ Receive(pfds[i].fd)
      /\ relay' = [msg |-> m, sender |-> pfds[i].fd, nbytes |-> Size, cut |-> 0, j |-> 1]
      /\ UNCHANGED <<pfds, i>>
  BY DEF StartRelay
<1>2. /\ Len(pfds) \in Nat /\ i \in 1..Len(pfds)
  <2>1. Len(pfds) \in Nat /\ i \in 0..Len(pfds)
    BY LenProperties DEF PollWatch
  <2>2. QED
    BY <2>1
<1>3. PICK f \in OpenFds : f = pfds[i].fd /\ f \in Fds /\ f # Listener
  BY <1>1, OpenFacts, FdFacts DEF KernelInv
<1>4. PICK mm : mm = Head(inbox[owner[f]])
  OBVIOUS
<1>5. /\ SocketInv' /\ UNCHANGED <<owner, got, conn>>
      /\ mm \in Messages /\ mm[1] = owner[f] /\ Latest(mm)'
      /\ \A g \in OpenFds : Lacks(g, mm)
  BY <1>1, <1>3, <1>4, ReceiveSockets
<1>6. relay' = [msg |-> mm, sender |-> f, nbytes |-> Size, cut |-> 0, j |-> 1]
  BY <1>1, <1>3, <1>4
<1>7. OpenFds' = OpenFds
  BY <1>5 DEF OpenFds
<1>8. PollWatch'
  BY <1>1, <1>7 DEF PollWatch
<1>9. \A g \in OpenFds : Lacks(g, mm)'
  BY <1>5 DEF Lacks
<1>10. PollRelay'
  <2>1. /\ relay' \in Relays(Len(pfds')) /\ relay'.cut < relay'.j
        /\ relay'.nbytes = Size
        /\ relay'.msg = mm /\ relay'.j = 1 /\ relay'.sender = f
    BY <1>1, <1>2, <1>3, <1>5, <1>6, SocketConstants DEF Relays
  <2>2. /\ i' \in 1..Len(pfds') /\ pfds'[i'].ready /\ pfds'[i'].fd # Listener
        /\ relay'.sender = pfds'[i'].fd /\ relay'.msg[1] = owner'[pfds'[i'].fd]
    BY <1>1, <1>2, <1>3, <1>5, <2>1
  <2>3. \A k \in 1..Len(pfds') : pfds'[k].fd # Listener =>
            /\ k >= relay'.j => Lacks(pfds[k].fd, mm)'
            /\ ~(k < relay'.j)
    <3>1. ASSUME NEW k \in 1..Len(pfds), pfds[k].fd # Listener
          PROVE  Lacks(pfds[k].fd, mm)' /\ ~(k < 1)
      <4>1. PICK g \in OpenFds : g = pfds[k].fd
        BY <3>1 DEF PollWatch
      <4>2. pfds'[k].fd = g
        BY <1>1, <4>1
      <4>3. QED
        BY <1>9, <4>1, <4>2
    <3>2. QED
      BY <1>1, <2>1, <3>1
  <2>4. Latest(relay.msg)'
    BY <1>5, <2>1
  <2>5. \A k \in 1..Len(pfds') : pfds'[k].fd # Listener =>
            /\ k >= relay'.j => Lacks(pfds[k].fd, relay.msg)'
            /\ ~(k < relay'.j)
    BY <2>1, <2>3
  <2>6. QED
    BY <2>1, <2>2, <2>4, <2>5, Zenon DEF PollRelay
<1>11. QED
  BY <1>5, <1>8, <1>10

-----------------------------------------------------------------------------
\* poll_server: the loop over j.
LEMMA RelayFacts ==
    ASSUME SocketInv, PollWatch, PollRelay, relay # NoRelay
    PROVE  /\ Len(pfds) \in Nat /\ i \in 1..Len(pfds)
           /\ pfds[i].ready /\ pfds[i].fd # Listener
           /\ relay = [msg |-> relay.msg, sender |-> relay.sender, nbytes |-> relay.nbytes,
                       cut |-> relay.cut, j |-> relay.j]
           /\ relay.msg \in Messages /\ relay.nbytes \in 0..Size /\ relay.j \in 1..(Len(pfds) + 1)
           /\ relay.cut \in 0..Len(pfds) /\ relay.cut < relay.j
           /\ relay.cut = 0 => relay.nbytes = Size
           /\ relay.sender = pfds[i].fd /\ relay.sender \in Fds
           /\ Latest(relay.msg) /\ relay.msg[1] = owner[pfds[i].fd]
BY LenProperties DEF PollWatch, PollRelay, Relays

\* PollRelay holds again when what changed is j and perhaps nbytes and cut.
LEMMA RelayAgain ==
    ASSUME SocketInv, PollWatch, PollRelay, relay # NoRelay,
           UNCHANGED <<pfds, i, owner, received>>,
           NEW j \in Nat, NEW n \in 0..Size, NEW q \in 0..Len(pfds), q < j, q = 0 => n = Size,
           relay' = [msg |-> relay.msg, sender |-> relay.sender, nbytes |-> n, cut |-> q, j |-> j],
           j \in 1..(Len(pfds) + 1),
           \A k \in 1..Len(pfds) : pfds[k].fd # Listener =>
               /\ k >= j => Lacks(pfds[k].fd, relay.msg)'
               /\ k < j /\ k # i /\ Before(k, q) => SentWhole(pfds[k].fd, relay.msg)'
    PROVE  PollWatch' /\ PollRelay'
<1>1. OpenFds' = OpenFds
  BY DEF OpenFds
<1>2. PollWatch'
  BY <1>1 DEF PollWatch
<1>3. /\ relay'.msg = relay.msg /\ relay'.nbytes = n /\ relay'.j = j /\ relay'.cut = q
      /\ relay'.sender = relay.sender /\ relay' \in Relays(Len(pfds'))
  BY RelayFacts DEF Relays
<1>4. /\ i' \in 1..Len(pfds') /\ pfds'[i'].ready /\ pfds'[i'].fd # Listener
      /\ relay'.sender = pfds'[i'].fd /\ relay'.msg[1] = owner'[pfds'[i'].fd]
  BY <1>3, RelayFacts
<1>5. Latest(relay.msg)'
  <2>1. Latest(relay.msg)
    BY RelayFacts
  <2>2. QED
    BY <1>3, <2>1 DEF Latest
<1>6. \A k \in 1..Len(pfds') : pfds'[k].fd # Listener =>
          /\ k >= relay'.j => Lacks(pfds[k].fd, relay.msg)'
          /\ k < relay'.j /\ k # i' /\ Before(k, relay'.cut) => SentWhole(pfds[k].fd, relay.msg)'
  BY <1>3
<1>7. PollRelay'
  BY <1>3, <1>4, <1>5, <1>6, Zenon DEF PollRelay
<1>8. QED
  BY <1>2, <1>7

LEMMA NotToThisOnePreserves ==
    ASSUME SocketInv, PollWatch, PollRelay, NotToThisOne
    PROVE  SocketInv' /\ PollWatch' /\ PollRelay'
<1>1. /\ relay # NoRelay /\ relay.j <= Len(pfds)
      /\ ~ExceptListenerAndSender \/ relay.nbytes = 0
      /\ relay' = [relay EXCEPT !.j = @ + 1] /\ UNCHANGED <<socketVars, pfds, i>>
  BY DEF NotToThisOne, Relaying
<1>2. UNCHANGED <<sent, inbox, owner, received, got, backlog, conn, up, unread, pfds, i>>
  BY <1>1 DEF socketVars, peerVars
<1>3. SocketInv'
  BY <1>1, KernelKept
<1>4. PICK j \in Nat, n \in 0..Size, q \in 0..Len(pfds) :
          j = relay.j /\ n = relay.nbytes /\ q = relay.cut
  BY <1>1, RelayFacts
<1>5. /\ Len(pfds) \in Nat /\ j \in 1..Len(pfds) /\ i \in 1..Len(pfds)
      /\ q < j /\ (q = 0 => n = Size)
  BY <1>1, <1>4, RelayFacts
<1>6. relay' = [msg |-> relay.msg, sender |-> relay.sender, nbytes |-> n, cut |-> q, j |-> j + 1]
  BY <1>1, <1>4, RelayFacts
<1>7. pfds[j].fd # Listener => j = i \/ ~Before(j, q)
  <2>1. ~ExceptListenerAndSender => pfds[j].fd = Listener \/ pfds[j].fd = pfds[i].fd
    BY <1>1, <1>4, RelayFacts DEF ExceptListenerAndSender, Dest
  <2>2. pfds[j].fd = pfds[i].fd => j = i
    BY <1>5 DEF PollWatch
  <2>3. n = 0 => q # 0 /\ ~(j < q)
    BY <1>5, SocketConstants
  <2>4. QED
    BY <1>1, <1>4, <2>1, <2>2, <2>3 DEF Before
<1>8. ASSUME NEW k \in 1..Len(pfds), pfds[k].fd # Listener
      PROVE  /\ k >= j + 1 => Lacks(pfds[k].fd, relay.msg)'
             /\ k < j + 1 /\ k # i /\ Before(k, q) => SentWhole(pfds[k].fd, relay.msg)'
  <2>1. /\ k >= j => Lacks(pfds[k].fd, relay.msg)
        /\ k < j /\ k # i /\ Before(k, q) => SentWhole(pfds[k].fd, relay.msg)
    BY <1>1, <1>4, <1>8 DEF PollRelay
  <2>2. /\ k >= j + 1 => k >= j
        /\ k < j + 1 => k < j \/ k = j
    BY <1>8
  <2>3. PICK f : f = pfds[k].fd
    OBVIOUS
  <2>4. pfds'[k].fd = f /\ relay'.msg = relay.msg
    BY <1>2, <1>6, <2>3
  <2>5. k >= j + 1 => Lacks(f, relay.msg)'
    <3>1. Lacks(f, relay.msg) => Lacks(f, relay.msg)'
      BY <1>2, <2>4 DEF Lacks
    <3>2. QED
      BY <2>1, <2>2, <2>3, <3>1
  <2>6. k < j + 1 /\ k # i /\ Before(k, q) => SentWhole(f, relay.msg)'
    <3>1. SentWhole(f, relay.msg) => SentWhole(f, relay.msg)'
      BY <1>2, <2>4 DEF SentWhole
    <3>2. QED
      BY <1>7, <1>8, <2>1, <2>2, <2>3, <3>1
  <2>7. QED
    BY <2>3, <2>4, <2>5, <2>6
<1>9. j + 1 \in Nat /\ j + 1 \in 1..(Len(pfds) + 1)
  BY <1>5
<1>10. PollWatch' /\ PollRelay'
  <2>1. PICK jj \in Nat : jj = j + 1
    BY <1>9
  <2>2. \A k \in 1..Len(pfds) : pfds[k].fd # Listener =>
            /\ k >= jj => Lacks(pfds[k].fd, relay.msg)'
            /\ k < jj /\ k # i /\ Before(k, q) => SentWhole(pfds[k].fd, relay.msg)'
    BY <1>8, <2>1
  <2>3. /\ relay' = [msg |-> relay.msg, sender |-> relay.sender, nbytes |-> n, cut |-> q, j |-> jj]
          /\ q < jj /\ jj \in 1..(Len(pfds) + 1)
    BY <1>5, <1>6, <1>9, <2>1
  <2>4. QED
    BY <1>1, <1>2, <1>5, <2>2, <2>3, RelayAgain
<1>11. QED
  BY <1>3, <1>10

\* Whom the loop is about to send to.
LEMMA Destination ==
    ASSUME SocketInv, PollWatch, PollRelay, Relaying, ExceptListenerAndSender
    PROVE  /\ relay # NoRelay /\ Dest \in OpenFds
           /\ Lacks(Dest, relay.msg) /\ relay.msg[1] # owner[Dest]
           /\ relay.j \in 1..Len(pfds)
           /\ \A k \in 1..Len(pfds) : pfds[k].fd # Listener /\ k # relay.j
                 => pfds[k].fd \in OpenFds \ {Dest}
<1>1. relay # NoRelay /\ relay.j <= Len(pfds)
  BY DEF Relaying
<1>2. relay.j \in 1..Len(pfds) /\ i \in 1..Len(pfds) /\ pfds[i].fd # Listener
      /\ relay.msg[1] = owner[pfds[i].fd]
  BY <1>1, RelayFacts
<1>3. Dest = pfds[relay.j].fd /\ Dest # Listener /\ Dest # pfds[i].fd
  BY <1>1, RelayFacts DEF Dest, ExceptListenerAndSender
<1>4. Dest \in OpenFds /\ pfds[i].fd \in OpenFds
  BY <1>2, <1>3 DEF PollWatch
<1>5. owner[Dest] # owner[pfds[i].fd]
  BY <1>3, <1>4 DEF KernelInv, Connected
<1>6. Lacks(Dest, relay.msg)
  <2>1. relay.j >= relay.j
    BY <1>2
  <2>2. QED
    BY <1>1, <1>2, <1>3, <2>1 DEF PollRelay
<1>7. \A k \in 1..Len(pfds) : pfds[k].fd # Listener /\ k # relay.j => pfds[k].fd \in OpenFds \ {Dest}
  BY <1>2, <1>3 DEF PollWatch
<1>8. QED
  BY <1>1, <1>2, <1>4, <1>5, <1>6, <1>7

\* The loop is done with this destination, perhaps with less to send to the next.
LEMMA RelayOn ==
    ASSUME SocketInv, PollWatch, PollRelay, Relaying, ExceptListenerAndSender,
           UNCHANGED <<pfds, i, owner, received>>,
           NEW n \in 0..Size, NEW q \in 0..Len(pfds), q <= relay.j, q = 0 => n = Size,
           relay.cut # 0 => q = relay.cut, q # 0 /\ relay.cut = 0 => q = relay.j,
           relay' = [relay EXCEPT !.j = @ + 1, !.nbytes = n, !.cut = q],
           \A g \in OpenFds \ {Dest} : /\ got'[owner[g]] = got[owner[g]]
                                       /\ conn'[owner[g]] = conn[owner[g]],
           NEW d, d = Dest, NEW m, m = relay.msg, q = 0 => SentWhole(d, m)'
    PROVE  PollWatch' /\ PollRelay'
<1>1. PICK j \in Nat : j = relay.j
  BY Destination, RelayFacts
<1>2. /\ relay # NoRelay /\ Len(pfds) \in Nat /\ j \in 1..Len(pfds) /\ i \in 1..Len(pfds)
      /\ pfds[j].fd = d
  BY <1>1, Destination, RelayFacts DEF Dest
<1>3. relay' = [msg |-> relay.msg, sender |-> relay.sender, nbytes |-> n, cut |-> q, j |-> j + 1]
  BY <1>1, <1>2, RelayFacts
<1>4. ASSUME NEW k \in 1..Len(pfds), pfds[k].fd # Listener
      PROVE  /\ k >= j + 1 => Lacks(pfds[k].fd, relay.msg)'
             /\ k < j + 1 /\ k # i /\ Before(k, q) => SentWhole(pfds[k].fd, relay.msg)'
  <2>1. /\ k >= j => Lacks(pfds[k].fd, m)
        /\ k < j /\ k # i /\ Before(k, relay.cut) => SentWhole(pfds[k].fd, m)
    BY <1>1, <1>2, <1>4 DEF PollRelay
  <2>2. /\ k >= j + 1 => k >= j /\ k # j
        /\ k < j + 1 => (k < j /\ k # j) \/ k = j
    BY <1>4
  <2>3. PICK f : f = pfds[k].fd
    OBVIOUS
  <2>4. pfds'[k].fd = f /\ relay'.msg = m
    BY <1>3, <2>3
  <2>5. k # j => /\ owner'[f] = owner[f] /\ got'[owner[f]] = got[owner[f]]
                 /\ conn'[owner[f]] = conn[owner[f]]
    BY <1>1, <1>4, <2>3, Destination
  <2>6. k >= j + 1 => Lacks(f, m)'
    <3>1. Lacks(f, m) /\ k # j => Lacks(f, m)'
      BY <2>5 DEF Lacks
    <3>2. QED
      BY <2>1, <2>2, <2>3, <3>1
  <2>7. Before(k, q) => IF k = j THEN q = 0 ELSE k < j => Before(k, relay.cut)
    BY <1>1, <1>2, RelayFacts DEF Before
  <2>8. k < j + 1 /\ k # i /\ Before(k, q) => SentWhole(f, m)'
    <3>1. SentWhole(f, m) /\ k # j => SentWhole(f, m)'
      BY <2>5 DEF SentWhole
    <3>2. CASE k = j
      BY <1>2, <2>3, <2>7, <3>2
    <3>3. CASE k # j
      BY <2>1, <2>2, <2>3, <2>7, <3>1, <3>3
    <3>4. QED
      BY <3>2, <3>3
  <2>9. QED
    BY <2>3, <2>4, <2>6, <2>8
<1>5. j + 1 \in Nat /\ j + 1 \in 1..(Len(pfds) + 1)
  BY <1>2
<1>6. PICK jj \in Nat : jj = j + 1
  BY <1>5
<1>7. \A k \in 1..Len(pfds) : pfds[k].fd # Listener =>
          /\ k >= jj => Lacks(pfds[k].fd, relay.msg)'
          /\ k < jj /\ k # i /\ Before(k, q) => SentWhole(pfds[k].fd, relay.msg)'
  BY <1>4, <1>6
<1>8. relay' = [msg |-> relay.msg, sender |-> relay.sender, nbytes |-> n, cut |-> q, j |-> jj]
  BY <1>3, <1>6
<1>9. q < jj /\ jj \in 1..(Len(pfds) + 1)
  BY <1>1, <1>2, <1>5, <1>6
<1>10. QED
  BY <1>2, <1>7, <1>8, <1>9, RelayAgain

LEMMA SendToPreserves ==
    ASSUME SocketInv, PollWatch, PollRelay, SendTo
    PROVE  SocketInv' /\ PollWatch' /\ PollRelay'
<1>1. /\ Relaying /\ ExceptListenerAndSender /\ relay.nbytes > 0
      /\ Send(Dest, relay.msg, relay.nbytes)
      /\ relay' = [relay EXCEPT !.j = @ + 1] /\ UNCHANGED <<pfds, i>>
  BY DEF SendTo
<1>2. PICK d \in OpenFds : d = Dest
  BY <1>1, Destination
<1>3. PICK m \in Messages, n \in 1..Size, q \in 0..Len(pfds) :
          m = relay.msg /\ n = relay.nbytes /\ q = relay.cut
  BY <1>1, Destination, RelayFacts
<1>4. Send(d, m, n) /\ Latest(m) /\ Lacks(d, m) /\ m[1] # owner[d]
  BY <1>1, <1>2, <1>3, Destination, RelayFacts
<1>5. /\ SocketInv' /\ UNCHANGED <<owner, received>>
      /\ \A g \in OpenFds \ {d} : /\ got'[owner[g]] = got[owner[g]]
                                  /\ conn'[owner[g]] = conn[owner[g]]
      /\ n = Size => SentWhole(d, m)'
  BY <1>4, SendSockets
<1>6. relay' = [relay EXCEPT !.j = @ + 1, !.nbytes = n, !.cut = q] /\ n \in 0..Size
  BY <1>1, <1>3, Destination, RelayFacts
<1>7. /\ q <= relay.j /\ (q = 0 => n = Size) /\ (q # 0 /\ relay.cut = 0 => q = relay.j)
      /\ relay.cut # 0 => q = relay.cut
  BY <1>1, <1>3, Destination, RelayFacts
<1>8. QED
  BY <1>1, <1>2, <1>5, <1>6, <1>7, <1>3, RelayOn

LEMMA SendallFailsPreserves ==
    ASSUME SocketInv, PollWatch, PollRelay, SendallFails
    PROVE  SocketInv' /\ PollWatch' /\ PollRelay'
<1>1. /\ Relaying /\ ExceptListenerAndSender /\ relay.nbytes > 0
      /\ IF Dest \in OpenFds THEN SendFails(Dest) ELSE UNCHANGED socketVars
      /\ UNCHANGED <<pfds, i>>
  BY DEF SendallFails
<1>2. PICK d \in OpenFds : d = Dest
  BY <1>1, Destination
<1>3. PICK total \in 0..(relay.nbytes - 1) :
          relay' = [relay EXCEPT !.j = @ + 1, !.nbytes = total,
                                 !.cut = IF @ = 0 THEN relay.j ELSE @]
  BY <1>2 DEF SendallFails
<1>4. /\ SocketInv' /\ UNCHANGED <<owner, received, got>>
      /\ \A g \in OpenFds \ {d} : conn'[owner[g]] = conn[owner[g]]
  BY <1>1, <1>2, FailSockets
<1>5. PICK n \in 0..Size : n = relay.nbytes
  BY <1>1, Destination, RelayFacts
<1>6. total \in 0..Size
  BY <1>3, <1>5, SocketConstants
<1>7. PICK m : m = relay.msg
  OBVIOUS
<1>8. PICK q \in 0..Len(pfds) : q = IF relay.cut = 0 THEN relay.j ELSE relay.cut
  BY <1>1, Destination, RelayFacts
<1>9. /\ relay' = [relay EXCEPT !.j = @ + 1, !.nbytes = total, !.cut = q]
      /\ q <= relay.j /\ q # 0
      /\ relay.cut # 0 => q = relay.cut
      /\ relay.cut = 0 => q = relay.j
  BY <1>1, <1>3, <1>8, Destination, RelayFacts
<1>10. QED
  BY <1>1, <1>2, <1>4, <1>6, <1>7, <1>9, RelayOn

LEMMA PollKilledPreserves ==
    ASSUME SocketInv, PollWatch, PollRelay, PollKilled
    PROVE  SocketInv' /\ PollWatch' /\ PollRelay'
<1>1. up' = FALSE /\ UNCHANGED <<peerVars, backlog, owner, received, got>> /\ UNCHANGED pollVars
  BY DEF PollKilled, Killed
<1>2. SocketInv' /\ UNCHANGED <<owner, received, got, conn>>
  BY <1>1, KilledSockets
<1>3. QED
  BY <1>1, <1>2, PollKept DEF KernelInv

LEMMA EndRelayPreserves ==
    ASSUME SocketInv, PollWatch, PollRelay, EndRelay
    PROVE  SocketInv' /\ PollWatch' /\ PollRelay'
<1>1. /\ relay # NoRelay /\ relay' = NoRelay /\ Advance(pfds) /\ UNCHANGED <<socketVars, pfds>>
  BY DEF EndRelay
<1>2. SocketInv' /\ OpenFds' = OpenFds
  BY <1>1, KernelKept
<1>3. i' \in 0..Len(pfds)
  BY <1>1, AdvanceRange, LenProperties DEF PollWatch
<1>4. PollWatch'
  BY <1>1, <1>2, <1>3 DEF PollWatch
<1>5. QED
  BY <1>1, <1>2, <1>4 DEF PollRelay

LEMMA PollStepPreserves ==
    ASSUME SocketInv, PollWatch, PollRelay, PollStep
    PROVE  SocketInv' /\ ((PollWatch' /\ PollRelay') \/ PollAstray')
<1>1. CASE Poll
  BY <1>1, PollPreserves
<1>2. ASSUME NEW e \in Seen, Skip(e) \/ AcceptNew(e) \/ HangUp(e) \/ StartRelay(e)
      PROVE  SocketInv' /\ ((PollWatch' /\ PollRelay') \/ PollAstray')
  <2>1. i \in 0..Len(pfds) /\ Len(pfds) \in Nat
    BY LenProperties DEF PollWatch
  <2>2. i > 0 /\ e = pfds[i]
    <3>1. ~(i > Len(pfds)) /\ (i # 0 => i > 0)
      BY <2>1
    <3>2. QED
      BY <1>2, <3>1 DEF Seen, Astray
  <2>3. QED
    BY <1>2, <2>2, SkipPreserves, AcceptNewPreserves, HangUpPreserves, StartRelayPreserves
<1>3. CASE NotToThisOne
  BY <1>3, NotToThisOnePreserves
<1>4. CASE SendTo
  BY <1>4, SendToPreserves
<1>5. CASE SendallFails
  BY <1>5, SendallFailsPreserves
<1>6. CASE PollKilled
  BY <1>6, PollKilledPreserves
<1>7. CASE EndRelay
  BY <1>7, EndRelayPreserves
<1>8. ~Crash
  BY LenProperties DEF PollWatch, Crash, Astray
<1>9. QED
  BY <1>1, <1>2, <1>3, <1>4, <1>5, <1>6, <1>7, <1>8 DEF PollStep

-----------------------------------------------------------------------------
\* poll_server: a pass behind the vector.
LEMMA SeenAstray ==
    ASSUME KernelInv, PollAstray, NEW e \in Seen,
           Skip(e) \/ AcceptNew(e) \/ HangUp(e) \/ StartRelay(e)
    PROVE  KernelInv' /\ PollAstray'
<1>1. /\ pfds \in Seq(Entries) /\ Len(pfds) \in Nat /\ i = Len(pfds) + 2 /\ i \in Nat
  BY LenProperties DEF PollAstray
<1>2. e.ready
  <2>1. i # 0 /\ i > Len(pfds)
    BY <1>1
  <2>2. e \in [fd : Fds \cup {Listener, 0}, ready : {TRUE}]
    BY <2>1 DEF Seen, Astray
  <2>3. QED
    BY <2>2
<1>3. ASSUME Advance(pfds'), relay = NoRelay, UNCHANGED relay, KernelInv',
             pfds' \in Seq(Entries), Len(pfds') <= Len(pfds) + 1
      PROVE  PollAstray'
  <2>1. Len(pfds') \in Nat
    BY <1>3, LenProperties
  <2>2. i > Len(pfds')
    BY <1>1, <1>3, <2>1
  <2>3. i' = Len(pfds') + 2
    BY <1>1, <1>3, <2>1, <2>2, AdvanceAstray
  <2>4. QED
    BY <1>3, <2>3 DEF PollAstray
<1>4. ~Skip(e)
  BY <1>2 DEF Skip
<1>5. CASE AcceptNew(e)
  <2>1. relay = NoRelay /\ Advance(pfds') /\ UNCHANGED relay
    BY <1>5 DEF AcceptNew
  <2>2. ASSUME NEW f \in Fds, Accept(f), pfds' = Append(pfds, make_pollfd(f))
        PROVE  KernelInv' /\ pfds' \in Seq(Entries) /\ Len(pfds') = Len(pfds) + 1
    <3>1. make_pollfd(f) \in Entries
      BY DEF make_pollfd, Entries
    <3>2. QED
      BY <1>1, <2>2, <3>1, Added, AcceptSockets
  <2>3. CASE UNCHANGED <<socketVars, pfds>>
    BY <1>1, <1>3, <2>1, <2>3, KernelKept
  <2>4. CASE \E f \in Fds : Accept(f) /\ pfds' = Append(pfds, make_pollfd(f))
    <3>1. KernelInv' /\ pfds' \in Seq(Entries) /\ Len(pfds') = Len(pfds) + 1
      BY <2>2, <2>4
    <3>2. QED
      BY <1>1, <1>3, <2>1, <3>1
  <2>5. QED
    BY <1>5, <2>3, <2>4 DEF AcceptNew
<1>6. CASE HangUp(e)
  <2>1. /\ relay = NoRelay /\ pfds # <<>> /\ pfds' = del_from_pfds(i) /\ Advance(pfds')
        /\ UNCHANGED relay
        /\ IF e.fd \in OpenFds THEN NothingToReceive(e.fd) /\ Close(e.fd) ELSE UNCHANGED socketVars
    BY <1>6 DEF HangUp
  <2>2. pfds' \in Seq(Entries) /\ Len(pfds') = Len(pfds) - 1
    BY <1>1, <2>1, Removed
  <2>3. KernelInv'
    BY <2>1, CloseSockets, KernelKept
  <2>4. QED
    BY <1>1, <1>3, <2>1, <2>2, <2>3
<1>7. CASE StartRelay(e)
  <2>0. PICK f \in OpenFds : f = e.fd
    BY <1>7 DEF StartRelay
  <2>1. PICK m : m = Head(inbox[owner[f]])
    OBVIOUS
  <2>2. /\ Receive(f)
        /\ relay' = [msg |-> m, sender |-> f, nbytes |-> Size, cut |-> 0, j |-> 1]
        /\ UNCHANGED <<pfds, i>>
    BY <1>7, <2>0, <2>1 DEF StartRelay
  <2>3. KernelInv' /\ m \in Messages /\ f \in Fds
    BY <2>1, <2>2, ReceiveSockets DEF OpenFds
  <2>4. relay' \in Relays(Len(pfds))
    BY <1>1, <2>2, <2>3, SocketConstants DEF Relays
  <2>5. QED
    BY <1>1, <2>2, <2>3, <2>4 DEF PollAstray
<1>8. QED
  BY <1>4, <1>5, <1>6, <1>7

LEMMA AstrayStep ==
    ASSUME KernelInv, PollAstray, PollStep
    PROVE  KernelInv' /\ PollAstray'
<1>1. /\ pfds \in Seq(Entries) /\ Len(pfds) \in Nat /\ i = Len(pfds) + 2 /\ i \in Nat
  BY LenProperties DEF PollAstray
<1>2. ASSUME relay # NoRelay
      PROVE  /\ relay = [msg |-> relay.msg, sender |-> relay.sender, nbytes |-> relay.nbytes,
                         cut |-> relay.cut, j |-> relay.j]
             /\ relay.msg \in Messages /\ relay.sender \in Fds /\ relay.nbytes \in 0..Size
             /\ relay.cut \in 0..Len(pfds) /\ relay.j \in 1..(Len(pfds) + 1)
  BY <1>2 DEF PollAstray, Relays
<1>3. ASSUME relay # NoRelay, relay.j <= Len(pfds), UNCHANGED <<pfds, i>>,
             NEW n \in 0..Size, NEW q \in 0..Len(pfds),
             relay' = [relay EXCEPT !.j = @ + 1, !.nbytes = n, !.cut = q]
      PROVE  PollAstray'
  <2>1. relay' = [msg |-> relay.msg, sender |-> relay.sender, nbytes |-> n, cut |-> q,
                  j |-> relay.j + 1]
    BY <1>2, <1>3
  <2>2. relay.j + 1 \in 1..(Len(pfds) + 1)
    BY <1>1, <1>2, <1>3
  <2>3. relay' \in Relays(Len(pfds))
    BY <1>2, <1>3, <2>1, <2>2 DEF Relays
  <2>4. QED
    BY <1>1, <1>3, <2>3 DEF PollAstray
<1>4. ~Poll
  BY <1>1 DEF Poll
<1>5. CASE Crash
  <2>1. up' = FALSE /\ UNCHANGED <<peerVars, backlog, owner, received, got>> /\ UNCHANGED pollVars
    BY <1>5 DEF Crash
  <2>2. QED
    BY <2>1, KilledSockets DEF pollVars, PollAstray
<1>6. CASE NotToThisOne
  <2>1. /\ relay # NoRelay /\ relay.j <= Len(pfds)
        /\ relay' = [relay EXCEPT !.j = @ + 1] /\ UNCHANGED <<socketVars, pfds, i>>
    BY <1>6 DEF NotToThisOne, Relaying
  <2>2. relay' = [relay EXCEPT !.j = @ + 1, !.nbytes = relay.nbytes, !.cut = relay.cut]
    BY <1>2, <2>1
  <2>3. QED
    BY <1>2, <1>3, <2>1, <2>2, KernelKept
<1>7. CASE SendTo
  <2>1. /\ relay # NoRelay /\ relay.j <= Len(pfds) /\ relay.nbytes > 0
        /\ Dest \in OpenFds /\ Send(Dest, relay.msg, relay.nbytes)
        /\ relay' = [relay EXCEPT !.j = @ + 1] /\ UNCHANGED <<pfds, i>>
    BY <1>7 DEF SendTo, Relaying
  <2>2. relay' = [relay EXCEPT !.j = @ + 1, !.nbytes = relay.nbytes, !.cut = relay.cut]
    BY <1>2, <2>1
  <2>3. PICK f \in OpenFds, m \in Messages, n \in 1..Size :
            f = Dest /\ m = relay.msg /\ n = relay.nbytes
    BY <1>2, <2>1, SocketConstants
  <2>4. KernelInv'
    BY <2>1, <2>3, SendSockets
  <2>5. QED
    BY <1>2, <1>3, <2>1, <2>2, <2>4
<1>8. CASE SendallFails
  <2>1. /\ relay # NoRelay /\ relay.j <= Len(pfds) /\ relay.nbytes > 0
        /\ IF Dest \in OpenFds THEN SendFails(Dest) ELSE UNCHANGED socketVars
        /\ UNCHANGED <<pfds, i>>
    BY <1>8 DEF SendallFails, Relaying
  <2>2. PICK n \in 0..Size :
            relay' = [relay EXCEPT !.j = @ + 1, !.nbytes = n,
                                   !.cut = IF @ = 0 THEN relay.j ELSE @]
    <3>1. PICK total \in IF Dest \in OpenFds THEN 0..(relay.nbytes - 1) ELSE {0} :
              relay' = [relay EXCEPT !.j = @ + 1, !.nbytes = total,
                                     !.cut = IF @ = 0 THEN relay.j ELSE @]
      BY <1>8 DEF SendallFails
    <3>2. total \in 0..Size
      BY <1>2, <2>1, <3>1, SocketConstants
    <3>3. QED
      BY <3>1, <3>2
  <2>3. PICK q \in 0..Len(pfds) : q = IF relay.cut = 0 THEN relay.j ELSE relay.cut
    BY <1>1, <1>2, <2>1
  <2>4. relay' = [relay EXCEPT !.j = @ + 1, !.nbytes = n, !.cut = q]
    BY <1>2, <2>1, <2>2, <2>3
  <2>5. KernelInv'
    BY <2>1, FailSockets, KernelKept
  <2>6. QED
    BY <1>3, <2>1, <2>4, <2>5
<1>9. CASE PollKilled
  <2>1. up' = FALSE /\ UNCHANGED <<peerVars, backlog, owner, received, got>> /\ UNCHANGED pollVars
    BY <1>9 DEF PollKilled, Killed
  <2>2. QED
    BY <2>1, KilledSockets DEF pollVars, PollAstray
<1>10. CASE EndRelay
  <2>1. relay' = NoRelay /\ Advance(pfds) /\ UNCHANGED <<socketVars, pfds>>
    BY <1>10 DEF EndRelay
  <2>2. i' = Len(pfds) + 2
    <3>1. i > Len(pfds)
      BY <1>1
    <3>2. QED
      BY <1>1, <2>1, <3>1, AdvanceAstray
  <2>3. QED
    BY <1>1, <2>1, <2>2, KernelKept DEF PollAstray
<1>11. QED
  BY <1>4, <1>5, <1>6, <1>7, <1>8, <1>9, <1>10, SeenAstray DEF PollStep

-----------------------------------------------------------------------------
\* selectserver: the pass over the descriptors while nothing is sent around.
LEMMA SelectFacts ==
    ASSUME SelectWatch
    PROVE  /\ maxfd \in Nat /\ maxfd >= 1 /\ at \in Nat /\ at <= maxfd /\ Listener = 1
           /\ \A f \in master : f \in Nat /\ f >= 1 /\ f <= maxfd
<1>1. maxfd \in Nat /\ maxfd >= 1 /\ Listener = 1
  BY FdFacts DEF SelectWatch
<1>2. at \in Nat /\ at <= maxfd
  BY <1>1 DEF SelectWatch
<1>3. \A f \in master : f \in Nat /\ f >= 1 /\ f <= maxfd
  BY <1>1, FdFacts DEF SelectWatch, OpenFds
<1>4. QED
  BY <1>1, <1>2, <1>3

LEMMA SelectKept ==
    ASSUME SocketTypeOK, SelectWatch, SelectCast, UNCHANGED <<selectVars, owner, received, got>>,
           \A f \in OpenFds : conn'[owner[f]] = "open" => conn[owner[f]] = "open"
    PROVE  SelectWatch' /\ SelectCast'
<1>1. OpenFds' = OpenFds /\ UNCHANGED <<master, read_fds, maxfd, at, cast, owner, received, got>>
  BY DEF OpenFds, selectVars
<1>2. SelectWatch'
  BY <1>1 DEF SelectWatch
<1>3. CASE cast = NoCast
  BY <1>1, <1>2, <1>3 DEF SelectCast
<1>4. CASE cast # NoCast
  <2>1. /\ cast' \in [msg : Messages, j : 1..maxfd'] /\ at' > Listener /\ at' \in read_fds'
        /\ cast'.msg[1] = owner'[at']
    BY <1>1, <1>4 DEF SelectCast
  <2>2. Latest(cast.msg)'
    <3>1. Latest(cast.msg)
      BY <1>4 DEF SelectCast
    <3>2. QED
      BY <1>1, <3>1 DEF Latest
  <2>3. ASSUME NEW f \in OpenFds
        PROVE  /\ f >= cast.j => Lacks(f, cast.msg)'
               /\ f < cast.j /\ f # at => SentWhole(f, cast.msg)'
    <3>1. f >= cast.j => Lacks(f, cast.msg)'
      <4>1. f >= cast.j => Lacks(f, cast.msg)
        BY <1>4 DEF SelectCast
      <4>2. QED
        BY <1>1, <4>1 DEF Lacks
    <3>2. f < cast.j /\ f # at => SentWhole(f, cast.msg)'
      <4>1. f < cast.j /\ f # at => SentWhole(f, cast.msg)
        BY <1>4 DEF SelectCast
      <4>2. QED
        BY <1>1, <4>1 DEF SentWhole
    <3>3. QED
      BY <3>1, <3>2
  <2>4. \A f \in OpenFds' : /\ f >= cast'.j => Lacks(f, cast.msg)'
                            /\ f < cast'.j /\ f # at' => SentWhole(f, cast.msg)'
    BY <1>1, <2>3
  <2>5. SelectCast'
    BY <2>1, <2>2, <2>4, Zenon DEF SelectCast
  <2>6. QED
    BY <1>2, <2>5
<1>5. QED
  BY <1>3, <1>4

LEMMA OnwardRange ==
    ASSUME SelectWatch, NEW limit \in Nat, limit >= maxfd, Onward(limit)
    PROVE  at' \in 0..limit /\ (at' = 0 \/ at' = at + 1)
BY SelectFacts DEF Onward

LEMMA SelectPreserves ==
    ASSUME SocketInv, SelectWatch, SelectCast, Select
    PROVE  SocketInv' /\ SelectWatch' /\ SelectCast'
<1>1. /\ at = 0 /\ at' = 1 /\ UNCHANGED <<socketVars, master, maxfd, cast>>
      /\ read_fds' = {f \in master : f <= maxfd /\ Readable(f)}
  BY DEF Select
<1>2. UNCHANGED <<sent, inbox, owner, received, got, backlog, conn, up, unread>>
  BY <1>1 DEF socketVars, peerVars
<1>3. SocketInv'
  <2>1. SocketTypeOK'
    BY <1>2 DEF KernelInv, SocketTypeOK
  <2>2. QED
    BY <1>2, <2>1, SocketsKept
<1>4. cast = NoCast
  BY <1>1, SelectFacts DEF SelectCast
<1>5. OpenFds' = OpenFds
  BY <1>2 DEF OpenFds
<1>6. read_fds' \subseteq master
  BY <1>1
<1>7. master \subseteq Fds \cup {Listener}
  BY DEF SelectWatch, OpenFds
<1>8. at' \in 0..maxfd'
  BY <1>1, SelectFacts
<1>9. SelectWatch'
  BY <1>1, <1>5, <1>6, <1>7, <1>8 DEF SelectWatch
<1>10. QED
  BY <1>1, <1>3, <1>4, <1>9 DEF SelectCast

LEMMA NotReadyPreserves ==
    ASSUME SocketInv, SelectWatch, SelectCast, NotReady
    PROVE  SocketInv' /\ SelectWatch' /\ SelectCast'
<1>1. /\ at > 0 /\ at \notin read_fds /\ Onward(maxfd)
      /\ UNCHANGED <<socketVars, master, read_fds, maxfd, cast>>
  BY DEF NotReady
<1>2. UNCHANGED <<sent, inbox, owner, received, got, backlog, conn, up, unread>>
  BY <1>1 DEF socketVars, peerVars
<1>3. SocketInv'
  <2>1. SocketTypeOK'
    BY <1>2 DEF KernelInv, SocketTypeOK
  <2>2. QED
    BY <1>2, <2>1, SocketsKept
<1>4. cast = NoCast
  BY <1>1 DEF SelectCast
<1>5. OpenFds' = OpenFds
  BY <1>2 DEF OpenFds
<1>6. at' \in 0..maxfd' /\ (at' = 0 \/ at' = at + 1)
  BY <1>1, SelectFacts, OnwardRange
<1>7. at' > 0 => \A f \in read_fds' : f >= at' => f \in master'
  <2>1. \A f \in read_fds : f \in Nat /\ (f >= at => f \in master)
    BY <1>1, FdFacts DEF SelectWatch
  <2>2. \A f \in Nat : f >= at + 1 => f >= at
    BY SelectFacts
  <2>3. QED
    BY <1>1, <1>6, <2>1, <2>2
<1>8. SelectWatch'
  BY <1>1, <1>5, <1>6, <1>7 DEF SelectWatch
<1>9. QED
  BY <1>1, <1>3, <1>4, <1>8 DEF SelectCast

LEMMA NewConnectionPreserves ==
    ASSUME SocketInv, SelectWatch, SelectCast, NewConnection
    PROVE  SocketInv' /\ SelectWatch' /\ SelectCast'
<1>1. /\ at = Listener /\ Onward(maxfd') /\ UNCHANGED <<read_fds, cast>>
      /\ \/ \E f \in Fds : Accept(f) /\ master' = master \cup {f} /\ Raised(f)
         \/ UNCHANGED <<socketVars, master, maxfd>>
  BY DEF NewConnection
<1>2. cast = NoCast
  BY <1>1, FdFacts DEF SelectCast
<1>3. \A f \in read_fds : f \in Nat /\ (f >= at => f \in master)
  BY <1>1, FdFacts DEF SelectWatch
<1>4. \A f \in Nat : f >= at + 1 => f >= at
  BY SelectFacts
<1>5. CASE UNCHANGED <<socketVars, master, maxfd>>
  <2>1. UNCHANGED <<sent, inbox, owner, received, got, backlog, conn, up, unread>>
    BY <1>5 DEF socketVars, peerVars
  <2>2. SocketInv'
    <3>1. SocketTypeOK'
      BY <2>1 DEF KernelInv, SocketTypeOK
    <3>2. QED
      BY <2>1, <3>1, SocketsKept
  <2>3. OpenFds' = OpenFds
    BY <2>1 DEF OpenFds
  <2>4. at' \in 0..maxfd' /\ (at' = 0 \/ at' = at + 1)
    BY <1>1, <1>5, SelectFacts, OnwardRange
  <2>5. at' > 0 => \A f \in read_fds' : f >= at' => f \in master'
    BY <1>1, <1>3, <1>4, <1>5, <2>4
  <2>6. SelectWatch'
    BY <1>1, <1>5, <2>3, <2>4, <2>5 DEF SelectWatch
  <2>7. QED
    BY <1>1, <1>2, <2>2, <2>6 DEF SelectCast
<1>6. ASSUME NEW f \in Fds, Accept(f), master' = master \cup {f}, Raised(f)
      PROVE  SocketInv' /\ SelectWatch'
  <2>1. SocketInv' /\ OpenFds' = OpenFds \cup {f}
    BY <1>6, AcceptSockets
  <2>2. /\ maxfd' \in Fds \cup {Listener} /\ maxfd' \in Nat /\ maxfd' >= maxfd /\ maxfd' >= f
        /\ f \in Nat
    <3>1. f \in Nat /\ maxfd \in Nat /\ maxfd \in Fds \cup {Listener}
      BY FdFacts, SelectFacts DEF SelectWatch
    <3>2. QED
      BY <1>6, <3>1 DEF Raised
  <2>3. at' \in 0..maxfd' /\ (at' = 0 \/ at' = at + 1)
    BY <1>1, <2>2, OnwardRange
  <2>4. master' = {Listener} \cup OpenFds'
    BY <1>6, <2>1 DEF SelectWatch
  <2>5. \A g \in master' : g <= maxfd'
    BY <1>6, <2>2, SelectFacts
  <2>6. at' > 0 => \A g \in read_fds' : g >= at' => g \in master'
    BY <1>1, <1>3, <1>4, <1>6, <2>3
  <2>7. SelectWatch'
    BY <1>1, <2>2, <2>3, <2>4, <2>5, <2>6 DEF SelectWatch
  <2>8. QED
    BY <2>1, <2>7
<1>7. QED
  BY <1>1, <1>2, <1>5, <1>6 DEF SelectCast

LEMMA ClosingPreserves ==
    ASSUME SocketInv, SelectWatch, SelectCast, Closing
    PROVE  SocketInv' /\ SelectWatch' /\ SelectCast'
<1>1. /\ at > Listener /\ at \in read_fds /\ cast = NoCast
      /\ Close(at) /\ master' = master \ {at} /\ Onward(maxfd)
      /\ UNCHANGED <<read_fds, maxfd, cast>>
  BY DEF Closing, Cleared
<1>2. at \in Nat /\ at > 0 /\ at >= at
  BY <1>1, SelectFacts
<1>3. PICK f \in OpenFds : f = at
  <2>1. at \in master
    BY <1>1, <1>2 DEF SelectWatch
  <2>2. at # Listener
    BY <1>1, SelectFacts
  <2>3. QED
    BY <2>1, <2>2 DEF SelectWatch
<1>4. SocketInv' /\ OpenFds' = OpenFds \ {f}
  BY <1>1, <1>3, CloseSockets
<1>5. at' \in 0..maxfd' /\ (at' = 0 \/ at' = at + 1)
  BY <1>1, SelectFacts, OnwardRange
<1>6. master' = {Listener} \cup OpenFds'
  <2>1. at # Listener
    BY <1>1, SelectFacts
  <2>2. QED
    BY <1>1, <1>3, <1>4, <2>1 DEF SelectWatch
<1>7. at' > 0 => \A g \in read_fds' : g >= at' => g \in master'
  <2>1. \A g \in read_fds : g \in Nat /\ (g >= at => g \in master)
    BY <1>2, FdFacts DEF SelectWatch
  <2>2. \A g \in Nat : g >= at + 1 => g >= at /\ g # at
    BY <1>2
  <2>3. QED
    BY <1>1, <1>5, <2>1, <2>2
<1>8. SelectWatch'
  BY <1>1, <1>5, <1>6, <1>7 DEF SelectWatch
<1>9. QED
  BY <1>1, <1>4, <1>8 DEF SelectCast

-----------------------------------------------------------------------------
\* selectserver: the loop over j.
LEMMA CastFacts ==
    ASSUME SocketInv, SelectWatch, SelectCast, cast # NoCast
    PROVE  /\ maxfd \in Nat /\ at \in Nat /\ at \in OpenFds /\ at > Listener /\ at \in read_fds
           /\ cast = [msg |-> cast.msg, j |-> cast.j]
           /\ cast.msg \in Messages /\ cast.j \in 1..maxfd
           /\ Latest(cast.msg) /\ cast.msg[1] = owner[at]
<1>1. /\ cast \in [msg : Messages, j : 1..maxfd] /\ at > Listener /\ at \in read_fds
      /\ Latest(cast.msg) /\ cast.msg[1] = owner[at]
  BY DEF SelectCast
<1>2. at \in Nat /\ maxfd \in Nat /\ at > 0 /\ at >= at /\ at # Listener
  BY <1>1, SelectFacts
<1>3. at \in OpenFds
  BY <1>1, <1>2 DEF SelectWatch
<1>4. QED
  BY <1>1, <1>2, <1>3

\* SelectCast holds again when only j moved on, whatever it was sent to.
LEMMA CastAgain ==
    ASSUME SocketInv, SelectWatch, SelectCast, cast # NoCast,
           UNCHANGED <<master, read_fds, maxfd, at, owner, received>>,
           cast' = [cast EXCEPT !.j = @ + 1], cast.j # maxfd,
           NEW m, m = cast.msg, NEW j, j = cast.j,
           \A f \in OpenFds \ {j} : /\ got'[owner[f]] = got[owner[f]]
                                    /\ conn'[owner[f]] = conn[owner[f]],
           j \in OpenFds /\ j # at => SentWhole(j, m)'
    PROVE  SelectWatch' /\ SelectCast'
<1>1. OpenFds' = OpenFds
  BY DEF OpenFds
<1>2. SelectWatch'
  BY <1>1 DEF SelectWatch
<1>3. j \in Nat /\ j + 1 \in 1..maxfd
  BY CastFacts
<1>4. cast' = [msg |-> m, j |-> j + 1]
  BY CastFacts
<1>5. /\ cast' \in [msg : Messages, j : 1..maxfd'] /\ at' > Listener /\ at' \in read_fds'
      /\ cast'.msg[1] = owner'[at']
  BY <1>3, <1>4, CastFacts
<1>6. Latest(cast.msg)'
  <2>1. Latest(m)
    BY CastFacts
  <2>2. QED
    BY <1>4, <2>1 DEF Latest
<1>7. ASSUME NEW f \in OpenFds
      PROVE  /\ f >= j + 1 => Lacks(f, m)'
             /\ f < j + 1 /\ f # at => SentWhole(f, m)'
  <2>1. /\ f >= j => Lacks(f, m)
        /\ f < j /\ f # at => SentWhole(f, m)
    BY DEF SelectCast
  <2>2. f \in Nat
    BY FdFacts DEF OpenFds
  <2>3. /\ f >= j + 1 => f >= j /\ f # j
        /\ f < j + 1 => (f < j /\ f # j) \/ f = j
    BY <1>3, <2>2
  <2>4. Lacks(f, m) /\ f # j => Lacks(f, m)'
    BY DEF Lacks
  <2>5. SentWhole(f, m) /\ f # j => SentWhole(f, m)'
    BY DEF SentWhole
  <2>6. CASE f = j
    <3>1. ~(f >= j + 1)
      BY <2>3, <2>6
    <3>2. QED
      BY <2>6, <3>1
  <2>7. CASE f # j
    <3>1. f >= j + 1 => Lacks(f, m)'
      BY <2>1, <2>3, <2>4, <2>7
    <3>2. f < j + 1 /\ f # at => SentWhole(f, m)'
      BY <2>1, <2>3, <2>5, <2>7
    <3>3. QED
      BY <3>1, <3>2
  <2>8. QED
    BY <2>6, <2>7
<1>8. cast'.j = j + 1 /\ cast'.msg = m
  BY <1>4
<1>9. PICK jj : jj = j + 1
  OBVIOUS
<1>10. \A f \in OpenFds' : /\ f >= cast'.j => Lacks(f, cast.msg)'
                           /\ f < cast'.j /\ f # at' => SentWhole(f, cast.msg)'
  <2>1. \A f \in OpenFds : /\ f >= jj => Lacks(f, m)'
                           /\ f < jj /\ f # at => SentWhole(f, m)'
    BY <1>7, <1>9
  <2>2. cast'.j = jj /\ cast'.msg = m
    BY <1>8, <1>9
  <2>3. QED
    BY <1>1, <2>1, <2>2
<1>11. SelectCast'
  BY <1>5, <1>6, <1>10, Zenon DEF SelectCast
<1>12. QED
  BY <1>2, <1>11

LEMMA StartCastPreserves ==
    ASSUME SocketInv, SelectWatch, SelectCast, StartCast
    PROVE  SocketInv' /\ SelectWatch' /\ SelectCast'
<1>1. /\ at > Listener /\ at \in read_fds /\ Receive(at)
      /\ cast' = [msg |-> Head(inbox[owner[at]]), j |-> 1]
      /\ UNCHANGED <<master, read_fds, maxfd, at>>
  BY DEF StartCast
<1>2. PICK f \in OpenFds : f = at
  <2>1. at \in Nat /\ at > 0 /\ at >= at /\ at # Listener
    BY <1>1, SelectFacts
  <2>2. QED
    BY <1>1, <2>1 DEF SelectWatch
<1>3. PICK m : m = Head(inbox[owner[f]])
  OBVIOUS
<1>4. /\ SocketInv' /\ UNCHANGED <<owner, got, conn>>
      /\ m \in Messages /\ m[1] = owner[f] /\ Latest(m)'
      /\ \A g \in OpenFds : Lacks(g, m)
  BY <1>1, <1>2, <1>3, ReceiveSockets
<1>5. OpenFds' = OpenFds
  BY <1>4 DEF OpenFds
<1>6. SelectWatch'
  BY <1>1, <1>5 DEF SelectWatch
<1>7. cast' = [msg |-> m, j |-> 1] /\ cast'.msg = m /\ cast'.j = 1
  BY <1>1, <1>2, <1>3
<1>8. /\ cast' \in [msg : Messages, j : 1..maxfd'] /\ at' > Listener /\ at' \in read_fds'
      /\ cast'.msg[1] = owner'[at']
  BY <1>1, <1>2, <1>4, <1>7, SelectFacts
<1>9. Latest(cast.msg)'
  BY <1>4, <1>7
<1>10. \A g \in OpenFds' : /\ g >= cast'.j => Lacks(g, cast.msg)'
                           /\ ~(g < cast'.j)
  <2>1. \A g \in OpenFds : Lacks(g, m)'
    BY <1>4 DEF Lacks
  <2>2. \A g \in OpenFds : ~(g < 1)
    BY FdFacts DEF OpenFds
  <2>3. QED
    BY <1>5, <1>7, <2>1, <2>2
<1>11. SelectCast'
  BY <1>8, <1>9, <1>10, Zenon DEF SelectCast
<1>12. QED
  BY <1>4, <1>6, <1>11

LEMMA NotAddressedPreserves ==
    ASSUME SocketInv, SelectWatch, SelectCast, NotAddressed
    PROVE  SocketInv' /\ SelectWatch' /\ SelectCast'
<1>1. /\ cast # NoCast /\ cast.j # maxfd /\ ~Addressee
      /\ cast' = [cast EXCEPT !.j = @ + 1]
      /\ UNCHANGED <<socketVars, master, read_fds, maxfd, at>>
  BY DEF NotAddressed, Casting
<1>2. UNCHANGED <<sent, inbox, owner, received, got, backlog, conn, up, unread>>
  BY <1>1 DEF socketVars, peerVars
<1>3. SocketInv'
  <2>1. SocketTypeOK'
    BY <1>2 DEF KernelInv, SocketTypeOK
  <2>2. QED
    BY <1>2, <2>1, SocketsKept
<1>4. PICK m, j : m = cast.msg /\ j = cast.j
  OBVIOUS
<1>5. j \in OpenFds => j = at
  <2>1. j \in OpenFds => j \in master /\ j # Listener
    BY FdFacts DEF SelectWatch, OpenFds
  <2>2. QED
    BY <1>1, <1>4, <2>1 DEF Addressee
<1>6. QED
  BY <1>1, <1>2, <1>3, <1>4, <1>5, CastAgain

LEMMA CastToPreserves ==
    ASSUME SocketInv, SelectWatch, SelectCast, CastTo
    PROVE  SocketInv' /\ SelectWatch' /\ SelectCast'
<1>1. /\ cast # NoCast /\ cast.j # maxfd /\ Addressee
      /\ Send(cast.j, cast.msg, Size) \/ SendFails(cast.j)
      /\ cast' = [cast EXCEPT !.j = @ + 1]
      /\ UNCHANGED <<master, read_fds, maxfd, at>>
  BY DEF CastTo, Casting
<1>2. PICK m \in Messages : m = cast.msg
  BY <1>1, CastFacts
<1>3. PICK j \in OpenFds : j = cast.j
  BY <1>1 DEF Addressee, SelectWatch
<1>4. j # at
  BY <1>1, <1>3 DEF Addressee
<1>5. /\ SocketInv' /\ UNCHANGED <<owner, received>>
      /\ \A f \in OpenFds \ {j} : /\ got'[owner[f]] = got[owner[f]]
                                  /\ conn'[owner[f]] = conn[owner[f]]
      /\ SentWhole(j, m)'
  <2>1. CASE Send(j, m, Size)
    <3>1. Latest(m) /\ m[1] # owner[j]
      <4>1. Latest(m) /\ m[1] = owner[at] /\ at \in OpenFds
        BY <1>1, <1>2, CastFacts
      <4>2. owner[j] # owner[at]
        BY <1>4, <4>1 DEF KernelInv, Connected
      <4>3. QED
        BY <4>1, <4>2
    <3>2. Lacks(j, m)
      <4>1. j >= j
        BY FdFacts DEF OpenFds
      <4>2. QED
        BY <1>1, <1>2, <1>3, <4>1 DEF SelectCast
    <3>3. Size \in 1..Size
      BY SocketConstants
    <3>4. QED
      BY <2>1, <3>1, <3>2, <3>3, SendSockets
  <2>2. CASE SendFails(j)
    <3>1. /\ SocketInv' /\ UNCHANGED <<owner, received, got>>
          /\ \A f \in OpenFds \ {j} : conn'[owner[f]] = conn[owner[f]]
          /\ conn'[owner[j]] = "broken"
      BY <2>2, FailSockets
    <3>2. SentWhole(j, m)'
      BY <3>1 DEF SentWhole
    <3>3. QED
      BY <3>1, <3>2
  <2>3. QED
    BY <1>1, <1>2, <1>3, <2>1, <2>2
<1>6. QED
  BY <1>1, <1>2, <1>3, <1>5, CastAgain

LEMMA SelectKilledPreserves ==
    ASSUME SocketInv, SelectWatch, SelectCast, SelectKilled
    PROVE  SocketInv' /\ SelectWatch' /\ SelectCast'
<1>1. up' = FALSE /\ UNCHANGED <<peerVars, backlog, owner, received, got>> /\ UNCHANGED selectVars
  BY DEF SelectKilled, Killed
<1>2. SocketInv' /\ UNCHANGED <<owner, received, got, conn>>
  BY <1>1, KilledSockets
<1>3. QED
  BY <1>1, <1>2, SelectKept DEF KernelInv

LEMMA EndCastPreserves ==
    ASSUME SocketInv, SelectWatch, SelectCast, EndCast
    PROVE  SocketInv' /\ SelectWatch' /\ SelectCast'
<1>1. /\ cast # NoCast /\ cast' = NoCast /\ Onward(maxfd)
      /\ UNCHANGED <<socketVars, master, read_fds, maxfd>>
  BY DEF EndCast
<1>2. UNCHANGED <<sent, inbox, owner, received, got, backlog, conn, up, unread>>
  BY <1>1 DEF socketVars, peerVars
<1>3. SocketInv'
  <2>1. SocketTypeOK'
    BY <1>2 DEF KernelInv, SocketTypeOK
  <2>2. QED
    BY <1>2, <2>1, SocketsKept
<1>4. at' \in 0..maxfd' /\ (at' = 0 \/ at' = at + 1)
  BY <1>1, SelectFacts, OnwardRange
<1>5. OpenFds' = OpenFds
  BY <1>2 DEF OpenFds
<1>6. at' > 0 => \A f \in read_fds' : f >= at' => f \in master'
  <2>1. at > 0
    BY <1>1, CastFacts, FdFacts
  <2>2. \A f \in read_fds : f \in Nat /\ (f >= at => f \in master)
    BY <2>1, FdFacts DEF SelectWatch
  <2>3. \A f \in Nat : f >= at + 1 => f >= at
    BY SelectFacts
  <2>4. QED
    BY <1>1, <1>4, <2>2, <2>3
<1>7. SelectWatch'
  BY <1>1, <1>4, <1>5, <1>6 DEF SelectWatch
<1>8. QED
  BY <1>1, <1>3, <1>7 DEF SelectCast

LEMMA SelectStepPreserves ==
    ASSUME SocketInv, SelectWatch, SelectCast, SelectStep
    PROVE  SocketInv' /\ SelectWatch' /\ SelectCast'
<1>1. CASE Select
  BY <1>1, SelectPreserves
<1>2. CASE NotReady
  BY <1>2, NotReadyPreserves
<1>3. CASE NewConnection
  BY <1>3, NewConnectionPreserves
<1>4. CASE Closing
  BY <1>4, ClosingPreserves
<1>5. CASE StartCast
  BY <1>5, StartCastPreserves
<1>6. CASE NotAddressed
  BY <1>6, NotAddressedPreserves
<1>7. CASE CastTo
  BY <1>7, CastToPreserves
<1>8. CASE SelectKilled
  BY <1>8, SelectKilledPreserves
<1>9. CASE EndCast
  BY <1>9, EndCastPreserves
<1>10. QED
  BY <1>1, <1>2, <1>3, <1>4, <1>5, <1>6, <1>7, <1>8, <1>9 DEF SelectStep

-----------------------------------------------------------------------------
\* Both programs.
LEMMA RelayInit ==
    ASSUME Init
    PROVE  RelayInv
<1>1. SocketsInit /\ PollInit /\ SelectInit
  BY DEF Init
<1>2. OpenFds = {} /\ Cardinality({}) = 0
  BY <1>1, FS_EmptySet DEF SocketsInit, OpenFds
<1>3. KernelInv /\ InOrder
  <2>1. SocketTypeOK
    BY <1>1, SocketConstants DEF SocketsInit, SocketTypeOK, ConnStates
  <2>2. Connected
    BY <1>1, <1>2 DEF SocketsInit, Connected
  <2>3. Distinct /\ InOrder /\ \A c \in Clients : Numbered(c)
    BY <1>1 DEF SocketsInit, Distinct, Numbered, InOrder, Ordered
  <2>4. QED
    BY <2>1, <2>2, <2>3 DEF KernelInv
<1>4. PollWatch /\ PollRelay /\ ~Astray
  <2>1. relay = NoRelay /\ i = 0 /\ pfds = <<make_pollfd(Listener)>>
    BY <1>1 DEF PollInit
  <2>2. make_pollfd(Listener) \in Entries /\ make_pollfd(Listener).fd = Listener
    BY DEF make_pollfd, Entries
  <2>3. /\ pfds \in Seq(Entries) /\ Len(pfds) = 1 /\ pfds[1].fd = Listener
    BY <2>1, <2>2
  <2>4. PollWatch
    BY <1>2, <2>1, <2>3 DEF PollWatch, Entries
  <2>5. QED
    BY <2>1, <2>3, <2>4 DEF PollRelay, Astray
<1>5. SelectWatch /\ SelectCast
  <2>1. /\ master = {Listener} /\ read_fds = {} /\ maxfd = Listener /\ at = 0 /\ cast = NoCast
    BY <1>1 DEF SelectInit
  <2>2. QED
    BY <1>2, <2>1, FdFacts DEF SelectWatch, SelectCast
<1>6. QED
  BY <1>1, <1>3, <1>4, <1>5 DEF RelayInv, PollInv, SelectInv

LEMMA IsAstray ==
    /\ (PollAstray => Astray) /\ (PollWatch => ~Astray) /\ (PollInit => ~Astray)
    /\ (PollAstray' => Astray') /\ (PollWatch' => ~Astray')
<1>1. ASSUME NEW l \in Nat PROVE l + 2 > l /\ ~(0 > l) /\ \A n \in 0..l : ~(n > l)
  OBVIOUS
<1>2. (PollAstray => Astray) /\ (PollAstray' => Astray')
  BY <1>1, LenProperties DEF PollAstray, Astray
<1>3. (PollWatch => ~Astray) /\ (PollWatch' => ~Astray')
  BY <1>1, LenProperties DEF PollWatch, Astray
<1>4. PollInit => ~Astray
  BY DEF PollInit, Astray
<1>5. QED
  BY <1>2, <1>3, <1>4

LEMMA RelayNext ==
    ASSUME RelayInv, [Next]_vars
    PROVE  RelayInv'
<1>1. KernelInv /\ (~Astray => InOrder) /\ PollInv /\ SelectInv
  BY DEF RelayInv
<1>2. CASE program = "poll" /\ PollStep /\ UNCHANGED <<selectVars, program>>
  <2>1. SelectInit' /\ program' = "poll"
    BY <1>1, <1>2 DEF SelectInv, selectVars, SelectInit
  <2>2. CASE Astray
    <3>1. PollAstray
      BY <1>1, <1>2, <2>2 DEF PollInv
    <3>2. KernelInv' /\ PollAstray'
      BY <1>1, <1>2, <3>1, AstrayStep
    <3>3. Astray'
      BY <3>2, IsAstray
    <3>4. QED
      BY <2>1, <3>2, <3>3 DEF RelayInv, PollInv, SelectInv
  <2>3. CASE ~Astray
    <3>1. PollWatch /\ PollRelay /\ InOrder
      BY <1>1, <1>2, <2>3 DEF PollInv
    <3>2. KernelInv' /\ InOrder' /\ ((PollWatch' /\ PollRelay') \/ PollAstray')
      BY <1>1, <1>2, <3>1, PollStepPreserves
    <3>3. (PollWatch' => ~Astray') /\ (PollAstray' => Astray')
      BY IsAstray
    <3>4. QED
      BY <2>1, <3>2, <3>3 DEF RelayInv, PollInv, SelectInv
  <2>4. QED
    BY <2>2, <2>3
<1>3. CASE program = "select" /\ SelectStep /\ UNCHANGED <<pollVars, program>>
  <2>1. SelectWatch /\ SelectCast /\ PollInit
    BY <1>1, <1>3 DEF PollInv, SelectInv
  <2>2. InOrder
    BY <1>1, <2>1, IsAstray
  <2>3. KernelInv' /\ InOrder' /\ SelectWatch' /\ SelectCast'
    BY <1>1, <1>3, <2>1, <2>2, SelectStepPreserves
  <2>4. PollInit' /\ program' = "select"
    BY <1>3, <2>1 DEF pollVars, PollInit
  <2>5. QED
    BY <2>3, <2>4 DEF RelayInv, PollInv, SelectInv
<1>4. ASSUME KernelInv', InOrder => InOrder',
             UNCHANGED <<pollVars, selectVars, program, owner, received, got>>,
             \A f \in OpenFds : conn'[owner[f]] = "open" => conn[owner[f]] = "open"
      PROVE  RelayInv'
  <2>1. SocketTypeOK
    BY <1>1 DEF KernelInv
  <2>2. PollInv'
    <3>0. Astray' <=> Astray
      BY <1>4 DEF Astray, pollVars
    <3>1. CASE program = "poll"
      <4>1. CASE Astray
        BY <1>1, <1>4, <3>0, <3>1, <4>1 DEF PollInv, PollAstray, pollVars
      <4>2. CASE ~Astray
        <5>1. PollWatch /\ PollRelay
          BY <1>1, <3>1, <4>2 DEF PollInv
        <5>2. PollWatch' /\ PollRelay'
          BY <1>4, <2>1, <5>1, PollKept
        <5>3. QED
          BY <1>4, <3>0, <3>1, <4>2, <5>2 DEF PollInv
      <4>3. QED
        BY <4>1, <4>2
    <3>2. CASE program # "poll"
      BY <1>1, <1>4, <3>2 DEF PollInv, PollInit, pollVars
    <3>3. QED
      BY <3>1, <3>2
  <2>3. SelectInv'
    <3>1. CASE program = "select"
      <4>1. SelectWatch /\ SelectCast
        BY <1>1, <3>1 DEF SelectInv
      <4>2. SelectWatch' /\ SelectCast'
        BY <1>4, <2>1, <4>1, SelectKept
      <4>3. QED
        BY <1>4, <3>1, <4>2 DEF SelectInv
    <3>2. CASE program # "select"
      BY <1>1, <1>4, <3>2 DEF SelectInv, SelectInit, selectVars
    <3>3. QED
      BY <3>1, <3>2
  <2>4. ~Astray' => InOrder'
    BY <1>1, <1>4 DEF Astray, pollVars
  <2>5. QED
    BY <1>4, <2>2, <2>3, <2>4 DEF RelayInv
<1>5. ASSUME NEW c \in Clients, ClientStep(c), UNCHANGED <<pollVars, selectVars, program>>
      PROVE  RelayInv'
  BY <1>1, <1>4, <1>5, ClientStepSockets
<1>6. CASE UNCHANGED vars
  <2>1. UNCHANGED socketVars /\ UNCHANGED <<pollVars, selectVars, program>>
    BY <1>6 DEF vars
  <2>2. QED
    BY <1>1, <1>4, <2>1, KernelKept
<1>7. QED
  BY <1>2, <1>3, <1>5, <1>6 DEF Next, ServerStep

(* The server's descriptors and the loop over j are as RelayInv says.      *)
THEOREM RelayInvariant == Spec => []RelayInv
<1>1. Init => RelayInv
  BY RelayInit
<1>2. RelayInv /\ [Next]_vars => RelayInv'
  BY RelayNext
<1>3. QED
  BY <1>1, <1>2, PTL DEF Spec

-----------------------------------------------------------------------------
\* What RelayInv says of each program when it is at rest or the other one runs.
LEMMA Either ==
    ASSUME RelayInv
    PROVE  /\ (PollWatch /\ PollRelay) \/ (program # "poll" /\ PollInit) \/ (Astray /\ PollAstray)
           /\ (SelectWatch /\ SelectCast) \/ (program # "select" /\ SelectInit)
<1>1. CASE program = "poll"
  BY <1>1 DEF RelayInv, PollInv, SelectInv
<1>2. CASE program # "poll"
  BY <1>2 DEF RelayInv, PollInv, SelectInv
<1>3. QED
  BY <1>1, <1>2

(* Every variable of the servers and of the kernel keeps its type: j is an *)
(* index of pfds or one more, also when a hang-up of the last entry has    *)
(* taken i behind the vector; at and the j of cast do not pass maxfd.      *)
THEOREM RelayTypes == Spec => []RelayTypeOK
<1>1. ASSUME RelayInv PROVE RelayTypeOK
  <2>1. SocketTypeOK
    BY <1>1 DEF RelayInv, KernelInv
  <2>2. pfds \in Seq(Entries) /\ i \in 0..(Len(pfds) + 2) /\ relay \in {NoRelay} \cup Relays(Len(pfds))
    <3>1. CASE PollWatch /\ PollRelay
      <4>1. pfds \in Seq(Entries) /\ i \in 0..Len(pfds) /\ Len(pfds) \in Nat
        BY <3>1, LenProperties DEF PollWatch
      <4>2. relay # NoRelay => relay \in Relays(Len(pfds))
        BY <3>1 DEF PollRelay
      <4>3. QED
        BY <4>1, <4>2
    <3>2. CASE PollInit
      BY <3>2 DEF PollInit, make_pollfd, Entries
    <3>3. CASE PollAstray
      <4>1. Len(pfds) \in Nat
        BY <3>3, LenProperties DEF PollAstray
      <4>2. QED
        BY <3>3, <4>1 DEF PollAstray
    <3>4. QED
      BY <1>1, <3>1, <3>2, <3>3, Either
  <2>3. /\ master \subseteq Fds \cup {Listener} /\ read_fds \subseteq Fds \cup {Listener}
        /\ maxfd \in Fds \cup {Listener} /\ at \in 0..maxfd
        /\ cast \in {NoCast} \cup [msg : Messages, j : 1..maxfd]
    <3>1. CASE SelectWatch /\ SelectCast
      BY <3>1 DEF SelectWatch, SelectCast, OpenFds
    <3>2. CASE SelectInit
      BY <3>2, FdFacts DEF SelectInit
    <3>3. QED
      BY <1>1, <3>1, <3>2, Either
  <2>4. QED
    BY <2>1, <2>2, <2>3 DEF SocketTypeOK, RelayTypeOK, Entries, Relays
<1>2. QED
  BY <1>1, RelayInvariant, PTL

(* Neither server forgets a connection or waits for a descriptor that is   *)
(* closed: pfds has an entry for the listener and one for each open        *)
(* descriptor as long as no pass has left it, master has them too and none *)
(* above maxfd.                                                            *)
THEOREM Watching == Spec => []WatchesWhatIsOpen
<1>1. ASSUME RelayInv PROVE WatchesWhatIsOpen
  <2>1. ASSUME program = "poll", ~Astray
        PROVE  /\ {pfds[k].fd : k \in 1..Len(pfds)} = {Listener} \cup OpenFds
               /\ Len(pfds) = 1 + Cardinality(OpenFds)
    <3>1. PollWatch
      BY <1>1, <2>1, Either
    <3>2. /\ \A k \in 1..Len(pfds) : pfds[k].fd \in {Listener} \cup OpenFds
          /\ \A f \in {Listener} \cup OpenFds : \E k \in 1..Len(pfds) : pfds[k].fd = f
      BY <3>1 DEF PollWatch
    <3>3. {pfds[k].fd : k \in 1..Len(pfds)} = {Listener} \cup OpenFds
      BY <3>2, Zenon
    <3>4. QED
      BY <3>1, <3>3 DEF PollWatch
  <2>2. ASSUME program = "select"
        PROVE  master = {Listener} \cup OpenFds /\ \A f \in master : f <= maxfd
    <3>1. SelectWatch
      BY <1>1, <2>2, Either
    <3>2. QED
      BY <3>1 DEF SelectWatch
  <2>3. QED
    BY <2>1, <2>2 DEF WatchesWhatIsOpen
<1>2. QED
  BY <1>1, RelayInvariant, PTL

(* Both servers send what they receive in one order to everyone, and       *)
(* nothing back to the one who said it; poll_server until a pass leaves    *)
(* pfds.                                                                   *)
THEOREM SentInOneOrder == Spec => []OneOrder
<1>1. ASSUME RelayInv PROVE OneOrder
  <2>1. ASSUME ~Astray, NEW c \in Clients
        PROVE  /\ \A n \in 1..Len(got[c]) : got[c][n].msg[1] # c
               /\ \A n \in 2..Len(got[c]) : Place(got[c][n - 1].msg) < Place(got[c][n].msg)
    <3>1. Ordered(c)
      BY <1>1, <2>1 DEF RelayInv, InOrder
    <3>2. ASSUME NEW n \in 1..Len(got[c])
          PROVE  /\ Place(got[c][n].msg) \in 1..Len(received)
                 /\ received[Place(got[c][n].msg)] = got[c][n].msg
      <4>1. PICK m : m = got[c][n].msg
        OBVIOUS
      <4>2. \E p \in 1..Len(received) : received[p] = m
        BY <3>1, <3>2, <4>1 DEF Ordered
      <4>3. Place(m) \in 1..Len(received) /\ received[Place(m)] = m
        BY <4>2, Zenon DEF Place
      <4>4. QED
        BY <4>1, <4>3
    <3>3. ASSUME NEW n \in 2..Len(got[c])
          PROVE  Place(got[c][n - 1].msg) < Place(got[c][n].msg)
      <4>1. got[c] \in Seq([msg : Messages, size : 1..Size])
        BY <1>1 DEF RelayInv, KernelInv, SocketTypeOK
      <4>2. Len(got[c]) \in Nat
        BY <4>1, LenProperties
      <4>3. n \in 1..Len(got[c]) /\ n - 1 \in 1..Len(got[c])
        BY <3>3, <4>2
      <4>4. PICK p, q : p = Place(got[c][n - 1].msg) /\ q = Place(got[c][n].msg)
        OBVIOUS
      <4>5. /\ p \in 1..Len(received) /\ received[p] = got[c][n - 1].msg
            /\ q \in 1..Len(received) /\ received[q] = got[c][n].msg
        BY <3>2, <4>3, <4>4
      <4>6. p < q
        BY <3>1, <3>3, <4>5 DEF Ordered
      <4>7. QED
        BY <4>4, <4>6
    <3>4. QED
      BY <3>1, <3>3 DEF Ordered
  <2>2. QED
    BY <2>1 DEF OneOrder
<1>2. QED
  BY <1>1, RelayInvariant, PTL

(* When a loop over j ends, everyone connected but the sender was sent the *)
(* message in whole, with the exceptions OnlyTheseAreLeftOut names: the    *)
(* entries of pfds from the first on that sendall failed for, and the      *)
(* highest descriptor of selectserver.                                     *)
THEOREM NobodyElseIsLeftOut == Spec => []OnlyTheseAreLeftOut
<1>1. ASSUME RelayInv PROVE OnlyTheseAreLeftOut
  <2>1. ASSUME RelayEnds, NEW k \in 1..Len(pfds), pfds[k].fd \notin {Listener, relay.sender},
               relay.cut = 0 \/ k < relay.cut
        PROVE  SentWhole(pfds[k].fd, relay.msg)
    <3>1. relay # NoRelay /\ relay.j > Len(pfds) /\ ~Astray
      BY <2>1 DEF RelayEnds
    <3>2. PollWatch /\ PollRelay /\ KernelInv /\ InOrder
      BY <1>1, <3>1, Either DEF PollInit, RelayInv
    <3>3. /\ Len(pfds) \in Nat /\ relay.j \in 1..(Len(pfds) + 1)
          /\ relay.sender = pfds[i].fd
      BY <3>1, <3>2, RelayFacts
    <3>4. k < relay.j /\ k # i /\ pfds[k].fd # Listener
      BY <2>1, <3>1, <3>3
    <3>5. Before(k, relay.cut)
      BY <2>1 DEF Before
    <3>6. QED
      BY <3>1, <3>2, <3>4, <3>5 DEF PollRelay
  <2>2. ASSUME NEW g \in SelectOthers \ {maxfd} PROVE SentWhole(g, cast.msg)
    <3>1. cast # NoCast /\ cast.j = maxfd /\ g \in OpenFds /\ g # at /\ g # maxfd
      BY <2>2 DEF SelectOthers
    <3>2. SelectWatch /\ SelectCast
      BY <1>1, <3>1, Either DEF SelectInit
    <3>3. g < cast.j
      <4>1. g \in Nat /\ g <= maxfd /\ maxfd \in Nat
        <5>1. g \in master
          BY <3>1, <3>2 DEF SelectWatch
        <5>2. QED
          BY <3>2, <5>1, SelectFacts
      <4>2. QED
        BY <3>1, <4>1
    <3>4. QED
      BY <3>1, <3>2, <3>3 DEF SelectCast
  <2>3. QED
    BY <2>1, <2>2 DEF OnlyTheseAreLeftOut
<1>2. QED
  BY <1>1, RelayInvariant, PTL
=============================================================================
