------------------------- MODULE SharedQueueProofs -------------------------
(***************************************************************************)
(* The properties of SharedQueues for every number of threads and pushes:  *)
(* SharedTypeOK and SharedInv together are inductive, and the properties   *)
(* follow from them.                                                       *)
(***************************************************************************)
EXTENDS SharedQueues, FiniteSetTheorems, SequenceTheorems, TLAPS

SharedIInv == SharedTypeOK /\ SharedInv

-----------------------------------------------------------------------------
(* Sequences: what taking from an end, or adding to one, makes of them.    *)
Takes(d, e, q) == \/ d = Tail(q) /\ e = Head(q)
                  \/ d = Front(q) /\ e = Last(q)

LEMMA TakeFromFront ==
  ASSUME NEW S, NEW q \in Seq(S), q # <<>>
  PROVE  /\ Len(q) \in Nat \ {0} /\ Head(q) = q[1] /\ Head(q) \in S
         /\ Tail(q) \in Seq(S) /\ Len(Tail(q)) = Len(q) - 1
         /\ \A i \in 1 .. Len(q) - 1 : Tail(q)[i] = q[i + 1]
OBVIOUS

LEMMA TakeFromBack ==
  ASSUME NEW S, NEW q \in Seq(S), q # <<>>
  PROVE  /\ Len(q) \in Nat \ {0} /\ Last(q) = q[Len(q)] /\ Last(q) \in S
         /\ Front(q) \in Seq(S) /\ Len(Front(q)) = Len(q) - 1
         /\ \A i \in 1 .. Len(q) - 1 : Front(q)[i] = q[i]
<1>1. Len(q) \in Nat \ {0}
  OBVIOUS
<1>2. Last(q) = q[Len(q)] /\ Last(q) \in S
  BY <1>1 DEF Last
<1>3. Front(q) = SubSeq(q, 1, Len(q) - 1)
  BY DEF Front
<1>4. \A i \in 1 .. Len(q) - 1 : q[i] \in S
  BY <1>1, ElementOfSeq
<1>5. Len(q) - 1 \in Int /\ Len(q) - 1 >= 0 /\ 1 \in Int /\ Len(q) - 1 - 1 + 1 = Len(q) - 1
  BY <1>1
<1>6. /\ SubSeq(q, 1, Len(q) - 1) \in Seq(S)
      /\ Len(SubSeq(q, 1, Len(q) - 1)) = IF 1 <= Len(q) - 1 THEN Len(q) - 1 - 1 + 1 ELSE 0
      /\ \A i \in 1 .. Len(q) - 1 - 1 + 1 : SubSeq(q, 1, Len(q) - 1)[i] = q[1 + i - 1]
  BY <1>4, <1>5, SubSeqProperties
<1>7. \A i \in 1 .. Len(q) - 1 : q[1 + i - 1] = q[i]
  BY <1>1
<1>8. /\ SubSeq(q, 1, Len(q) - 1) \in Seq(S)
      /\ Len(SubSeq(q, 1, Len(q) - 1)) = Len(q) - 1
      /\ \A i \in 1 .. Len(q) - 1 : SubSeq(q, 1, Len(q) - 1)[i] = q[i]
  BY <1>5, <1>6, <1>7
<1> QED
  BY <1>1, <1>2, <1>3, <1>8

\* Where the element comes from, and what is left.
LEMMA TakeOne ==
  ASSUME NEW S, NEW q \in Seq(S), q # <<>>, NEW d, NEW e, Takes(d, e, q)
  PROVE  /\ e \in S /\ d \in Seq(S) /\ Len(d) = Len(q) - 1 /\ Len(q) \in Nat \ {0}
         /\ \E k \in 1 .. Len(q) : e = q[k]
         /\ \A i \in 1 .. Len(d) : \E j \in 1 .. Len(q) : d[i] = q[j]
         /\ IsInjective(q) => IsInjective(d) /\ \A i \in 1 .. Len(d) : d[i] # e
<1>0. Len(q) \in Nat \ {0} /\ DOMAIN q = 1 .. Len(q)
  OBVIOUS
<1>1. CASE d = Tail(q) /\ e = Head(q)
  <2>1. /\ e = q[1] /\ e \in S /\ d \in Seq(S) /\ Len(d) = Len(q) - 1
        /\ \A i \in 1 .. Len(q) - 1 : d[i] = q[i + 1]
    BY <1>1, TakeFromFront
  <2>2. DOMAIN d = 1 .. Len(d)
    BY <2>1
  <2>3. \A i \in 1 .. Len(d) : i + 1 \in 1 .. Len(q) /\ i + 1 # 1 /\ d[i] = q[i + 1]
    BY <1>0, <2>1
  <2>4. 1 \in 1 .. Len(q)
    BY <1>0
  <2>5. ASSUME IsInjective(q) PROVE IsInjective(d) /\ \A i \in 1 .. Len(d) : d[i] # e
    <3>1. ASSUME NEW i \in 1 .. Len(d), d[i] = e PROVE FALSE
      BY <1>0, <2>1, <2>3, <2>4, <2>5, <3>1 DEF IsInjective
    <3>2. ASSUME NEW i \in 1 .. Len(d), NEW j \in 1 .. Len(d), d[i] = d[j] PROVE i = j
      <4>1. i + 1 = j + 1
        BY <1>0, <2>3, <2>5, <3>2 DEF IsInjective
      <4> QED
        BY <4>1
    <3> QED
      BY <2>2, <3>1, <3>2 DEF IsInjective
  <2> QED
    BY <1>0, <2>1, <2>3, <2>4, <2>5
<1>2. CASE d = Front(q) /\ e = Last(q)
  <2>1. /\ e = q[Len(q)] /\ e \in S /\ d \in Seq(S) /\ Len(d) = Len(q) - 1
        /\ \A i \in 1 .. Len(q) - 1 : d[i] = q[i]
    BY <1>2, TakeFromBack
  <2>2. DOMAIN d = 1 .. Len(d)
    BY <2>1
  <2>5. \A n \in Nat : \A i \in 1 .. n - 1 : i \in 1 .. n /\ i # n
    BY SMTT(30)
  <2>6. \A i \in 1 .. Len(q) - 1 : i \in 1 .. Len(q) /\ i # Len(q)
    BY <1>0, <2>5
  <2>3. \A i \in 1 .. Len(d) : i \in 1 .. Len(q) /\ i # Len(q) /\ d[i] = q[i]
    BY <2>1, <2>6, SMTT(30)
  <2>4. Len(q) \in 1 .. Len(q)
    BY <1>0
  <2>7. IsInjective(q) => IsInjective(d) /\ \A i \in 1 .. Len(d) : d[i] # e
    BY <1>0, <2>1, <2>2, <2>3, <2>4 DEF IsInjective
  <2> QED
    BY <1>0, <2>1, <2>3, <2>4, <2>7
<1> QED
  BY <1>1, <1>2 DEF Takes

LEMMA AddToBack ==
  ASSUME NEW S, NEW q \in Seq(S), NEW v \in S
  PROVE  /\ Append(q, v) \in Seq(S) /\ Len(q) \in Nat /\ Len(Append(q, v)) = Len(q) + 1
         /\ Append(q, v)[Len(q) + 1] = v
         /\ \A i \in 1 .. Len(q) : Append(q, v)[i] = q[i]
OBVIOUS

LEMMA AddToFront ==
  ASSUME NEW S, NEW q \in Seq(S), NEW v \in S
  PROVE  /\ <<v>> \o q \in Seq(S) /\ Len(q) \in Nat /\ Len(<<v>> \o q) = Len(q) + 1
         /\ (<<v>> \o q)[1] = v
         /\ \A i \in 2 .. Len(q) + 1 : (<<v>> \o q)[i] = q[i - 1]
<1>1. <<v>> \in Seq(S) /\ Len(<<v>>) = 1 /\ Len(q) \in Nat
  OBVIOUS
<1> QED
  BY <1>1

\* A new element at either end of an injective sequence.
LEMMA AddOne ==
  ASSUME NEW S, NEW q \in Seq(S), NEW v \in S, NEW d, d = Append(q, v) \/ d = <<v>> \o q
  PROVE  /\ d \in Seq(S) /\ Len(d) = Len(q) + 1 /\ Len(q) \in Nat
         /\ \A i \in 1 .. Len(d) : d[i] = v \/ \E j \in 1 .. Len(q) : d[i] = q[j]
         /\ IsInjective(q) /\ (\A j \in 1 .. Len(q) : q[j] # v) => IsInjective(d)
<1>0. Len(q) \in Nat /\ DOMAIN q = 1 .. Len(q)
  OBVIOUS
<1>1. CASE d = Append(q, v)
  <2>1. /\ d \in Seq(S) /\ Len(d) = Len(q) + 1 /\ d[Len(q) + 1] = v
        /\ \A i \in 1 .. Len(q) : d[i] = q[i]
    BY <1>1, AddToBack
  <2>2. DOMAIN d = 1 .. Len(q) + 1
    BY <1>0, <2>1
  <2>3. \A i \in 1 .. Len(q) + 1 : i = Len(q) + 1 \/ i \in 1 .. Len(q)
    BY <1>0
  <2>4. IsInjective(q) /\ (\A j \in 1 .. Len(q) : q[j] # v) => IsInjective(d)
    BY <1>0, <2>1, <2>2, <2>3 DEF IsInjective
  <2> QED
    BY <1>0, <2>1, <2>3, <2>4
<1>2. CASE d = <<v>> \o q
  <2>1. /\ d \in Seq(S) /\ Len(d) = Len(q) + 1 /\ d[1] = v
        /\ \A i \in 2 .. Len(q) + 1 : d[i] = q[i - 1]
    BY <1>2, AddToFront
  <2>2. DOMAIN d = 1 .. Len(q) + 1
    BY <1>0, <2>1
  <2>3. \A i \in 1 .. Len(q) + 1 : i = 1 \/ (i \in 2 .. Len(q) + 1 /\ i - 1 \in 1 .. Len(q))
    BY <1>0
  <2>4. IsInjective(q) /\ (\A j \in 1 .. Len(q) : q[j] # v) => IsInjective(d)
    <3> SUFFICES ASSUME IsInjective(q), \A j \in 1 .. Len(q) : q[j] # v,
                        NEW a \in 1 .. Len(q) + 1, NEW b \in 1 .. Len(q) + 1, d[a] = d[b]
                 PROVE  a = b
      BY <2>2 DEF IsInjective
    <3>1. CASE a = 1
      BY <1>0, <2>1, <2>3, <3>1
    <3>2. CASE a # 1 /\ b = 1
      BY <1>0, <2>1, <2>3, <3>2
    <3>3. CASE a # 1 /\ b # 1
      <4>1. a - 1 \in 1 .. Len(q) /\ b - 1 \in 1 .. Len(q) /\ q[a - 1] = q[b - 1]
        BY <2>1, <2>3, <3>3
      <4>2. a - 1 = b - 1
        BY <1>0, <4>1 DEF IsInjective
      <4> QED
        BY <4>2
    <3> QED
      BY <3>1, <3>2, <3>3
  <2> QED
    BY <1>0, <2>1, <2>3, <2>4
<1> QED
  BY <1>1, <1>2
-----------------------------------------------------------------------------
(* What a step on one thread's call, or on one queue, keeps.               *)

\* A call that waits, or is woken, is of one of the operations that wait.
LEMMA CallParts ==
  ASSUME SharedTypeOK, NEW t \in QueueUsers
  PROVE  /\ call[t] \in Calls /\ call[t].q \in Queues /\ call[t].from \in Queues
         /\ call[t].op \in WaitOps \cup {"none", "assign"}
BY DEF SharedTypeOK, Calls

LEMMA NewCalls ==
  ASSUME NEW q \in Queues
  PROVE  /\ None \in Calls /\ None.op = "none" /\ None.at = "idle" /\ None.q = "this"
         /\ \A op \in WaitOps, at \in {"waiting", "woken", "check", "pop"} :
               /\ In(op, at, q) \in Calls /\ In(op, at, q).op = op
               /\ In(op, at, q).at = at /\ In(op, at, q).q = q
BY DEF None, In, Calls, Queues

\* The step of one call leaves the others where they are.
LEMMA OneCall ==
  ASSUME SharedTypeOK, NEW t \in QueueUsers, NEW c \in Calls, call' = [call EXCEPT ![t] = c]
  PROVE  /\ call' \in [QueueUsers -> Calls] /\ call'[t] = c
         /\ \A u \in QueueUsers : u # t => call'[u] = call[u]
BY DEF SharedTypeOK

LEMMA CallStep ==
  ASSUME SharedTypeOK, CallsFit, HoldersCopy,
         NEW t \in QueueUsers, NEW c \in Calls, call' = [call EXCEPT ![t] = c],
         UNCHANGED <<use, holder>>, call[t].at # "copying", c.at # "copying",
         use # "none",
         c.at \in {"waiting", "woken"} => c.op \in WaitOps,
         c.at \in {"check", "pop"} => c.op = "update",
         c.op = "update" => use = "updating",
         use = "updating" => c.op \in {"none", "update"} /\ (t # Updater => c = None),
         c.at = "locking" => use = "assigning" /\ c.q # c.from,
         use # "assigning" => c.q = "this"
  PROVE  CallsFit' /\ HoldersCopy'
<1>1. /\ call' \in [QueueUsers -> Calls] /\ call'[t] = c
      /\ \A u \in QueueUsers : u # t => call'[u] = call[u]
  BY OneCall
<1>2. CallsFit'
  <2> SUFFICES ASSUME NEW u \in QueueUsers PROVE Fits(u)'
    BY DEF CallsFit
  <2>1. CASE u = t
    BY <1>1, <2>1 DEF Fits
  <2>2. CASE u # t
    <3>1. call'[u] = call[u] /\ use' = use /\ Fits(u)
      BY <1>1, <2>2 DEF CallsFit
    <3> QED
      BY <3>1 DEF Fits
  <2> QED
    BY <2>1, <2>2
<1>3. HoldersCopy'
  <2>1. NobodyHoldsAndWaits'
    BY <1>1 DEF HoldersCopy, NobodyHoldsAndWaits
  <2>2. ASSUME NEW q \in Queues, holder'[q] # Free PROVE call'[holder'[q]].at = "copying"
    <3>1. holder[q] # Free /\ call[holder[q]].at = "copying" /\ holder[q] # t
      BY <2>2 DEF HoldersCopy
    <3>2. holder[q] \in QueueUsers
      BY <3>1 DEF SharedTypeOK
    <3> QED
      BY <1>1, <3>1, <3>2
  <2> QED
    BY <2>1, <2>2 DEF HoldersCopy
<1> QED
  BY <1>2, <1>3

\* The sleepers and the woken of a queue after the step of one call.
LEMMA WokenFinite ==
  ASSUME NEW q
  PROVE  IsFiniteSet(Awake(q)) /\ Cardinality(Awake(q)) \in Nat
<1>1. Awake(q) \subseteq QueueUsers /\ IsFiniteSet(QueueUsers)
  BY SharedConstants DEF Awake
<1> QED
  BY <1>1, FS_Subset, FS_CardinalityType

LEMMA SleepersStep ==
  ASSUME SharedTypeOK, NEW t \in QueueUsers, NEW c \in Calls, call' = [call EXCEPT ![t] = c],
         NEW q \in Queues
  PROVE  /\ Sleeping(q)' = IF c.at = "waiting" /\ c.q = q THEN Sleeping(q) \cup {t}
                           ELSE Sleeping(q) \ {t}
         /\ Awake(q)' = IF c.at = "woken" /\ c.q = q THEN Awake(q) \cup {t} ELSE Awake(q) \ {t}
<1>1. /\ call'[t] = c /\ \A u \in QueueUsers : u # t => call'[u] = call[u]
  BY OneCall
<1>2. Sleeping(q)' = {u \in QueueUsers : call'[u].at = "waiting" /\ call'[u].q = q}
  BY DEF Sleeping
<1>3. Awake(q)' = {u \in QueueUsers : call'[u].at = "woken" /\ call'[u].q = q}
  BY DEF Awake
<1>4. CASE c.at = "waiting" /\ c.q = q
  BY <1>1, <1>2, <1>3, <1>4 DEF Sleeping, Awake
<1>5. CASE c.at = "woken" /\ c.q = q
  BY <1>1, <1>2, <1>3, <1>5 DEF Sleeping, Awake
<1>6. CASE ~(c.at = "waiting" /\ c.q = q) /\ ~(c.at = "woken" /\ c.q = q)
  BY <1>1, <1>2, <1>3, <1>6 DEF Sleeping, Awake
<1> QED
  BY <1>4, <1>5, <1>6

\* How many are awake for the queue, as one call moves.
LEMMA WokenCount ==
  ASSUME SharedTypeOK, NEW t \in QueueUsers, NEW c \in Calls, call' = [call EXCEPT ![t] = c],
         NEW q \in Queues
  PROVE  /\ call[t].at # "woken" /\ c.at # "woken" => Cardinality(Awake(q)') = Cardinality(Awake(q))
         /\ call[t].q # q /\ c.q # q => Cardinality(Awake(q)') = Cardinality(Awake(q))
         /\ call[t].at # "woken" /\ c.at = "woken" /\ c.q = q =>
               Cardinality(Awake(q)') = Cardinality(Awake(q)) + 1
         /\ call[t].at = "woken" /\ call[t].q = q /\ c.at # "woken" =>
               Cardinality(Awake(q)') = Cardinality(Awake(q)) - 1
<1>1. Awake(q)' = IF c.at = "woken" /\ c.q = q THEN Awake(q) \cup {t} ELSE Awake(q) \ {t}
  BY SleepersStep
<1>2. t \in Awake(q) <=> call[t].at = "woken" /\ call[t].q = q
  BY DEF Awake
<1>3. IsFiniteSet(Awake(q)) /\ Cardinality(Awake(q)) \in Nat
  BY WokenFinite
<1>4. t \notin Awake(q) => Awake(q) \ {t} = Awake(q)
  OBVIOUS
<1>5. t \notin Awake(q) => Cardinality(Awake(q) \cup {t}) = Cardinality(Awake(q)) + 1
  BY <1>3, FS_AddElement
<1>6. t \in Awake(q) => Cardinality(Awake(q) \ {t}) = Cardinality(Awake(q)) - 1
  BY <1>3, FS_RemoveElement
<1> QED
  BY <1>1, <1>2, <1>4, <1>5, <1>6
-----------------------------------------------------------------------------
(* What taking an element, or adding one, does to the queue's invariants.  *)
Covered(q) == Sleeping(q) # {} => Cardinality(Awake(q)) + unheard[q] >= Len(data_[q])

LEMMA AtMostBounds ==
  ASSUME NEW n \in Nat, NEW S, NEW q \in Seq(S)
  PROVE  /\ AtMost(n, q) \in Nat /\ AtMost(n, q) <= Len(q)
         /\ AtMost(n, q) >= n \/ AtMost(n, q) >= Len(q)
<1>1. Len(q) \in Nat
  OBVIOUS
<1> QED
  BY <1>1 DEF AtMost

LEMMA QueueParts ==
  ASSUME SharedTypeOK, NEW q \in Queues
  PROVE  data_[q] \in Seq(1 .. PushMax) /\ Len(data_[q]) \in Nat /\ pushes \in Nat /\ PushMax \in Nat
         /\ pushes <= PushMax /\ unheard[q] \in Nat
<1>1. data_[q] \in Seq(1 .. PushMax)
  BY DEF SharedTypeOK
<1> QED
  BY <1>1, SharedConstants DEF SharedTypeOK

\* A step of a call that was not awake, and is neither awake nor asleep now.
LEMMA StillCovered ==
  ASSUME SharedTypeOK, NEW q \in Queues, Covered(q),
         NEW t \in QueueUsers, NEW c \in Calls, call' = [call EXCEPT ![t] = c],
         call[t].at # "woken", c.at \notin {"waiting", "woken"},
         unheard'[q] \in Nat, unheard'[q] >= unheard[q] \/ unheard'[q] >= Len(data_'[q]),
         data_'[q] = data_[q] \/ (Len(data_'[q]) \in Nat /\ Len(data_'[q]) <= Len(data_[q]))
  PROVE  Covered(q)'
<1>1. Sleeping(q)' = Sleeping(q) \ {t}
  BY SleepersStep
<1>2. Cardinality(Awake(q)') = Cardinality(Awake(q)) /\ Cardinality(Awake(q)) \in Nat
  BY WokenCount, WokenFinite
<1>4. CASE Cardinality(Awake(q)) + unheard[q] >= Len(data_[q])
  <2>1. Len(data_[q]) \in Nat /\ unheard[q] \in Nat
    BY QueueParts
  <2>2. Cardinality(Awake(q)') + unheard'[q] >= Len(data_'[q])
    BY <1>2, <1>4, <2>1
  <2> QED
    BY <2>2 DEF Covered
<1>5. CASE Sleeping(q) = {}
  BY <1>1, <1>5 DEF Covered
<1> QED
  BY <1>4, <1>5 DEF Covered

\* Neither does the step of a call change what is true of another queue.
LEMMA OtherCovered ==
  ASSUME SharedTypeOK, NEW q \in Queues, Covered(q),
         NEW t \in QueueUsers, NEW c \in Calls, call' = [call EXCEPT ![t] = c],
         call[t].q # q \/ call[t].at \notin {"waiting", "woken"},
         c.q # q \/ c.at \notin {"waiting", "woken"},
         unheard'[q] = unheard[q], data_'[q] = data_[q]
  PROVE  Covered(q)'
<1>1. Sleeping(q)' = Sleeping(q) \ {t} /\ Awake(q)' = Awake(q) \ {t}
  <2>1. /\ Sleeping(q)' = IF c.at = "waiting" /\ c.q = q THEN Sleeping(q) \cup {t}
                          ELSE Sleeping(q) \ {t}
        /\ Awake(q)' = IF c.at = "woken" /\ c.q = q THEN Awake(q) \cup {t} ELSE Awake(q) \ {t}
    BY SleepersStep
  <2>2. ~(c.at = "waiting" /\ c.q = q) /\ ~(c.at = "woken" /\ c.q = q)
    OBVIOUS
  <2> QED
    BY <2>1, <2>2
<1>2. t \notin Awake(q) /\ t \notin Sleeping(q)
  BY DEF Awake, Sleeping
<1>3. Sleeping(q)' = Sleeping(q) /\ Awake(q)' = Awake(q)
  BY <1>1, <1>2
<1> QED
  BY <1>3 DEF Covered

LEMMA TakeKeeps ==
  ASSUME SharedTypeOK, NoMoreThanPushed, InPushOrder, TakenOnce,
         NEW q \in Queues, q = "this" \/ use = "assigning", use # "none", data_[q] # <<>>,
         NEW d, NEW e, Takes(d, e, data_[q]),
         use = "updating" => d = Tail(data_[q]) /\ e = Head(data_[q]),
         data_' = [data_ EXCEPT ![q] = d],
         poppedSet' = IF use = "assigning" THEN poppedSet ELSE poppedSet \cup {e},
         UNCHANGED <<use, pushes>>
  PROVE  /\ data_' \in [Queues -> Seq(1 .. PushMax)] /\ poppedSet' \subseteq 1 .. PushMax
         /\ Len(data_'[q]) \in Nat /\ Len(data_'[q]) = Len(data_[q]) - 1
         /\ \A p \in Queues : p # q => data_'[p] = data_[p]
         /\ NoMoreThanPushed' /\ InPushOrder' /\ TakenOnce'
<1>1. data_[q] \in Seq(1 .. PushMax) /\ Len(data_[q]) \in Nat /\ pushes \in Nat
  BY QueueParts
<1>2. /\ e \in 1 .. PushMax /\ d \in Seq(1 .. PushMax) /\ Len(d) = Len(data_[q]) - 1
      /\ \E k \in 1 .. Len(data_[q]) : e = data_[q][k]
      /\ \A i \in 1 .. Len(d) : \E j \in 1 .. Len(data_[q]) : d[i] = data_[q][j]
      /\ IsInjective(data_[q]) => IsInjective(d) /\ \A i \in 1 .. Len(d) : d[i] # e
  <2> DEFINE S == 1 .. PushMax
             Q == data_[q]
  <2>1. Q \in Seq(S) /\ Q # <<>> /\ Takes(d, e, Q)
    BY <1>1
  <2> HIDE DEF S, Q
  <2>2. /\ e \in S /\ d \in Seq(S) /\ Len(d) = Len(Q) - 1
        /\ \E k \in 1 .. Len(Q) : e = Q[k]
        /\ \A i \in 1 .. Len(d) : \E j \in 1 .. Len(Q) : d[i] = Q[j]
        /\ IsInjective(Q) => IsInjective(d) /\ \A i \in 1 .. Len(d) : d[i] # e
    BY ONLY <2>1, TakeOne
  <2> QED
    BY <2>2 DEF S, Q
<1>3. Len(d) \in Nat /\ DOMAIN d = 1 .. Len(d) /\ DOMAIN data_[q] = 1 .. Len(data_[q])
  BY <1>1, <1>2
<1>4. /\ data_' \in [Queues -> Seq(1 .. PushMax)] /\ data_'[q] = d
      /\ \A p \in Queues : p # q => data_'[p] = data_[p]
  BY <1>2 DEF SharedTypeOK
<1>5. poppedSet' \subseteq 1 .. PushMax
  BY <1>2 DEF SharedTypeOK
<1>6. ASSUME use # "assigning" PROVE q = "this" /\ "this" \in Queues
  BY <1>6 DEF Queues
<1>7. NoMoreThanPushed'
  <2>1. \A p \in Queues : Len(data_'[p]) <= pushes'
    <3>1. Len(data_[q]) <= pushes
      BY DEF NoMoreThanPushed
    <3>2. Len(d) <= pushes
      BY <1>1, <1>2, <1>3, <3>1
    <3> QED
      BY <1>4, <3>2 DEF NoMoreThanPushed
  <2>2. ASSUME use # "assigning"
        PROVE  /\ poppedSet' \subseteq 1 .. pushes'
               /\ \A i \in 1 .. Len(data_'["this"]) : data_'["this"][i] <= pushes'
    <3>1. q = "this" /\ poppedSet \subseteq 1 .. pushes
          /\ \A i \in 1 .. Len(data_[q]) : data_[q][i] <= pushes
      BY <1>6, <2>2 DEF NoMoreThanPushed
    <3>2. e <= pushes /\ e \in 1 .. pushes
      BY <1>1, <1>2, <3>1
    <3>3. \A i \in 1 .. Len(d) : d[i] <= pushes
      BY <1>2, <3>1
    <3> QED
      BY <1>4, <2>2, <3>1, <3>2, <3>3
  <2> QED
    BY <2>1, <2>2 DEF NoMoreThanPushed
<1>8. InPushOrder'
  <2> SUFFICES ASSUME use = "updating"
               PROVE  /\ poppedSet' = 1 .. (pushes' - Len(data_'["this"]))
                      /\ \A i \in 1 .. Len(data_'["this"]) :
                            data_'["this"][i] = pushes' - Len(data_'["this"]) + i
    BY DEF InPushOrder
  <2>1. q = "this" /\ d = Tail(data_[q]) /\ e = Head(data_[q])
    BY <1>6
  <2>2. /\ poppedSet = 1 .. (pushes - Len(data_[q])) /\ Len(data_[q]) <= pushes
        /\ \A i \in 1 .. Len(data_[q]) : data_[q][i] = pushes - Len(data_[q]) + i
    BY <2>1 DEF InPushOrder, NoMoreThanPushed
  <2>3. Len(data_[q]) \in Nat \ {0} /\ e = data_[q][1]
        /\ \A i \in 1 .. Len(data_[q]) - 1 : d[i] = data_[q][i + 1]
    BY <1>1, <2>1, TakeFromFront
  <2>4. PICK n \in Nat : n = Len(data_[q])
    BY <1>1
  <2>5. n # 0 /\ n <= pushes /\ Len(d) = n - 1
    BY <1>2, <2>2, <2>3, <2>4
  <2>6. 1 \in 1 .. n /\ \A i \in 1 .. n - 1 : i + 1 \in 1 .. n
    BY <2>5
  <2>7. e = pushes - n + 1 /\ \A i \in 1 .. n - 1 : d[i] = pushes - n + (i + 1)
    BY <2>2, <2>3, <2>4, <2>6
  <2>8. (1 .. (pushes - n)) \cup {pushes - n + 1} = 1 .. (pushes - (n - 1))
    BY <1>1, <2>5
  <2>9. poppedSet' = 1 .. (pushes - Len(d))
    BY <2>2, <2>4, <2>5, <2>7, <2>8
  <2>10. \A i \in 1 .. n - 1 : pushes - n + (i + 1) = pushes - (n - 1) + i
    BY <1>1
  <2>11. \A i \in 1 .. Len(d) : d[i] = pushes - Len(d) + i
    BY <2>5, <2>7, <2>10
  <2> QED
    BY <1>4, <2>1, <2>9, <2>11
<1>9. TakenOnce'
  <2> SUFFICES ASSUME use # "assigning"
               PROVE  IsInjective(data_'["this"])
                      /\ \A i \in DOMAIN data_'["this"] : data_'["this"][i] \notin poppedSet'
    BY DEF TakenOnce
  <2>1. q = "this" /\ IsInjective(data_[q])
        /\ \A i \in 1 .. Len(data_[q]) : data_[q][i] \notin poppedSet
    BY <1>3, <1>6 DEF TakenOnce
  <2>2. IsInjective(d) /\ \A i \in 1 .. Len(d) : d[i] # e /\ d[i] \notin poppedSet
    BY <1>2, <2>1
  <2> QED
    BY <1>3, <1>4, <2>1, <2>2
<1> QED
  BY <1>2, <1>3, <1>4, <1>5, <1>7, <1>8, <1>9

LEMMA AddKeeps ==
  ASSUME SharedTypeOK, NoMoreThanPushed, InPushOrder, TakenOnce,
         NEW q \in Queues, q = "this" \/ use = "assigning", use # "none", pushes < PushMax,
         NEW d, NEW v, v = (IF use = "assigning" THEN 1 ELSE pushes + 1),
         d = Append(data_[q], v) \/ d = <<v>> \o data_[q],
         use = "updating" => d = Append(data_[q], v),
         data_' = [data_ EXCEPT ![q] = d], pushes' = pushes + 1, UNCHANGED <<use, poppedSet>>
  PROVE  /\ data_' \in [Queues -> Seq(1 .. PushMax)] /\ pushes' \in 0 .. PushMax
         /\ Len(data_'[q]) \in Nat /\ Len(data_'[q]) = Len(data_[q]) + 1
         /\ \A p \in Queues : p # q => data_'[p] = data_[p]
         /\ NoMoreThanPushed' /\ InPushOrder' /\ TakenOnce'
<1>1. data_[q] \in Seq(1 .. PushMax) /\ Len(data_[q]) \in Nat /\ pushes \in Nat /\ PushMax \in Nat
  BY QueueParts
<1>2. v \in 1 .. PushMax /\ pushes' \in 0 .. PushMax /\ v <= pushes + 1
  BY <1>1
<1>3. /\ d \in Seq(1 .. PushMax) /\ Len(d) = Len(data_[q]) + 1
      /\ \A i \in 1 .. Len(d) : d[i] = v \/ \E j \in 1 .. Len(data_[q]) : d[i] = data_[q][j]
      /\ IsInjective(data_[q]) /\ (\A j \in 1 .. Len(data_[q]) : data_[q][j] # v) => IsInjective(d)
  <2> DEFINE S == 1 .. PushMax
             Q == data_[q]
  <2>1. Q \in Seq(S) /\ v \in S /\ (d = Append(Q, v) \/ d = <<v>> \o Q)
    BY <1>1, <1>2
  <2> HIDE DEF S, Q
  <2>2. /\ d \in Seq(S) /\ Len(d) = Len(Q) + 1
        /\ \A i \in 1 .. Len(d) : d[i] = v \/ \E j \in 1 .. Len(Q) : d[i] = Q[j]
        /\ IsInjective(Q) /\ (\A j \in 1 .. Len(Q) : Q[j] # v) => IsInjective(d)
    BY ONLY <2>1, AddOne
  <2> QED
    BY <2>2 DEF S, Q
<1>4. Len(d) \in Nat /\ DOMAIN d = 1 .. Len(d) /\ DOMAIN data_[q] = 1 .. Len(data_[q])
  BY <1>1, <1>3
<1>5. /\ data_' \in [Queues -> Seq(1 .. PushMax)] /\ data_'[q] = d
      /\ \A p \in Queues : p # q => data_'[p] = data_[p]
  BY <1>3 DEF SharedTypeOK
<1>6. ASSUME use # "assigning"
      PROVE  /\ q = "this" /\ v = pushes + 1 /\ poppedSet \subseteq 1 .. pushes
             /\ \A j \in 1 .. Len(data_[q]) : data_[q][j] <= pushes /\ data_[q][j] \in Nat
  <2>1. q = "this" /\ v = pushes + 1 /\ poppedSet \subseteq 1 .. pushes
        /\ \A j \in 1 .. Len(data_[q]) : data_[q][j] <= pushes
    BY <1>6 DEF NoMoreThanPushed
  <2>2. \A j \in 1 .. Len(data_[q]) : data_[q][j] \in 1 .. PushMax
    BY <1>1, ElementOfSeq
  <2> QED
    BY <2>1, <2>2
<1>7. NoMoreThanPushed'
  <2>1. ASSUME NEW p \in Queues PROVE Len(data_'[p]) <= pushes'
    <3>1. Len(data_[p]) <= pushes /\ Len(data_[p]) \in Nat
      BY QueueParts DEF NoMoreThanPushed
    <3>2. CASE p = q
      BY <1>1, <1>3, <1>5, <3>1, <3>2
    <3>3. CASE p # q
      BY <1>1, <1>5, <3>1, <3>3
    <3> QED
      BY <3>2, <3>3
  <2>2. ASSUME use # "assigning"
        PROVE  /\ poppedSet' \subseteq 1 .. pushes'
               /\ \A i \in 1 .. Len(data_'["this"]) : data_'["this"][i] <= pushes'
    <3>1. poppedSet' \subseteq 1 .. pushes'
      BY <1>1, <1>6, <2>2
    <3>2. ASSUME NEW i \in 1 .. Len(d) PROVE d[i] <= pushes + 1
      <4>1. CASE d[i] = v
        BY <1>2, <4>1
      <4>2. CASE \E j \in 1 .. Len(data_[q]) : d[i] = data_[q][j]
        <5>1. PICK j \in 1 .. Len(data_[q]) : d[i] = data_[q][j]
          BY <4>2
        <5>2. data_[q][j] <= pushes /\ data_[q][j] \in Nat
          BY <1>6, <2>2
        <5> QED
          BY <1>1, <5>1, <5>2
      <4> QED
        BY <1>3, <4>1, <4>2
    <3> QED
      BY <1>5, <1>6, <2>2, <3>1, <3>2
  <2> QED
    BY <2>1, <2>2 DEF NoMoreThanPushed
<1>8. InPushOrder'
  <2> SUFFICES ASSUME use = "updating"
               PROVE  /\ poppedSet' = 1 .. (pushes' - Len(data_'["this"]))
                      /\ \A i \in 1 .. Len(data_'["this"]) :
                            data_'["this"][i] = pushes' - Len(data_'["this"]) + i
    BY DEF InPushOrder
  <2>1. q = "this" /\ d = Append(data_[q], v) /\ v = pushes + 1
    BY <1>6
  <2>2. /\ poppedSet = 1 .. (pushes - Len(data_[q]))
        /\ \A i \in 1 .. Len(data_[q]) : data_[q][i] = pushes - Len(data_[q]) + i
    BY <2>1 DEF InPushOrder
  <2>3. d[Len(data_[q]) + 1] = v /\ \A i \in 1 .. Len(data_[q]) : d[i] = data_[q][i]
    BY <1>1, <1>2, <2>1, AddToBack
  <2>4. PICK n \in Nat : n = Len(data_[q])
    BY <1>1
  <2>5. Len(d) = n + 1 /\ (pushes + 1) - (n + 1) = pushes - n
    BY <1>1, <1>3, <2>4
  <2>6. ASSUME NEW i \in 1 .. n + 1 PROVE d[i] = pushes - n + i
    <3>1. CASE i = n + 1
      BY <1>1, <2>1, <2>3, <2>4, <3>1
    <3>2. CASE i \in 1 .. n
      BY <2>2, <2>3, <2>4, <3>2, SMTT(30)
    <3> QED
      BY <3>1, <3>2
  <2> QED
    BY <1>5, <2>1, <2>2, <2>4, <2>5, <2>6
<1>9. TakenOnce'
  <2> SUFFICES ASSUME use # "assigning"
               PROVE  IsInjective(data_'["this"])
                      /\ \A i \in DOMAIN data_'["this"] : data_'["this"][i] \notin poppedSet'
    BY DEF TakenOnce
  <2>1. q = "this" /\ v = pushes + 1 /\ poppedSet \subseteq 1 .. pushes
        /\ \A j \in 1 .. Len(data_[q]) : data_[q][j] <= pushes /\ data_[q][j] \in Nat
    BY <1>6, SMTT(30)
  <2>2. IsInjective(data_[q]) /\ \A i \in 1 .. Len(data_[q]) : data_[q][i] \notin poppedSet
    BY <1>4, <2>1, ZenonT(30) DEF TakenOnce
  <2>3. \A j \in 1 .. Len(data_[q]) : data_[q][j] # v
    BY <1>1, <2>1
  <2>4. v \notin poppedSet
    BY <1>1, <2>1
  <2>5. IsInjective(d) /\ \A i \in 1 .. Len(d) : d[i] \notin poppedSet
    BY <1>3, <2>2, <2>3, <2>4
  <2> QED
    BY <1>4, <1>5, <2>1, <2>5, ZenonT(30)
<1> QED
  BY <1>1, <1>2, <1>3, <1>4, <1>5, <1>7, <1>8, <1>9
-----------------------------------------------------------------------------
(* The steps keep the invariant, action by action.                         *)
LEMMA SameCalls ==
  ASSUME CallsFit, HoldersCopy, UNCHANGED <<use, call, holder>>
  PROVE  CallsFit' /\ HoldersCopy'
BY DEF CallsFit, Fits, HoldersCopy, NobodyHoldsAndWaits

\* A sleeper that is woken keeps its operation.
LEMMA SleeperWakes ==
  ASSUME SharedIInv, use # "none", NEW s \in QueueUsers, call[s].at = "waiting",
         call' = [call EXCEPT ![s].at = "woken"], UNCHANGED <<use, holder>>
  PROVE  LET c == [call[s] EXCEPT !.at = "woken"]
         IN  /\ c \in Calls /\ c.at = "woken" /\ c.q = call[s].q
             /\ call' = [call EXCEPT ![s] = c] /\ call' \in [QueueUsers -> Calls]
             /\ CallsFit' /\ HoldersCopy'
             /\ call'[Updater].at = "pop" => call[Updater].at = "pop"
<1> DEFINE c == [call[s] EXCEPT !.at = "woken"]
<1>1. call[s] \in Calls
  BY CallParts DEF SharedIInv
<1>2. c \in Calls /\ c.at = "woken" /\ c.q = call[s].q /\ c.op = call[s].op /\ c.from = call[s].from
  BY <1>1 DEF Calls
<1>3. call' = [call EXCEPT ![s] = c]
  OBVIOUS
<1>4. Fits(s) /\ None.at = "idle"
  BY DEF SharedIInv, SharedInv, CallsFit, None
<1> HIDE DEF c
<1>5. CallsFit' /\ HoldersCopy'
  <2>1. c.op \in WaitOps /\ (c.op = "update" => use = "updating") /\ (use # "assigning" => c.q = "this")
    BY <1>2, <1>4 DEF Fits
  <2>2. use = "updating" => c.op \in {"none", "update"} /\ (s # Updater => c = None)
    BY <1>2, <1>4 DEF Fits
  <2> QED
    BY <1>2, <1>3, <2>1, <2>2, CallStep DEF SharedIInv, SharedInv
<1>6. call' \in [QueueUsers -> Calls] /\ call'[s] = c /\ \A u \in QueueUsers : u # s => call'[u] = call[u]
  BY <1>2, <1>3, OneCall DEF SharedIInv
<1>7. call'[Updater].at = "pop" => call[Updater].at = "pop"
  BY <1>2, <1>6, SharedConstants
<1> QED
  BY <1>2, <1>3, <1>5, <1>6, <1>7 DEF c

LEMMA PushInv ==
  ASSUME SharedIInv, use \in Uses, NEW t \in QueueUsers, NEW q \in Queues, NEW front \in BOOLEAN,
         PushTo(t, q, front), q = "this" \/ use = "assigning", use = "updating" => front = FALSE
  PROVE  SharedIInv'
<1> DEFINE v == IF use = "assigning" THEN 1 ELSE pushes + 1
           d == IF front THEN <<v>> \o data_[q] ELSE Append(data_[q], v)
<1>0. SharedTypeOK /\ SharedInv /\ use # "none"
  BY DEF SharedIInv, Uses
<1>1. /\ data_' = [data_ EXCEPT ![q] = d] /\ pushes < PushMax /\ pushes' = pushes + 1
      /\ UNCHANGED <<use, holder, poppedSet, unheard>> /\ call' \in WakeOne(q, call)
  <2>1. pushes' = pushes + 1
    BY DEF PushTo
  <2> QED
    BY <2>1 DEF PushTo
<1>2. /\ data_' \in [Queues -> Seq(1 .. PushMax)] /\ pushes' \in 0 .. PushMax
      /\ Len(data_'[q]) \in Nat /\ Len(data_'[q]) = Len(data_[q]) + 1
      /\ \A p \in Queues : p # q => data_'[p] = data_[p]
      /\ NoMoreThanPushed' /\ InPushOrder' /\ TakenOnce'
  <2>1. d = Append(data_[q], v) \/ d = <<v>> \o data_[q]
    OBVIOUS
  <2>2. use = "updating" => d = Append(data_[q], v)
    OBVIOUS
  <2>3. v = IF use = "assigning" THEN 1 ELSE pushes + 1
    OBVIOUS
  <2> HIDE DEF d, v
  <2> QED
    BY <1>0, <1>1, <2>1, <2>2, <2>3, AddKeeps DEF SharedInv
<1> HIDE DEF d, v
<1>3. ASSUME Sleeping(q) = {}, call' = call PROVE SharedIInv'
  <2>1. CallsFit' /\ HoldersCopy' /\ call' \in [QueueUsers -> Calls]
    BY <1>0, <1>1, <1>3, SameCalls DEF SharedInv, SharedTypeOK
  <2>2. SawOne'
    <3>1. call[Updater].at = "pop" => data_["this"] # <<>> /\ "this" \in Queues
      BY <1>0 DEF SharedInv, SawOne, Queues
    <3>2. CASE q = "this"
      BY <1>2, <3>2 DEF SawOne
    <3>3. CASE q # "this"
      BY <1>2, <1>3, <3>1, <3>3 DEF SawOne
    <3> QED
      BY <3>2, <3>3
  <2>3. ASSUME NEW p \in Queues PROVE Covered(p)'
    <3>1. Sleeping(p)' = Sleeping(p) /\ Awake(p)' = Awake(p)
      BY <1>3 DEF Sleeping, Awake
    <3>2. Covered(p)
      BY <1>0 DEF SharedInv, NoElementBesideASleeper, Covered
    <3>3. CASE p = q
      BY <1>3, <3>1, <3>3 DEF Covered
    <3>4. CASE p # q
      BY <1>1, <1>2, <3>1, <3>2, <3>4 DEF Covered
    <3> QED
      BY <3>3, <3>4
  <2>4. NoElementBesideASleeper'
    BY <2>3 DEF NoElementBesideASleeper, Covered
  <2> QED
    BY <1>0, <1>1, <1>2, <2>1, <2>2, <2>4 DEF SharedIInv, SharedInv, SharedTypeOK
<1>4. ASSUME NEW s \in Sleeping(q), call' = [call EXCEPT ![s].at = "woken"] PROVE SharedIInv'
  <2>1. s \in QueueUsers /\ call[s].at = "waiting" /\ call[s].q = q
    BY DEF Sleeping
  <2> DEFINE c == [call[s] EXCEPT !.at = "woken"]
  <2>2. /\ c \in Calls /\ c.at = "woken" /\ c.q = q
        /\ call' = [call EXCEPT ![s] = c] /\ call' \in [QueueUsers -> Calls]
        /\ CallsFit' /\ HoldersCopy'
        /\ call'[Updater].at = "pop" => call[Updater].at = "pop"
    BY <1>0, <1>1, <1>4, <2>1, SleeperWakes
  <2> HIDE DEF c
  <2>3. SawOne'
    <3>1. call[Updater].at = "pop" => data_["this"] # <<>> /\ "this" \in Queues
      BY <1>0 DEF SharedInv, SawOne, Queues
    <3>2. CASE q = "this"
      BY <1>2, <3>2 DEF SawOne
    <3>3. CASE q # "this"
      BY <1>2, <2>2, <3>1, <3>3 DEF SawOne
    <3> QED
      BY <3>2, <3>3
  <2>4. ASSUME NEW p \in Queues PROVE Covered(p)'
    <3>1. Covered(p) /\ unheard[p] \in Nat
      BY <1>0, QueueParts DEF SharedInv, NoElementBesideASleeper, Covered
    <3>2. CASE p = q
      <4>1. Cardinality(Awake(q)') = Cardinality(Awake(q)) + 1 /\ Cardinality(Awake(q)) \in Nat
        BY <1>0, <2>1, <2>2, WokenCount, WokenFinite
      <4>2. Len(data_[q]) \in Nat
        BY <1>0, QueueParts
      <4>3. Cardinality(Awake(q)) + unheard[q] >= Len(data_[q]) /\ unheard[q] \in Nat
        BY <3>1, <3>2 DEF Covered
      <4>4. Cardinality(Awake(q)') + unheard'[q] >= Len(data_'[q])
        BY <1>1, <1>2, <4>1, <4>2, <4>3
      <4> QED
        BY <3>2, <4>4 DEF Covered
    <3>3. CASE p # q
      <4>1. call[s].q # p /\ c.q # p /\ unheard'[p] = unheard[p] /\ data_'[p] = data_[p]
        BY <1>1, <1>2, <2>1, <2>2, <3>3
      <4> QED
        BY <1>0, <2>1, <2>2, <3>1, <4>1, OtherCovered
    <3> QED
      BY <3>2, <3>3
  <2>5. NoElementBesideASleeper'
    BY <2>4 DEF NoElementBesideASleeper, Covered
  <2> QED
    BY <1>0, <1>1, <1>2, <2>2, <2>3, <2>5 DEF SharedIInv, SharedInv, SharedTypeOK
<1> QED
  BY <1>1, <1>3, <1>4 DEF WakeOne
\* The predicate of a wait holds, at once or after the wake that is used up.
LEMMA FoundInv ==
  ASSUME SharedIInv, use \in Uses, NEW t \in QueueUsers, NEW q \in Queues, NEW op \in WaitOps,
         FoundData(t, op, q), data_[q] # <<>>, UNCHANGED <<use, holder, pushes>>,
         q = "this" \/ use = "assigning", op = "update" <=> use = "updating",
         op = "update" => t = Updater,
         call[t].at = "idle" \/ (call[t].at = "woken" /\ call[t].q = q)
  PROVE  SharedIInv'
<1> DEFINE c == IF op = "update" THEN In("update", "check", q) ELSE None
<1>0. SharedTypeOK /\ SharedInv /\ use # "none"
  BY DEF SharedIInv, Uses
<1>1. call' = [call EXCEPT ![t] = c]
  BY DEF FoundData
<1>2. /\ c \in Calls /\ c.at \in {"idle", "check"} /\ (c.at = "check" => c.op = "update")
      /\ c.op = "update" => use = "updating"
      /\ use = "updating" => c.op = "update"
      /\ use # "assigning" => c.q = "this"
  <2>1. /\ None \in Calls /\ None.op = "none" /\ None.at = "idle" /\ None.q = "this"
        /\ In("update", "check", q) \in Calls /\ In("update", "check", q).op = "update"
        /\ In("update", "check", q).at = "check" /\ In("update", "check", q).q = q
    BY NewCalls DEF WaitOps
  <2> QED
    BY <2>1
<1> HIDE DEF c
<1>3. call' \in [QueueUsers -> Calls] /\ call'[t] = c /\ \A u \in QueueUsers : u # t => call'[u] = call[u]
  BY <1>0, <1>1, <1>2, OneCall
<1>4. CallsFit' /\ HoldersCopy'
  BY <1>0, <1>1, <1>2, CallStep DEF SharedInv
<1>5. /\ data_' \in [Queues -> Seq(1 .. PushMax)] /\ poppedSet' \subseteq 1 .. PushMax
      /\ Len(data_'[q]) \in Nat /\ Len(data_[q]) \in Nat
      /\ Taking(op) => Len(data_'[q]) = Len(data_[q]) - 1
      /\ ~Taking(op) => Len(data_'[q]) = Len(data_[q])
      /\ \A p \in Queues : p # q => data_'[p] = data_[p]
      /\ NoMoreThanPushed' /\ InPushOrder' /\ TakenOnce'
  <2>0. Len(data_[q]) \in Nat
    BY <1>0, QueueParts
  <2>1. CASE Taking(op)
    <3> DEFINE d == IF op = "wait_pop_back" THEN Front(data_[q]) ELSE Tail(data_[q])
               e == Element(op, q)
    <3>1. Takes(d, e, data_[q])
      BY DEF Takes, Element
    <3>2. data_' = [data_ EXCEPT ![q] = d]
      BY <2>1 DEF FoundData
    <3>3. poppedSet' = IF use = "assigning" THEN poppedSet ELSE poppedSet \cup {e}
      BY <2>1 DEF FoundData
    <3>4. use # "updating"
      BY <2>1 DEF Taking
    <3> HIDE DEF d, e
    <3> QED
      BY <1>0, <2>0, <2>1, <3>1, <3>2, <3>3, <3>4, TakeKeeps DEF SharedInv
  <2>2. CASE ~Taking(op)
    <3>1. UNCHANGED <<data_, poppedSet>>
      BY <2>2 DEF FoundData
    <3> QED
      BY <1>0, <2>0, <2>2, <3>1 DEF SharedInv, SharedTypeOK, NoMoreThanPushed, InPushOrder, TakenOnce
  <2> QED
    BY <2>1, <2>2
<1>6. SawOne'
  <2> SUFFICES ASSUME call'[Updater].at = "pop" PROVE FALSE
    BY DEF SawOne
  <2>1. Updater # t /\ call[Updater].at = "pop" /\ Updater \in QueueUsers
    BY <1>2, <1>3, SharedConstants
  <2>2. use = "updating"
    BY <1>0, <2>1 DEF SharedInv, CallsFit, Fits
  <2> QED
    BY <2>1, <2>2
<1>u. /\ unheard' \in [Queues -> 0 .. PushMax] /\ unheard'[q] \in Nat
      /\ \A p \in Queues : p # q => unheard'[p] = unheard[p]
      /\ unheard'[q] >= unheard[q] \/ unheard'[q] >= Len(data_'[q])
      /\ op = "wait_for_data" /\ call[t].at = "woken" =>
            unheard'[q] >= unheard[q] + 1 \/ unheard'[q] >= Len(data_'[q])
  <2> DEFINE b == op = "wait_for_data" /\ call[t].at = "woken"
             n == IF b THEN unheard[q] + 1 ELSE unheard[q]
             m == AtMost(n, data_'[q])
  <2>1. unheard' = [unheard EXCEPT ![q] = m]
    BY DEF FoundData
  <2>2. unheard \in [Queues -> 0 .. PushMax] /\ unheard[q] \in Nat
    BY <1>0, QueueParts DEF SharedTypeOK
  <2>3. n \in Nat /\ n >= unheard[q] /\ (b => n = unheard[q] + 1)
    BY <2>2
  <2>4. data_'[q] \in Seq(1 .. PushMax) /\ Len(data_'[q]) <= PushMax /\ PushMax \in Nat
    <3>1. Len(data_'[q]) <= pushes' /\ pushes' = pushes
      BY <1>5 DEF NoMoreThanPushed
    <3> QED
      BY <1>0, <1>5, <3>1, QueueParts
  <2> HIDE DEF n, b
  <2>5. m \in Nat /\ m <= Len(data_'[q]) /\ (m >= n \/ m >= Len(data_'[q]))
    BY <2>3, <2>4, AtMostBounds
  <2> HIDE DEF m
  <2>6. m \in 0 .. PushMax /\ (m >= unheard[q] \/ m >= Len(data_'[q]))
    BY <1>5, <2>2, <2>3, <2>4, <2>5
  <2>7. /\ unheard' \in [Queues -> 0 .. PushMax] /\ unheard'[q] = m
        /\ \A p \in Queues : p # q => unheard'[p] = unheard[p]
    BY <2>1, <2>2, <2>6
  <2>8. b => m >= unheard[q] + 1 \/ m >= Len(data_'[q])
    BY <2>3, <2>5
  <2> QED
    BY <2>5, <2>6, <2>7, <2>8 DEF b
<1>7. ASSUME NEW p \in Queues PROVE Covered(p)'
  <2>1. Covered(p) /\ unheard[p] \in Nat
    BY <1>0, QueueParts DEF SharedInv, NoElementBesideASleeper, Covered
  <2>2. CASE p # q
    <3>1. call[t].q # p \/ call[t].at \notin {"waiting", "woken"}
      BY <2>2
    <3>2. c.at \notin {"waiting", "woken"} /\ unheard'[p] = unheard[p] /\ data_'[p] = data_[p]
      BY <1>2, <1>5, <1>u, <2>2
    <3> QED
      BY <1>0, <1>1, <1>2, <2>1, <3>1, <3>2, OtherCovered
  <2>3. CASE p = q /\ call[t].at = "idle"
    <3>1. /\ call[t].at # "woken" /\ c.at \notin {"waiting", "woken"} /\ unheard'[p] \in Nat
          /\ unheard'[p] >= unheard[p] \/ unheard'[p] >= Len(data_'[p])
          /\ Len(data_'[p]) \in Nat /\ Len(data_'[p]) <= Len(data_[p])
      BY <1>2, <1>5, <1>u, <2>3
    <3> QED
      BY <1>0, <1>1, <1>2, <2>1, <3>1, StillCovered
  <2>4. CASE p = q /\ call[t].at = "woken"
    <3>1. call[t].q = q /\ (op = "wait_for_data" => unheard'[q] >= unheard[q] + 1
                                                   \/ unheard'[q] >= Len(data_'[q]))
      BY <1>u, <2>4
    <3>2. Cardinality(Awake(q)') = Cardinality(Awake(q)) - 1
      BY <1>0, <1>1, <1>2, <2>4, <3>1, WokenCount
    <3>3. Cardinality(Awake(q)) \in Nat /\ Cardinality(Awake(q)') \in Nat
      <4>1. Awake(q)' \subseteq QueueUsers /\ IsFiniteSet(QueueUsers)
        BY SharedConstants DEF Awake
      <4> QED
        BY <4>1, WokenFinite, FS_Subset, FS_CardinalityType
    <3>4. CASE Sleeping(q) = {}
      <4>1. Sleeping(q)' = Sleeping(q) \ {t}
        BY <1>0, <1>1, <1>2, SleepersStep
      <4> QED
        BY <2>4, <3>4, <4>1 DEF Covered
    <3>6. CASE Cardinality(Awake(q)) + unheard[q] >= Len(data_[q])
      <4>0. unheard[q] \in Nat
        BY <2>1, <2>4
      <4>1. CASE Taking(op)
        <5>1. Cardinality(Awake(q)') + unheard'[q] >= Len(data_'[q])
          BY <1>5, <1>u, <3>2, <3>3, <3>6, <4>0, <4>1
        <5> QED
          BY <2>4, <5>1 DEF Covered
      <4>2. CASE op = "wait_for_data"
        <5>1. Len(data_'[q]) = Len(data_[q])
          BY <1>5, <4>2 DEF Taking
        <5>2. Cardinality(Awake(q)') + unheard'[q] >= Len(data_'[q])
          BY <1>5, <1>u, <3>1, <3>2, <3>3, <3>6, <4>0, <4>2, <5>1
        <5> QED
          BY <2>4, <5>2 DEF Covered
      <4>3. CASE op = "update"
        <5>1. use = "updating" /\ t = Updater
          BY <4>3
        <5>2. ASSUME NEW u \in QueueUsers, call'[u].at = "waiting" PROVE FALSE
          <6>1. u # t /\ call[u].at = "waiting"
            BY <1>2, <1>3, <5>2
          <6>2. call[u] = None
            BY <1>0, <5>1, <6>1 DEF SharedInv, CallsFit, Fits
          <6> QED
            BY <6>1, <6>2 DEF None
        <5>3. Sleeping(q)' = {}
          BY <5>2 DEF Sleeping
        <5> QED
          BY <2>4, <5>3 DEF Covered
      <4> QED
        BY <4>1, <4>2, <4>3 DEF Taking, WaitOps
    <3> QED
      BY <2>1, <2>4, <3>4, <3>6 DEF Covered
  <2> QED
    BY <2>2, <2>3, <2>4
<1>8. NoElementBesideASleeper'
  BY <1>7 DEF NoElementBesideASleeper, Covered
<1> QED
  BY <1>0, <1>3, <1>4, <1>5, <1>6, <1>8, <1>u DEF SharedIInv, SharedInv, SharedTypeOK

\* A step that moves one call and no element.
LEMMA CallInv ==
  ASSUME SharedIInv, use # "none", NEW t \in QueueUsers, NEW c \in Calls,
         call' = [call EXCEPT ![t] = c],
         UNCHANGED <<use, data_, holder, pushes, poppedSet, unheard>>,
         CallsFit', HoldersCopy', c.at = "pop" => data_[c.q] # <<>> /\ c.q = "this",
         \A q \in Queues : Covered(q)'
  PROVE  SharedIInv'
<1>0. SharedTypeOK /\ SharedInv
  BY DEF SharedIInv
<1>1. call' \in [QueueUsers -> Calls] /\ call'[t] = c /\ \A u \in QueueUsers : u # t => call'[u] = call[u]
  BY <1>0, OneCall
<1>2. SawOne'
  <2>1. CASE t = Updater
    BY <1>1, <2>1 DEF SawOne
  <2>2. CASE t # Updater
    BY <1>0, <1>1, <2>2, SharedConstants DEF SharedInv, SawOne
  <2> QED
    BY <2>1, <2>2
<1>3. NoMoreThanPushed' /\ InPushOrder' /\ TakenOnce'
  BY <1>0 DEF SharedInv, NoMoreThanPushed, InPushOrder, TakenOnce
<1>4. NoElementBesideASleeper'
  BY DEF NoElementBesideASleeper, Covered
<1> QED
  BY <1>0, <1>1, <1>2, <1>3, <1>4 DEF SharedIInv, SharedInv, SharedTypeOK
LEMMA WaitInv ==
  ASSUME SharedIInv, use \in Uses, NEW t \in QueueUsers, NEW q \in Queues, NEW op \in WaitOps,
         WaitFor(t, op, q), q = "this" \/ use = "assigning", op = "update" <=> use = "updating",
         op = "update" => t = Updater
  PROVE  SharedIInv'
<1>0. SharedTypeOK /\ SharedInv /\ use # "none"
  BY DEF SharedIInv, Uses
<1>1. call[t].at = "idle" /\ call[t].q = "this" /\ UNCHANGED <<use, holder, pushes>>
  BY DEF WaitFor, None
<1>2. CASE /\ data_[q] = <<>> /\ call' = [call EXCEPT ![t] = In(op, "waiting", q)]
           /\ UNCHANGED <<data_, poppedSet, unheard>>
  <2> DEFINE c == In(op, "waiting", q)
  <2>1. c \in Calls /\ c.op = op /\ c.at = "waiting" /\ c.q = q
    BY NewCalls
  <2>2. call' = [call EXCEPT ![t] = c]
    BY <1>2
  <2> HIDE DEF c
  <2>3. CallsFit' /\ HoldersCopy'
    BY <1>0, <1>1, <2>1, <2>2, CallStep DEF SharedInv
  <2>4. ASSUME NEW p \in Queues PROVE Covered(p)'
    <3>1. Covered(p) /\ unheard[p] \in Nat
      BY <1>0, QueueParts DEF SharedInv, NoElementBesideASleeper, Covered
    <3>2. CASE p = q
      <4>1. Cardinality(Awake(q)') = Cardinality(Awake(q)) /\ Cardinality(Awake(q)) \in Nat
        BY <1>0, <1>1, <2>1, <2>2, WokenCount, WokenFinite
      <4>2. Len(data_'[q]) = 0
        BY <1>2
      <4>3. Cardinality(Awake(q)') + unheard'[q] >= Len(data_'[q])
        BY <1>2, <3>1, <3>2, <4>1, <4>2
      <4> QED
        BY <3>2, <4>3 DEF Covered
    <3>3. CASE p # q
      <4>1. call[t].at \notin {"waiting", "woken"} /\ c.q # p /\ unheard'[p] = unheard[p]
            /\ data_'[p] = data_[p]
        BY <1>1, <1>2, <2>1, <3>3
      <4> QED
        BY <1>0, <2>1, <2>2, <3>1, <4>1, OtherCovered
    <3> QED
      BY <3>2, <3>3
  <2> QED
    BY <1>0, <1>1, <1>2, <2>1, <2>2, <2>3, <2>4, CallInv
<1>3. CASE data_[q] # <<>> /\ FoundData(t, op, q)
  BY <1>0, <1>1, <1>3, FoundInv
<1> QED
  BY <1>2, <1>3 DEF WaitFor

\* What the call of a thread that waits, or is woken, says of the use.
LEMMA WaitingCall ==
  ASSUME SharedIInv, use # "none", NEW t \in QueueUsers, call[t].at \in {"waiting", "woken"}
  PROVE  /\ use \in Uses /\ call[t].op \in WaitOps /\ call[t].q \in Queues
         /\ call[t].q = "this" \/ use = "assigning"
         /\ call[t].op = "update" <=> use = "updating"
         /\ call[t].op = "update" => t = Updater
<1>1. Fits(t) /\ SharedTypeOK /\ None.op = "none"
  BY DEF SharedIInv, SharedInv, CallsFit, None
<1>2. use \in Uses /\ call[t].q \in Queues
  BY <1>1, CallParts DEF SharedTypeOK
<1>3. call[t].op \in WaitOps /\ (call[t].q = "this" \/ use = "assigning")
  BY <1>1 DEF Fits
<1>4. call[t].op = "update" <=> use = "updating"
  BY <1>1, <1>3 DEF Fits, WaitOps
<1>5. call[t].op = "update" => t = Updater
  BY <1>1, <1>4 DEF Fits
<1> QED
  BY <1>2, <1>3, <1>4, <1>5

LEMMA WakeInv ==
  ASSUME SharedIInv, use # "none", NEW t \in QueueUsers, Wake(t)
  PROVE  SharedIInv'
<1> DEFINE q == call[t].q
           op == call[t].op
<1>0. SharedTypeOK /\ SharedInv
  BY DEF SharedIInv
<1>1. call[t].at = "woken" /\ UNCHANGED <<use, holder, pushes>>
  BY DEF Wake
<1>2. /\ use \in Uses /\ op \in WaitOps /\ q \in Queues /\ (q = "this" \/ use = "assigning")
      /\ op = "update" <=> use = "updating"
      /\ op = "update" => t = Updater
  BY <1>1, WaitingCall
<1>3. \/ /\ data_[q] = <<>> /\ call' = [call EXCEPT ![t].at = "waiting"]
         /\ UNCHANGED <<data_, poppedSet, unheard>>
      \/ data_[q] # <<>> /\ FoundData(t, op, q)
  BY DEF Wake
<1>4. PICK p \in Queues : p = q
  BY <1>2
<1>5. PICK o \in WaitOps : o = op
  BY <1>2
<1>6. CASE data_[q] = <<>> /\ call' = [call EXCEPT ![t].at = "waiting"] /\ UNCHANGED <<data_, poppedSet, unheard>>
  <2> DEFINE c == [call[t] EXCEPT !.at = "waiting"]
  <2>1. c \in Calls /\ c.op = o /\ c.at = "waiting" /\ c.q = p /\ call' = [call EXCEPT ![t] = c]
    <3>1. call[t] \in Calls
      BY <1>0, CallParts
    <3> QED
      BY <1>4, <1>5, <1>6, <3>1 DEF Calls
  <2> HIDE DEF c
  <2>2. CallsFit' /\ HoldersCopy'
    <3>1. use = "updating" => c.op \in {"none", "update"} /\ (t # Updater => c = None)
      BY <1>2, <1>5, <2>1
    <3>2. c.op \in WaitOps /\ (c.op = "update" => use = "updating") /\ (use # "assigning" => c.q = "this")
      BY <1>2, <1>4, <1>5, <2>1
    <3> QED
      BY <1>0, <1>1, <1>6, <2>1, <3>1, <3>2, CallStep DEF SharedInv
  <2>3. ASSUME NEW r \in Queues PROVE Covered(r)'
    <3>1. Covered(r) /\ unheard[r] \in Nat
      BY <1>0, QueueParts DEF SharedInv, NoElementBesideASleeper, Covered
    <3>2. CASE r = p
      <4>1. Cardinality(Awake(r)') \in Nat
        <5>1. Awake(r)' \subseteq QueueUsers /\ IsFiniteSet(QueueUsers)
          BY SharedConstants DEF Awake
        <5> QED
          BY <5>1, FS_Subset, FS_CardinalityType
      <4>2. Len(data_'[r]) = 0
        BY <1>4, <1>6, <3>2
      <4>3. Cardinality(Awake(r)') + unheard'[r] >= Len(data_'[r])
        BY <1>6, <3>1, <4>1, <4>2
      <4> QED
        BY <4>3 DEF Covered
    <3>3. CASE r # p
      <4>1. call[t].q # r /\ c.q # r /\ unheard'[r] = unheard[r] /\ data_'[r] = data_[r]
        BY <1>1, <1>4, <1>6, <2>1, <3>3
      <4> QED
        BY <1>0, <2>1, <3>1, <4>1, OtherCovered
    <3> QED
      BY <3>2, <3>3
  <2> QED
    BY <1>1, <1>6, <2>1, <2>2, <2>3, CallInv
<1>7. CASE data_[q] # <<>> /\ FoundData(t, op, q)
  <2>4. FoundData(t, o, p) /\ data_[p] # <<>> /\ call[t].q = p
    BY <1>4, <1>5, <1>7
  <2>5. (p = "this" \/ use = "assigning") /\ (o = "update" <=> use = "updating")
        /\ (o = "update" => t = Updater)
    BY <1>2, <1>4, <1>5
  <2> HIDE DEF q, op
  <2> QED
    BY <1>1, <1>2, <2>4, <2>5, FoundInv
<1> QED
  BY <1>3, <1>6, <1>7

LEMMA SpuriousInv ==
  ASSUME SharedIInv, use # "none", NEW t \in QueueUsers, Spurious(t)
  PROVE  SharedIInv'
<1> DEFINE c == [call[t] EXCEPT !.at = "woken"]
<1>0. SharedTypeOK /\ SharedInv
  BY DEF SharedIInv
<1>1. call[t].at = "waiting" /\ call' = [call EXCEPT ![t].at = "woken"]
      /\ UNCHANGED <<use, data_, holder, pushes, poppedSet, unheard>>
  BY DEF Spurious
<1>2. /\ c \in Calls /\ c.at = "woken" /\ c.q = call[t].q /\ call' = [call EXCEPT ![t] = c]
      /\ CallsFit' /\ HoldersCopy'
  BY <1>1, SleeperWakes
<1> HIDE DEF c
<1>3. ASSUME NEW p \in Queues PROVE Covered(p)'
  <2>1. Covered(p) /\ unheard[p] \in Nat /\ Len(data_[p]) \in Nat
    BY <1>0, QueueParts DEF SharedInv, NoElementBesideASleeper, Covered
  <2>2. Sleeping(p)' = Sleeping(p) \ {t}
    BY <1>0, <1>2, SleepersStep
  <2>3. Cardinality(Awake(p)') >= Cardinality(Awake(p)) /\ Cardinality(Awake(p)) \in Nat
        /\ Cardinality(Awake(p)') \in Nat
    <3>1. Cardinality(Awake(p)) \in Nat
      BY WokenFinite
    <3>2. CASE c.q = p
      <4>1. Cardinality(Awake(p)') = Cardinality(Awake(p)) + 1
        BY <1>0, <1>1, <1>2, <3>2, WokenCount
      <4> QED
        BY <3>1, <4>1
    <3>3. CASE c.q # p
      <4>1. Cardinality(Awake(p)') = Cardinality(Awake(p))
        BY <1>0, <1>2, <3>3, WokenCount
      <4> QED
        BY <3>1, <4>1
    <3> QED
      BY <3>2, <3>3
  <2>4. Sleeping(p)' # {} => Cardinality(Awake(p)') + unheard'[p] >= Len(data_'[p])
    <3>1. CASE Sleeping(p) = {}
      BY <2>2, <3>1
    <3>2. CASE Cardinality(Awake(p)) + unheard[p] >= Len(data_[p])
      BY <1>1, <2>1, <2>3, <3>2
    <3> QED
      BY <1>1, <2>1, <3>1, <3>2 DEF Covered
  <2> QED
    BY <2>4 DEF Covered
<1> QED
  BY <1>1, <1>2, <1>3, CallInv
\* The update's call knows its queue and its thread.
LEMMA UpdatingCall ==
  ASSUME SharedIInv, NEW t \in QueueUsers, call[t].at \in {"check", "pop"}
  PROVE  /\ use = "updating" /\ call[t].op = "update" /\ t = Updater /\ call[t].q = "this"
         /\ "this" \in Queues
<1>1. Fits(t) /\ None.at = "idle"
  BY DEF SharedIInv, SharedInv, CallsFit, None
<1>2. call[t].op = "update" /\ use = "updating"
  BY <1>1 DEF Fits
<1>3. t = Updater /\ call[t].q = "this"
  BY <1>1, <1>2 DEF Fits
<1> QED
  BY <1>2, <1>3 DEF Queues

LEMMA UpdateCheckInv ==
  ASSUME SharedIInv, NEW t \in QueueUsers, UpdateCheck(t)
  PROVE  SharedIInv'
<1> DEFINE c == IF data_["this"] = <<>> THEN None ELSE In("update", "pop", "this")
<1>0. SharedTypeOK /\ SharedInv
  BY DEF SharedIInv
<1>1. call[t].at = "check" /\ UNCHANGED <<use, data_, holder, pushes, poppedSet, unheard>>
  BY DEF UpdateCheck
<1>2. use = "updating" /\ t = Updater /\ call[t].q = "this" /\ "this" \in Queues
  BY <1>1, UpdatingCall
<1>3. call' = [call EXCEPT ![t] = c]
  BY <1>2 DEF UpdateCheck
<1>4. /\ c \in Calls /\ c.at \in {"idle", "pop"} /\ c.op \in {"none", "update"} /\ c.q = "this"
      /\ c.at = "pop" => c.op = "update" /\ data_["this"] # <<>>
  <2>1. /\ None \in Calls /\ None.op = "none" /\ None.at = "idle" /\ None.q = "this"
        /\ In("update", "pop", "this") \in Calls /\ In("update", "pop", "this").op = "update"
        /\ In("update", "pop", "this").at = "pop" /\ In("update", "pop", "this").q = "this"
    BY <1>2, NewCalls DEF WaitOps
  <2> QED
    BY <2>1
<1> HIDE DEF c
<1>5. CallsFit' /\ HoldersCopy'
  BY <1>0, <1>1, <1>2, <1>3, <1>4, CallStep DEF SharedInv
<1>6. ASSUME NEW p \in Queues PROVE Covered(p)'
  <2>1. Covered(p) /\ call[t].at # "woken" /\ c.at \notin {"waiting", "woken"}
    BY <1>0, <1>1, <1>4 DEF SharedInv, NoElementBesideASleeper, Covered
  <2>2. /\ unheard'[p] \in Nat /\ (unheard'[p] >= unheard[p] \/ unheard'[p] >= Len(data_'[p]))
        /\ data_'[p] = data_[p]
    BY <1>0, <1>1, QueueParts
  <2> QED
    BY <1>0, <1>3, <1>4, <2>1, <2>2, StillCovered
<1> QED
  BY <1>1, <1>2, <1>3, <1>4, <1>5, <1>6, CallInv

LEMMA UpdatePopInv ==
  ASSUME SharedIInv, NEW t \in QueueUsers, UpdatePop(t)
  PROVE  SharedIInv'
<1> DEFINE c == [call[t] EXCEPT !.at = "check"]
           q == "this"
           d == Tail(data_[q])
           e == Head(data_[q])
<1>0. SharedTypeOK /\ SharedInv
  BY DEF SharedIInv
<1>1. call[t].at = "pop" /\ UNCHANGED <<use, holder, pushes, unheard>>
  BY DEF UpdatePop
<1>2. use = "updating" /\ t = Updater /\ call[t].q = q /\ q \in Queues /\ call[t].op = "update"
  BY <1>1, UpdatingCall
<1>3. /\ data_[q] # <<>> /\ poppedSet' = poppedSet \cup {e} /\ data_' = [data_ EXCEPT ![q] = d]
      /\ call' = [call EXCEPT ![t] = c]
  BY <1>2 DEF UpdatePop
<1>4. c \in Calls /\ c.at = "check" /\ c.op = "update" /\ c.q = q
  <2>1. call[t] \in Calls
    BY <1>0, CallParts
  <2> QED
    BY <1>2, <2>1 DEF Calls
<1>5. Takes(d, e, data_[q])
  BY DEF Takes
<1>6. d = Tail(data_[q]) /\ e = Head(data_[q])
  OBVIOUS
<1> HIDE DEF c, d, e
<1>7. CallsFit' /\ HoldersCopy'
  BY <1>0, <1>1, <1>2, <1>3, <1>4, CallStep DEF SharedInv
<1>8. /\ data_' \in [Queues -> Seq(1 .. PushMax)] /\ poppedSet' \subseteq 1 .. PushMax
      /\ Len(data_'[q]) \in Nat /\ Len(data_'[q]) = Len(data_[q]) - 1
      /\ \A p \in Queues : p # q => data_'[p] = data_[p]
      /\ NoMoreThanPushed' /\ InPushOrder' /\ TakenOnce'
  BY <1>0, <1>1, <1>2, <1>3, <1>5, <1>6, TakeKeeps DEF SharedInv
<1>9. call' \in [QueueUsers -> Calls] /\ call'[t] = c
  BY <1>0, <1>3, <1>4, OneCall
<1>10. SawOne'
  BY <1>2, <1>4, <1>9 DEF SawOne
<1>11. ASSUME NEW p \in Queues PROVE Covered(p)'
  <2>1. Covered(p) /\ call[t].at # "woken" /\ c.at \notin {"waiting", "woken"}
    BY <1>0, <1>1, <1>4 DEF SharedInv, NoElementBesideASleeper, Covered
  <2>2. unheard'[p] \in Nat /\ (unheard'[p] >= unheard[p] \/ unheard'[p] >= Len(data_'[p]))
    BY <1>0, <1>1, QueueParts
  <2>3. data_'[p] = data_[p] \/ (Len(data_'[p]) \in Nat /\ Len(data_'[p]) <= Len(data_[p]))
    <3>1. Len(data_[q]) \in Nat
      BY <1>0, <1>2, QueueParts
    <3> QED
      BY <1>8, <3>1
  <2> QED
    BY <1>0, <1>3, <1>4, <2>1, <2>2, <2>3, StillCovered
<1>12. NoElementBesideASleeper'
  BY <1>11 DEF NoElementBesideASleeper, Covered
<1> QED
  BY <1>0, <1>1, <1>7, <1>8, <1>9, <1>10, <1>12 DEF SharedIInv, SharedInv, SharedTypeOK

LEMMA ClearInv ==
  ASSUME SharedIInv, use \in {"popping", "watching"}, NEW t \in QueueUsers, Clear(t)
  PROVE  SharedIInv'
<1>0. SharedTypeOK /\ SharedInv
  BY DEF SharedIInv
<1>1. data_' = [data_ EXCEPT !["this"] = <<>>] /\ "this" \in Queues
      /\ unheard' = [unheard EXCEPT !["this"] = 0]
      /\ UNCHANGED <<use, call, holder, pushes, poppedSet>>
  BY DEF Clear, Queues
<1>2. <<>> \in Seq(1 .. PushMax) /\ Len(<<>>) = 0 /\ DOMAIN <<>> = {}
  OBVIOUS
<1>3. /\ data_' \in [Queues -> Seq(1 .. PushMax)] /\ data_'["this"] = <<>>
      /\ \A p \in Queues : p # "this" => data_'[p] = data_[p]
  BY <1>0, <1>1, <1>2 DEF SharedTypeOK
<1>4. CallsFit' /\ HoldersCopy'
  BY <1>0, <1>1, SameCalls DEF SharedInv
<1>5. /\ pushes \in Nat /\ unheard' \in [Queues -> 0 .. PushMax] /\ unheard'["this"] = 0
      /\ \A p \in Queues : p # "this" => unheard'[p] = unheard[p]
  <2>1. pushes \in Nat /\ PushMax \in Nat /\ unheard \in [Queues -> 0 .. PushMax]
    BY <1>0, <1>1, QueueParts DEF SharedTypeOK
  <2> QED
    BY <1>1, <2>1
<1>6. NoMoreThanPushed'
  BY <1>0, <1>1, <1>2, <1>3, <1>5 DEF SharedInv, NoMoreThanPushed
<1>7. InPushOrder'
  BY <1>1 DEF InPushOrder
<1>8. SawOne'
  <2>1. Fits(Updater)
    BY <1>0, SharedConstants DEF SharedInv, CallsFit
  <2>2. call[Updater].at # "pop"
    BY <2>1 DEF Fits
  <2> QED
    BY <1>1, <2>2 DEF SawOne
<1>9. TakenOnce'
  BY <1>2, <1>3 DEF TakenOnce, IsInjective
<1>10. ASSUME NEW p \in Queues PROVE Covered(p)'
  <2>1. Sleeping(p)' = Sleeping(p) /\ Awake(p)' = Awake(p)
    BY <1>1 DEF Sleeping, Awake
  <2>2. Covered(p) /\ Cardinality(Awake(p)) \in Nat
    BY <1>0, WokenFinite DEF SharedInv, NoElementBesideASleeper, Covered
  <2>3. CASE p = "this"
    <3>1. Cardinality(Awake(p)') + unheard'[p] >= Len(data_'[p])
      BY <1>2, <1>3, <1>5, <2>1, <2>2, <2>3
    <3> QED
      BY <3>1 DEF Covered
  <2>4. CASE p # "this"
    BY <1>3, <1>5, <2>1, <2>2, <2>4 DEF Covered
  <2> QED
    BY <2>3, <2>4
<1>11. NoElementBesideASleeper'
  BY <1>10 DEF NoElementBesideASleeper, Covered
<1> QED
  BY <1>0, <1>1, <1>3, <1>4, <1>5, <1>6, <1>7, <1>8, <1>9, <1>11 DEF SharedIInv, SharedInv, SharedTypeOK

LEMMA CallAssignInv ==
  ASSUME SharedIInv, use = "assigning", NEW t \in QueueUsers, NEW q \in Queues, NEW from \in Queues,
         CallAssign(t, q, from)
  PROVE  SharedIInv'
<1> DEFINE c == [op |-> "assign", at |-> "locking", q |-> q, from |-> from]
<1>0. SharedTypeOK /\ SharedInv
  BY DEF SharedIInv
<1>1. call[t].at = "idle" /\ q # from /\ UNCHANGED <<use, data_, holder, pushes, poppedSet, unheard>>
      /\ call' = [call EXCEPT ![t] = c]
  BY DEF CallAssign, None
<1>2. c \in Calls /\ c.op = "assign" /\ c.at = "locking" /\ c.q = q /\ c.from = from
  BY DEF Calls
<1> HIDE DEF c
<1>3. CallsFit' /\ HoldersCopy'
  BY <1>0, <1>1, <1>2, CallStep DEF SharedInv
<1>4. ASSUME NEW p \in Queues PROVE Covered(p)'
  <2>1. Covered(p) /\ call[t].at # "woken" /\ c.at \notin {"waiting", "woken"}
    BY <1>0, <1>1, <1>2 DEF SharedInv, NoElementBesideASleeper, Covered
  <2>2. /\ unheard'[p] \in Nat /\ (unheard'[p] >= unheard[p] \/ unheard'[p] >= Len(data_'[p]))
        /\ data_'[p] = data_[p]
    BY <1>0, <1>1, QueueParts
  <2> QED
    BY <1>0, <1>1, <1>2, <2>1, <2>2, StillCovered
<1> QED
  BY <1>1, <1>2, <1>3, <1>4, CallInv

\* A thread whose assignment begins, or copies, and the two queues it is between.
LEMMA AssigningCall ==
  ASSUME SharedIInv, NEW t \in QueueUsers, call[t].at \in {"locking", "copying"}
  PROVE  /\ use = "assigning" /\ call[t].q # call[t].from
         /\ call[t].q \in Queues /\ call[t].from \in Queues
         /\ \A p \in Queues : p = call[t].q \/ p = call[t].from
<1>1. Fits(t) /\ SharedTypeOK
  BY DEF SharedIInv, SharedInv, CallsFit
<1>2. use = "assigning" /\ call[t].q # call[t].from
  BY <1>1 DEF Fits
<1>3. call[t].q \in Queues /\ call[t].from \in Queues
  BY <1>1, CallParts
<1> QED
  BY <1>2, <1>3 DEF Queues

LEMMA StdLockInv ==
  ASSUME SharedIInv, NEW t \in QueueUsers, StdLock(t)
  PROVE  SharedIInv'
<1> DEFINE c == [call[t] EXCEPT !.at = "copying"]
<1>0. SharedTypeOK /\ SharedInv /\ t # Free
  BY SharedConstants DEF SharedIInv, Free
<1>1. call[t].at = "locking" /\ UNCHANGED <<use, data_, pushes, poppedSet, unheard>>
      /\ call' = [call EXCEPT ![t] = c]
  BY DEF StdLock
<1>2. /\ use = "assigning" /\ call[t].q # call[t].from
      /\ call[t].q \in Queues /\ call[t].from \in Queues
      /\ \A p \in Queues : p = call[t].q \/ p = call[t].from
  BY <1>1, AssigningCall
<1>3. \A p \in Queues : holder[p] = Free
  BY <1>2 DEF StdLock
<1>4. holder' \in [Queues -> QueueUsers \cup {Free}] /\ \A p \in Queues : holder'[p] = t
  BY <1>0, <1>2 DEF StdLock, SharedTypeOK
<1>5. c \in Calls /\ c.op = call[t].op /\ c.at = "copying" /\ c.q = call[t].q /\ c.from = call[t].from
  <2>1. call[t] \in Calls
    BY <1>0, CallParts
  <2> QED
    BY <2>1 DEF Calls
<1> HIDE DEF c
<1>6. call' \in [QueueUsers -> Calls] /\ call'[t] = c /\ \A u \in QueueUsers : u # t => call'[u] = call[u]
  BY <1>0, <1>1, <1>5, OneCall
<1>7. CallsFit'
  <2> SUFFICES ASSUME NEW u \in QueueUsers PROVE Fits(u)'
    BY DEF CallsFit
  <2>1. Fits(u) /\ Fits(t)
    BY <1>0 DEF SharedInv, CallsFit
  <2>2. CASE u = t
    BY <1>1, <1>2, <1>5, <1>6, <2>1, <2>2 DEF Fits
  <2>3. CASE u # t
    BY <1>1, <1>6, <2>1, <2>3 DEF Fits
  <2> QED
    BY <2>2, <2>3
<1>8. HoldersCopy'
  <2>1. ASSUME NEW u \in QueueUsers
        PROVE  /\ call'[u].at # "copying" => \A q \in Queues : holder'[q] # u
               /\ call'[u].at = "copying" => \A q \in Queues : holder'[q] = u
    <3>1. CASE u = t
      BY <1>4, <1>5, <1>6, <3>1
    <3>2. CASE u # t
      <4>1. call[u].at # "copying"
        <5>1. u # Free /\ "this" \in Queues
          BY SharedConstants DEF Free, Queues
        <5> QED
          BY <1>0, <1>3, <5>1 DEF SharedInv, HoldersCopy, NobodyHoldsAndWaits
      <4> QED
        BY <1>4, <1>6, <3>2, <4>1
    <3> QED
      BY <3>1, <3>2
  <2>2. ASSUME NEW q \in Queues PROVE call'[holder'[q]].at = "copying"
    BY <1>4, <1>5, <1>6
  <2> QED
    BY <2>1, <2>2 DEF HoldersCopy, NobodyHoldsAndWaits
<1>9. SawOne'
  <2>1. Fits(Updater) /\ Updater \in QueueUsers
    BY <1>0, SharedConstants DEF SharedInv, CallsFit
  <2>2. call'[Updater].at # "pop"
    BY <1>2, <1>5, <1>6, <2>1 DEF Fits
  <2> QED
    BY <2>2 DEF SawOne
<1>10. ASSUME NEW p \in Queues PROVE Covered(p)'
  <2>1. Covered(p) /\ call[t].at # "woken" /\ c.at \notin {"waiting", "woken"}
    BY <1>0, <1>1, <1>5 DEF SharedInv, NoElementBesideASleeper, Covered
  <2>2. /\ unheard'[p] \in Nat /\ (unheard'[p] >= unheard[p] \/ unheard'[p] >= Len(data_'[p]))
        /\ data_'[p] = data_[p]
    BY <1>0, <1>1, QueueParts
  <2> QED
    BY <1>0, <1>1, <1>5, <2>1, <2>2, StillCovered
<1>11. NoElementBesideASleeper'
  BY <1>10 DEF NoElementBesideASleeper, Covered
<1>12. NoMoreThanPushed' /\ InPushOrder' /\ TakenOnce'
  BY <1>0, <1>1 DEF SharedInv, NoMoreThanPushed, InPushOrder, TakenOnce
<1> QED
  BY <1>0, <1>1, <1>4, <1>6, <1>7, <1>8, <1>9, <1>11, <1>12 DEF SharedIInv, SharedInv, SharedTypeOK
LEMMA AssignInv ==
  ASSUME SharedIInv, NEW t \in QueueUsers, Assign(t)
  PROVE  SharedIInv'
<1>0. SharedTypeOK /\ SharedInv
  BY DEF SharedIInv
<1>1. call[t].at = "copying" /\ UNCHANGED <<use, pushes, poppedSet>>
      /\ call' = [call EXCEPT ![t] = None]
      /\ holder' = [p \in Queues |-> Free]
      /\ data_' = [data_ EXCEPT ![call[t].q] = data_[call[t].from]]
      /\ unheard' = [unheard EXCEPT ![call[t].q] = Len(data_'[call[t].q])]
  BY DEF Assign
<1>2. use = "assigning" /\ call[t].q \in Queues /\ call[t].from \in Queues /\ "this" \in Queues
  BY <1>1, AssigningCall DEF Queues
<1>3. PICK q \in Queues, from \in Queues : q = call[t].q /\ from = call[t].from
  BY <1>2
<1>4. None \in Calls /\ None.op = "none" /\ None.at = "idle"
  BY <1>2, NewCalls
<1>5. call' \in [QueueUsers -> Calls] /\ call'[t] = None
      /\ \A u \in QueueUsers : u # t => call'[u] = call[u]
  BY <1>0, <1>1, <1>4, OneCall
<1>6. holder' \in [Queues -> QueueUsers \cup {Free}] /\ \A p \in Queues : holder'[p] = Free
  BY <1>1
<1>7. /\ data_' \in [Queues -> Seq(1 .. PushMax)]
      /\ data_'[q] = data_[from] /\ \A p \in Queues : p # q => data_'[p] = data_[p]
  BY <1>0, <1>1, <1>3 DEF SharedTypeOK
<1>8. CallsFit'
  <2> SUFFICES ASSUME NEW u \in QueueUsers PROVE Fits(u)'
    BY DEF CallsFit
  <2>1. Fits(u)
    BY <1>0 DEF SharedInv, CallsFit
  <2>2. CASE u = t
    BY <1>1, <1>2, <1>4, <1>5, <2>2 DEF Fits
  <2>3. CASE u # t
    BY <1>1, <1>5, <2>1, <2>3 DEF Fits
  <2> QED
    BY <2>2, <2>3
<1>9. HoldersCopy'
  <2>1. ASSUME NEW u \in QueueUsers PROVE call'[u].at # "copying" /\ u # Free
    <3>1. u # Free /\ t # Free
      BY SharedConstants DEF Free
    <3>2. CASE u = t
      BY <1>4, <1>5, <3>1, <3>2
    <3>3. CASE u # t
      <4>1. holder["this"] = t
        BY <1>0, <1>1, <1>2 DEF SharedInv, HoldersCopy, NobodyHoldsAndWaits
      <4>2. call[u].at # "copying"
        BY <1>0, <1>2, <3>3, <4>1 DEF SharedInv, HoldersCopy, NobodyHoldsAndWaits
      <4> QED
        BY <1>5, <3>1, <3>3, <4>2
    <3> QED
      BY <3>2, <3>3
  <2> QED
    BY <1>6, <2>1 DEF HoldersCopy, NobodyHoldsAndWaits
<1>10. NoMoreThanPushed'
  <2>1. \A p \in Queues : Len(data_[p]) <= pushes
    BY <1>0 DEF SharedInv, NoMoreThanPushed
  <2>2. \A p \in Queues : Len(data_'[p]) <= pushes'
    <3>1. pushes' = pushes /\ Len(data_'[q]) <= pushes
      BY <1>1, <1>7, <2>1
    <3> QED
      BY <1>7, <2>1, <3>1
  <2> QED
    BY <1>1, <1>2, <2>2 DEF NoMoreThanPushed
<1>11. InPushOrder' /\ TakenOnce'
  BY <1>1, <1>2 DEF InPushOrder, TakenOnce
<1>12. SawOne'
  <2>1. Fits(Updater) /\ Updater \in QueueUsers
    BY <1>0, SharedConstants DEF SharedInv, CallsFit
  <2>2. call'[Updater].at # "pop"
    BY <1>2, <1>4, <1>5, <2>1 DEF Fits
  <2> QED
    BY <2>2 DEF SawOne
<1>15. /\ unheard' \in [Queues -> 0 .. PushMax] /\ unheard'[q] = Len(data_'[q])
       /\ Len(data_'[q]) \in Nat /\ \A p \in Queues : p # q => unheard'[p] = unheard[p]
  <2>1. PICK n \in Nat : n = Len(data_[from]) /\ n <= PushMax
    <3>1. /\ Len(data_[from]) \in Nat /\ Len(data_[from]) <= pushes /\ pushes <= PushMax
          /\ pushes \in Nat /\ PushMax \in Nat
      BY <1>0, QueueParts DEF SharedInv, NoMoreThanPushed
    <3> QED
      BY <3>1
  <2>2. unheard' = [unheard EXCEPT ![q] = n] /\ n \in 0 .. PushMax
    <3>1. PushMax \in Nat
      BY SharedConstants
    <3>2. Len(data_'[call[t].q]) = n
      BY <1>3, <1>7, <2>1
    <3>3. unheard' = [unheard EXCEPT ![q] = n]
      BY <1>1, <1>3, <3>2
    <3> QED
      BY <2>1, <3>1, <3>3
  <2> QED
    BY <1>0, <1>7, <2>1, <2>2 DEF SharedTypeOK
<1>13. ASSUME NEW p \in Queues PROVE Covered(p)'
  <2>1. CASE p = q
    <3>1. Cardinality(Awake(p)') \in Nat
      <4>1. Awake(p)' \subseteq QueueUsers /\ IsFiniteSet(QueueUsers)
        BY SharedConstants DEF Awake
      <4> QED
        BY <4>1, FS_Subset, FS_CardinalityType
    <3>2. Cardinality(Awake(p)') + unheard'[p] >= Len(data_'[p])
      BY <1>15, <2>1, <3>1
    <3> QED
      BY <3>2 DEF Covered
  <2>2. CASE p # q
    <3>1. Covered(p) /\ call[t].at \notin {"waiting", "woken"}
      BY <1>0, <1>1 DEF SharedInv, NoElementBesideASleeper, Covered
    <3>2. None.at \notin {"waiting", "woken"} /\ unheard'[p] = unheard[p] /\ data_'[p] = data_[p]
      BY <1>4, <1>7, <1>15, <2>2
    <3> QED
      BY <1>0, <1>1, <1>4, <3>1, <3>2, OtherCovered
  <2> QED
    BY <2>1, <2>2
<1>14. NoElementBesideASleeper'
  BY <1>13 DEF NoElementBesideASleeper, Covered
<1> QED
  BY <1>0, <1>1, <1>5, <1>6, <1>7, <1>8, <1>9, <1>10, <1>11, <1>12, <1>14, <1>15
     DEF SharedIInv, SharedInv, SharedTypeOK

LEMMA MoveInv ==
  ASSUME SharedIInv, use = "assigning", NEW t \in QueueUsers, MoveConstructQueue(t)
  PROVE  SharedIInv'
<1>0. SharedTypeOK /\ SharedInv
  BY DEF SharedIInv
<1>1. /\ data_' = [data_ EXCEPT !["this"] = data_["other"], !["other"] = <<>>]
      /\ unheard' = [q \in Queues |-> 0] /\ UNCHANGED <<use, call, holder, pushes, poppedSet>>
      /\ \A u \in QueueUsers : call[u] = None \/ (call[u].op # "assign" /\ call[u].q = "other")
      /\ Queues = {"this", "other"}
  BY DEF MoveConstructQueue, Queues
<1>2. <<>> \in Seq(1 .. PushMax) /\ Len(<<>>) = 0
  OBVIOUS
<1>3. /\ data_' \in [Queues -> Seq(1 .. PushMax)] /\ data_'["other"] = <<>>
      /\ data_'["this"] = data_["other"]
  BY <1>0, <1>1, <1>2 DEF SharedTypeOK
<1>4. CallsFit' /\ HoldersCopy'
  BY <1>0, <1>1, SameCalls DEF SharedInv
<1>5. pushes \in Nat /\ PushMax \in Nat /\ unheard' \in [Queues -> 0 .. PushMax]
  <2>1. pushes \in Nat /\ PushMax \in Nat
    BY <1>0, <1>1, QueueParts
  <2> QED
    BY <1>1, <2>1
<1>6. NoMoreThanPushed'
  <2>1. Len(data_["other"]) <= pushes
    BY <1>0, <1>1 DEF SharedInv, NoMoreThanPushed
  <2>2. \A q \in Queues : Len(data_'[q]) <= pushes'
    BY <1>1, <1>2, <1>3, <1>5, <2>1
  <2> QED
    BY <1>1, <2>2 DEF NoMoreThanPushed
<1>7. InPushOrder' /\ TakenOnce'
  BY <1>1 DEF InPushOrder, TakenOnce
<1>8. SawOne'
  <2>1. Fits(Updater)
    BY <1>0, SharedConstants DEF SharedInv, CallsFit
  <2>2. call[Updater].at # "pop"
    BY <2>1 DEF Fits
  <2> QED
    BY <1>1, <2>2 DEF SawOne
<1>9. ASSUME NEW p \in Queues PROVE Covered(p)'
  <2>1. CASE p = "this"
    <3>1. \A u \in QueueUsers : ~(call[u].at = "waiting" /\ call[u].q = "this")
      BY <1>1 DEF None
    <3>2. Sleeping(p)' = {}
      BY <1>1, <2>1, <3>1 DEF Sleeping
    <3> QED
      BY <3>2 DEF Covered
  <2>2. CASE p = "other"
    <3>1. Cardinality(Awake(p)') \in Nat
      <4>1. Awake(p)' \subseteq QueueUsers /\ IsFiniteSet(QueueUsers)
        BY SharedConstants DEF Awake
      <4> QED
        BY <4>1, FS_Subset, FS_CardinalityType
    <3>2. unheard'[p] = 0 /\ Len(data_'[p]) = 0
      BY <1>1, <1>2, <1>3, <2>2
    <3>3. Cardinality(Awake(p)') + unheard'[p] >= Len(data_'[p])
      BY <3>1, <3>2
    <3> QED
      BY <3>3 DEF Covered
  <2> QED
    BY <1>1, <2>1, <2>2
<1>10. NoElementBesideASleeper'
  BY <1>9 DEF NoElementBesideASleeper, Covered
<1> QED
  BY <1>0, <1>1, <1>3, <1>4, <1>5, <1>6, <1>7, <1>8, <1>10 DEF SharedIInv, SharedInv, SharedTypeOK

LEMMA StartUseInv ==
  ASSUME SharedIInv, StartUse
  PROVE  SharedIInv'
<1>0. SharedTypeOK /\ SharedInv
  BY DEF SharedIInv
<1>1. use = "none" /\ use' \in Uses /\ UNCHANGED <<data_, call, holder, pushes, poppedSet, unheard>>
  BY DEF StartUse
<1>2. CallsFit'
  <2> SUFFICES ASSUME NEW t \in QueueUsers PROVE Fits(t)'
    BY DEF CallsFit
  <2>1. call'[t] = None /\ use' # "none"
    BY <1>0, <1>1 DEF SharedInv, CallsFit, Fits, Uses
  <2> QED
    BY <2>1 DEF Fits, None
<1>3. HoldersCopy' /\ SawOne' /\ NoElementBesideASleeper'
  BY <1>0, <1>1 DEF SharedInv, HoldersCopy, NobodyHoldsAndWaits, SawOne, NoElementBesideASleeper,
                    Sleeping, Awake
<1>4. NoMoreThanPushed' /\ TakenOnce'
  BY <1>0, <1>1 DEF SharedInv, NoMoreThanPushed, TakenOnce, Uses
<1>5. InPushOrder'
  BY <1>0, <1>1 DEF SharedInv, InPushOrder
<1> QED
  BY <1>0, <1>1, <1>2, <1>3, <1>4, <1>5 DEF SharedIInv, SharedInv, SharedTypeOK

LEMMA SharedInitInv == SharedInit => SharedIInv
<1> SUFFICES ASSUME SharedInit PROVE SharedIInv
  OBVIOUS
<1> USE SharedConstants DEF SharedInit
<1>1. /\ data_ \in [Queues -> Seq(1 .. PushMax)] /\ "this" \in Queues
      /\ \A q \in Queues : data_[q] = <<>>
      /\ Len(<<>>) = 0 /\ DOMAIN <<>> = {}
  BY DEF Queues
<1>2. None \in Calls /\ None.op = "none" /\ None.at = "idle" /\ None.q = "this"
  BY <1>1, NewCalls
<1>3. SharedTypeOK
  BY <1>1, <1>2 DEF SharedTypeOK
<1>4. CallsFit
  BY <1>2 DEF CallsFit, Fits
<1>5. HoldersCopy
  BY <1>2 DEF HoldersCopy, NobodyHoldsAndWaits, Free
<1>6. NoMoreThanPushed
  BY <1>1 DEF NoMoreThanPushed
<1>7. InPushOrder
  <2>1. 1 .. (0 - 0) = {}
    OBVIOUS
  <2>2. Len(data_["this"]) = 0 /\ pushes = 0 /\ poppedSet = {}
    BY <1>1
  <2> QED
    BY <2>1, <2>2 DEF InPushOrder
<1>8. SawOne
  BY <1>2 DEF SawOne
<1>9. TakenOnce
  BY <1>1 DEF TakenOnce, IsInjective
<1>10. NoElementBesideASleeper
  BY <1>2 DEF NoElementBesideASleeper, Sleeping
<1> QED
  BY <1>3, <1>4, <1>5, <1>6, <1>7, <1>8, <1>9, <1>10 DEF SharedIInv, SharedInv

LEMMA SharedNextInv == SharedIInv /\ [SharedNext]_sharedVars => SharedIInv'
<1> SUFFICES ASSUME SharedIInv, [SharedNext]_sharedVars PROVE SharedIInv'
  OBVIOUS
<1>1. CASE UNCHANGED sharedVars
  <2>1. UNCHANGED <<use, data_, call, holder, pushes, poppedSet, unheard>>
    BY <1>1 DEF sharedVars
  <2>2. SharedTypeOK' /\ CallsFit' /\ HoldersCopy'
    BY <2>1, SameCalls DEF SharedIInv, SharedTypeOK, SharedInv
  <2>3. NoMoreThanPushed' /\ InPushOrder' /\ SawOne' /\ TakenOnce'
    BY <2>1 DEF SharedIInv, SharedInv, NoMoreThanPushed, InPushOrder, SawOne, TakenOnce
  <2>4. NoElementBesideASleeper'
    BY <2>1 DEF SharedIInv, SharedInv, NoElementBesideASleeper, Sleeping, Awake
  <2> QED
    BY <2>2, <2>3, <2>4 DEF SharedIInv, SharedInv
<1>2. CASE StartUse
  BY <1>2, StartUseInv
<1>3. ASSUME use # "none", NEW t \in QueueUsers, UseStep(t) PROVE SharedIInv'
  <2>0. use \in Uses /\ "this" \in Queues
    BY <1>3 DEF SharedIInv, SharedTypeOK, Queues
  <2>1. CASE Wake(t)
    BY <1>3, <2>1, WakeInv
  <2>2. CASE Spurious(t)
    BY <1>3, <2>2, SpuriousInv
  <2>3. CASE UpdateCheck(t)
    BY <2>3, UpdateCheckInv
  <2>4. CASE UpdatePop(t)
    BY <2>4, UpdatePopInv
  <2>5. CASE StdLock(t)
    BY <2>5, StdLockInv
  <2>6. CASE Assign(t)
    BY <2>6, AssignInv
  <2>7. CASE use = "updating" /\ t = Updater /\ WaitFor(t, "update", "this")
    <3>1. "update" \in WaitOps
      BY DEF WaitOps
    <3> QED
      BY <2>0, <2>7, <3>1, WaitInv
  <2>8. CASE use = "updating" /\ PushTo(t, "this", FALSE)
    BY <2>0, <2>8, PushInv
  <2>9. ASSUME use \in {"popping", "watching"}, NEW front \in BOOLEAN, PushTo(t, "this", front)
        PROVE  SharedIInv'
    BY <2>0, <2>9, PushInv
  <2>10. ASSUME use # "updating", NEW q \in Queues, q = "this" \/ use = "assigning",
                NEW op \in WaitOps, op # "update", WaitFor(t, op, q)
         PROVE  SharedIInv'
    BY <2>0, <2>10, WaitInv
  <2>11. CASE use \in {"popping", "watching"} /\ Clear(t)
    BY <2>11, ClearInv
  <2>12. ASSUME use = "assigning", NEW q \in Queues, PushTo(t, q, FALSE)
         PROVE  SharedIInv'
    BY <2>0, <2>12, PushInv
  <2>13. ASSUME use = "assigning", NEW q \in Queues, NEW from \in Queues, CallAssign(t, q, from)
         PROVE  SharedIInv'
    BY <2>13, CallAssignInv
  <2>17. CASE use = "assigning" /\ MoveConstructQueue(t)
    BY <2>17, MoveInv
  <2>14. CASE use = "updating" /\ (IF t = Updater THEN WaitFor(t, "update", "this") ELSE PushTo(t, "this", FALSE))
    BY <2>7, <2>8, <2>14
  <2>15. CASE use \in {"popping", "watching"} /\
              (\/ \E front \in BOOLEAN : PushTo(t, "this", front)
               \/ \E op \in {"wait_pop_front", "wait_pop_back"} : WaitFor(t, op, "this")
               \/ use = "watching" /\ WaitFor(t, "wait_for_data", "this")
               \/ Clear(t))
    <3>1. {"wait_pop_front", "wait_pop_back", "wait_for_data"} \subseteq WaitOps \ {"update"}
          /\ use # "updating"
      BY <2>15 DEF WaitOps
    <3> QED
      BY <2>0, <2>9, <2>10, <2>11, <2>15, <3>1
  <2>16. CASE use = "assigning" /\ \E q \in Queues :
              \/ PushTo(t, q, FALSE) \/ WaitFor(t, "wait_pop_front", q)
              \/ \E from \in Queues : CallAssign(t, q, from)
    <3>1. "wait_pop_front" \in WaitOps /\ "wait_pop_front" # "update" /\ use # "updating"
      BY <2>16 DEF WaitOps
    <3> QED
      BY <2>10, <2>12, <2>13, <2>16, <3>1
  <2> QED
    BY <1>3, <2>1, <2>2, <2>3, <2>4, <2>5, <2>6, <2>14, <2>15, <2>16, <2>17 DEF UseStep
<1> QED
  BY <1>1, <1>2, <1>3 DEF SharedNext

-----------------------------------------------------------------------------
LEMMA SharedInvariant == SharedSpec => []SharedIInv
BY SharedInitInv, SharedNextInv, PTL DEF SharedSpec

(* Every variable of the queues' model keeps its type: of net_tsqueue.h    *)
(* and threadsafe_queue.h, whoever calls what.                             *)
THEOREM SharedTypeCorrect == SharedSpec => []SharedTypeOK
<1>1. SharedIInv => SharedTypeOK
  BY DEF SharedIInv
<1> QED
  BY SharedInvariant, <1>1, PTL

(* The inductive invariant of tsqueue and of threadsafe_queue's operator=. *)
THEOREM SharedInvHolds == SharedSpec => []SharedInv
<1>1. SharedIInv => SharedInv
  BY DEF SharedIInv
<1> QED
  BY SharedInvariant, <1>1, PTL

(* The server's update (net_server.h) pops only what is there, and takes   *)
(* the messages in the order of their arrival, whatever is pushed between  *)
(* its look and its pop.                                                   *)
THEOREM UpdatePopsInOrder == SharedSpec => []UpdateFindsWhatItSaw
<1>1. SharedIInv => UpdateFindsWhatItSaw
  <2> SUFFICES ASSUME SharedIInv, use = "updating" PROVE UpdateFindsWhatItSaw
    BY DEF UpdateFindsWhatItSaw
  <2>1. /\ poppedSet = 1 .. (pushes - Len(data_["this"]))
        /\ \A i \in 1 .. Len(data_["this"]) : data_["this"][i] = pushes - Len(data_["this"]) + i
    BY DEF SharedIInv, SharedInv, InPushOrder
  <2>2. Len(data_["this"]) \in Nat /\ pushes \in Nat /\ Len(data_["this"]) <= pushes
        /\ data_["this"] \in Seq(1 .. PushMax)
    <3>1. "this" \in Queues /\ SharedTypeOK /\ NoMoreThanPushed
      BY DEF SharedIInv, SharedInv, Queues
    <3>2. Len(data_["this"]) \in Nat /\ pushes \in Nat /\ data_["this"] \in Seq(1 .. PushMax)
      BY <3>1, QueueParts
    <3>3. Len(data_["this"]) <= pushes
      BY <3>1 DEF NoMoreThanPushed
    <3> QED
      BY <3>2, <3>3
  <2>7. pushes - Len(data_["this"]) \in Nat
    BY <2>2
  <2>3. PICK k \in Nat : k = pushes - Len(data_["this"])
    BY <2>7
  <2>4. Cardinality(1 .. k) = k
    <3>1. Cardinality(1 .. k) = IF 1 > k THEN 0 ELSE k - 1 + 1
      BY FS_Interval
    <3> QED
      BY <3>1
  <2>5. DOMAIN data_["this"] = 1 .. Len(data_["this"])
    BY <2>2
  <2>6. call[Updater].at = "pop" => data_["this"] # <<>>
    BY DEF SharedIInv, SharedInv, SawOne
  <2> QED
    BY <2>1, <2>3, <2>4, <2>5, <2>6 DEF UpdateFindsWhatItSaw
<1> QED
  BY SharedInvariant, <1>1, PTL

(* No wake is lost: an element that lies beside a sleeper has somebody     *)
(* awake for it, but for as many as an assignment (threadsafe_queue.h)     *)
(* brought, or wait_for_data (net_tsqueue.h) used the wakes of.            *)
THEOREM NoWakeIsLost == SharedSpec => []NoElementBesideASleeper
<1>1. SharedIInv => NoElementBesideASleeper
  BY DEF SharedIInv, SharedInv
<1> QED
  BY SharedInvariant, <1>1, PTL

(* std::lock in threadsafe_queue's operator=: no thread holds one of the   *)
(* two mutexes while it waits for the other.                               *)
THEOREM AssignmentsCannotBlock == SharedSpec => []NobodyHoldsAndWaits
<1>1. SharedIInv => NobodyHoldsAndWaits
  BY DEF SharedIInv, SharedInv, HoldersCopy
<1> QED
  BY SharedInvariant, <1>1, PTL

(* Of all that push and pop at both ends of a tsqueue, each element goes   *)
(* to one.                                                                 *)
THEOREM EachIsTakenOnce == SharedSpec => []TakenOnce
<1>1. SharedIInv => TakenOnce
  BY DEF SharedIInv, SharedInv
<1> QED
  BY SharedInvariant, <1>1, PTL
(* Together: what tsqueue and the assignment of threadsafe_queue promise to   *)
(* any number of threads that share them.                                    *)
THEOREM SharedQueuesCorrect == SharedSpec => []SharedQueuesOK
<1> QED
  BY SharedInvHolds, UpdatePopsInOrder, NoWakeIsLost, AssignmentsCannotBlock,
     EachIsTakenOnce, PTL DEF SharedQueuesOK
=============================================================================
