-------------------------- MODULE SemaphoreProofs --------------------------
(***************************************************************************)
(* The properties of NamedSemaphores for every number of objects,          *)
(* semaphores and posts: SemTypeOK and SemInv together are inductive, and  *)
(* the other properties follow from them.                                  *)
(***************************************************************************)
EXTENDS NamedSemaphores, FiniteSetTheorems, SequenceTheorems, TLAPS

SemIInv == SemTypeOK /\ SemInv

-----------------------------------------------------------------------------
\* A sequence in which one element is replaced.
LEMMA Replaced ==
  ASSUME NEW S, NEW q \in Seq(S), NEW i \in 1 .. Len(q), NEW e \in S
  PROVE  /\ [q EXCEPT ![i] = e] \in Seq(S)
         /\ Len([q EXCEPT ![i] = e]) = Len(q)
<1>1. q \in [1 .. Len(q) -> S] /\ Len(q) \in Nat
  OBVIOUS
<1>2. [q EXCEPT ![i] = e] \in [1 .. Len(q) -> S]
  BY <1>1
<1> QED
  BY <1>1, <1>2

\* The objects that were made are at most all of them.
LEMMA MadeFinite ==
  ASSUME SemTypeOK
  PROVE  IsFiniteSet(Made) /\ Cardinality(Made) \in Nat /\ Cardinality(Made) <= Cardinality(SemObjects)
<1>1. Made \subseteq SemObjects /\ IsFiniteSet(SemObjects)
  BY SemConstants DEF Made
<1> QED
  BY <1>1, FS_Subset, FS_CardinalityType

\* Nothing exists in the beginning.
LEMMA SemInitInv == SemInit => SemIInv
<1> SUFFICES ASSUME SemInit PROVE SemIInv
  OBVIOUS
<1> USE SemConstants DEF SemInit
<1>1. IsFiniteSet({}) /\ Cardinality({}) = 0
  BY FS_EmptySet
<1>2. Made = {}
  BY DEF Made, Fresh
<1>3. Cardinality(SemObjects) \in Nat
  BY FS_CardinalityType
<1>4. SemTypeOK
  <2>1. object \in [SemObjects -> Objects]
    BY DEF Objects, Fresh
  <2>2. value \in Seq(0 .. SemPosts) /\ Len(value) = 0
    OBVIOUS
  <2>3. posts \in [1 .. SemMax -> 0 .. SemPosts] /\ takes \in [1 .. SemMax -> 0 .. SemPosts]
    OBVIOUS
  <2>4. linked \in 0 .. Len(value) /\ Len(value) <= SemMax
    BY <2>2
  <2>5. owners \in 0 .. Cardinality(SemObjects) /\ ownersGone \in 0 .. SemMax + 1
    BY <1>3
  <2>6. blocked \subseteq SemObjects /\ terminated \subseteq SemObjects /\ ownerMoved \in BOOLEAN
    OBVIOUS
  <2> QED
    BY <2>1, <2>2, <2>3, <2>4, <2>5, <2>6 DEF SemTypeOK
<1>5. SemInv
  <2>1. HandlesAreOpen
    BY DEF HandlesAreOpen, Fresh
  <2>2. CountsAgree
    BY DEF CountsAgree
  <2>3. UnlinksMatchCreations
    BY DEF UnlinksMatchCreations
  <2>4. OwnersCounted
    BY <1>1, <1>2 DEF OwnersCounted, Owning, Fresh
  <2>5. TheOwner
    BY DEF TheOwner, Owning, Fresh
  <2>6. SleepersLive
    BY DEF SleepersLive
  <2> QED
    BY <2>1, <2>2, <2>3, <2>4, <2>5, <2>6 DEF SemInv
<1> QED
  BY <1>4, <1>5 DEF SemIInv

-----------------------------------------------------------------------------
(* The steps on a semaphore: what is posted and taken is counted.          *)
LEMMA PostInv ==
  ASSUME SemIInv, NEW o \in SemObjects, Post(o), UNCHANGED <<owners, ownersGone, ownerMoved>>
  PROVE  SemIInv'
<1> DEFINE s == object[o].sem
<1>1. s \in 1 .. Len(value) /\ s \in 1 .. SemMax
  <2>1. s \in 1 .. Len(value)
    BY DEF SemIInv, SemInv, HandlesAreOpen, Post, Live
  <2>2. Len(value) \in Nat /\ Len(value) <= SemMax
    BY DEF SemIInv, SemTypeOK
  <2> QED
    BY <2>1, <2>2, SemConstants
<1>2. /\ posts' = [posts EXCEPT ![s] = posts[s] + 1] /\ value' = [value EXCEPT ![s] = value[s] + 1]
      /\ posts[s] < SemPosts
  BY DEF Post
<1>3. value[s] = posts[s] - takes[s] /\ value[s] \in 0 .. SemPosts
      /\ posts[s] \in 0 .. SemPosts /\ takes[s] \in 0 .. SemPosts
  <2>1. value[s] = posts[s] - takes[s]
    BY <1>1 DEF SemIInv, SemInv, CountsAgree
  <2> HIDE DEF s
  <2>2. value[s] \in 0 .. SemPosts
    <3>1. value \in Seq(0 .. SemPosts)
      BY DEF SemIInv, SemTypeOK
    <3>2. s \in 1 .. Len(value)
      BY <1>1
    <3> QED
      BY <3>1, <3>2, ElementOfSeq
  <2>3. posts[s] \in 0 .. SemPosts /\ takes[s] \in 0 .. SemPosts
    <3>1. posts \in [1 .. SemMax -> 0 .. SemPosts] /\ takes \in [1 .. SemMax -> 0 .. SemPosts]
      BY DEF SemIInv, SemTypeOK
    <3>2. s \in 1 .. SemMax
      BY <1>1
    <3>3. posts[s] \in 0 .. SemPosts
      BY <3>1, <3>2
    <3>4. takes[s] \in 0 .. SemPosts
      BY <3>1, <3>2
    <3> QED
      BY <3>3, <3>4
  <2> QED
    BY <2>1, <2>2, <2>3
<1> HIDE DEF s
<1>4. value' \in Seq(0 .. SemPosts) /\ Len(value') = Len(value)
  <2>1. value \in Seq(0 .. SemPosts)
    BY DEF SemIInv, SemTypeOK
  <2>2. value[s] + 1 \in 0 .. SemPosts
    BY <1>2, <1>3, SemConstants
  <2>3. value' = [value EXCEPT ![s] = value[s] + 1] /\ s \in 1 .. Len(value)
    BY <1>1, <1>2
  <2> QED
    BY <2>1, <2>2, <2>3, Replaced
<1>5. posts' \in [1 .. SemMax -> 0 .. SemPosts]
  <2>1. posts \in [1 .. SemMax -> 0 .. SemPosts]
    BY DEF SemIInv, SemTypeOK
  <2>2. posts[s] + 1 \in 0 .. SemPosts
    BY <1>2, <1>3, SemConstants
  <2> QED
    BY <1>2, <2>1, <2>2
<1>6. CountsAgree'
  <2> SUFFICES ASSUME NEW t \in 1 .. SemMax
               PROVE  IF t \in 1 .. Len(value') THEN value'[t] = posts'[t] - takes'[t]
                      ELSE posts'[t] = 0 /\ takes'[t] = 0
    BY DEF CountsAgree
  <2>1. takes' = takes
    BY DEF Post
  <2>2. IF t \in 1 .. Len(value) THEN value[t] = posts[t] - takes[t]
        ELSE posts[t] = 0 /\ takes[t] = 0
    BY DEF SemIInv, SemInv, CountsAgree
  <2>3. value \in Seq(0 .. SemPosts) /\ posts \in [1 .. SemMax -> 0 .. SemPosts]
        /\ takes \in [1 .. SemMax -> 0 .. SemPosts]
    BY DEF SemIInv, SemTypeOK
  <2>4. CASE t = s
    BY <2>1, <2>3, <2>4, <1>1, <1>2, <1>3, <1>4, SemConstants
  <2>5. CASE t # s
    BY <2>1, <2>2, <2>3, <2>5, <1>1, <1>2, <1>4, SemConstants
  <2> QED
    BY <2>4, <2>5
<1>7. UNCHANGED <<linked, object, blocked, takes, terminated, owners, ownersGone, ownerMoved>>
  BY DEF Post
<1>8. SemTypeOK'
  BY <1>4, <1>5, <1>7 DEF SemIInv, SemTypeOK
<1>9. Made' = Made /\ \A p \in SemObjects : Owning(p)' <=> Owning(p)
  BY <1>7 DEF Made, Owning
<1>10. HandlesAreOpen' /\ UnlinksMatchCreations'
  BY <1>4, <1>7 DEF SemIInv, SemInv, HandlesAreOpen, UnlinksMatchCreations
<1>11. OwnersCounted'
  BY <1>7, <1>9 DEF SemIInv, SemInv, OwnersCounted
<1>12. TheOwner'
  BY <1>7, <1>9 DEF SemIInv, SemInv, TheOwner
<1>20. SleepersLive'
  BY <1>7 DEF SemIInv, SemInv, SleepersLive
<1> QED
  BY <1>6, <1>8, <1>10, <1>11, <1>12, <1>20 DEF SemIInv, SemInv

LEMMA TakeInv ==
  ASSUME SemIInv, NEW o \in SemObjects, object[o].state = "live", Take(o),
         UNCHANGED <<owners, ownersGone, ownerMoved>>
  PROVE  SemIInv'
<1> DEFINE s == object[o].sem
<1>1. s \in 1 .. Len(value) /\ s \in 1 .. SemMax
  <2>1. s \in 1 .. Len(value)
    BY DEF SemIInv, SemInv, HandlesAreOpen
  <2>2. Len(value) \in Nat /\ Len(value) <= SemMax
    BY DEF SemIInv, SemTypeOK
  <2> QED
    BY <2>1, <2>2, SemConstants
<1>2. /\ takes' = [takes EXCEPT ![s] = takes[s] + 1] /\ value' = [value EXCEPT ![s] = value[s] - 1]
      /\ value[s] > 0
  BY DEF Take
<1>3. value[s] = posts[s] - takes[s] /\ value[s] \in 0 .. SemPosts
      /\ posts[s] \in 0 .. SemPosts /\ takes[s] \in 0 .. SemPosts
  <2>1. value[s] = posts[s] - takes[s]
    BY <1>1 DEF SemIInv, SemInv, CountsAgree
  <2> HIDE DEF s
  <2>2. value[s] \in 0 .. SemPosts
    <3>1. value \in Seq(0 .. SemPosts)
      BY DEF SemIInv, SemTypeOK
    <3>2. s \in 1 .. Len(value)
      BY <1>1
    <3> QED
      BY <3>1, <3>2, ElementOfSeq
  <2>3. posts[s] \in 0 .. SemPosts /\ takes[s] \in 0 .. SemPosts
    <3>1. posts \in [1 .. SemMax -> 0 .. SemPosts] /\ takes \in [1 .. SemMax -> 0 .. SemPosts]
      BY DEF SemIInv, SemTypeOK
    <3>2. s \in 1 .. SemMax
      BY <1>1
    <3>3. posts[s] \in 0 .. SemPosts
      BY <3>1, <3>2
    <3>4. takes[s] \in 0 .. SemPosts
      BY <3>1, <3>2
    <3> QED
      BY <3>3, <3>4
  <2> QED
    BY <2>1, <2>2, <2>3
<1> HIDE DEF s
<1>4. value' \in Seq(0 .. SemPosts) /\ Len(value') = Len(value)
  <2>1. value \in Seq(0 .. SemPosts)
    BY DEF SemIInv, SemTypeOK
  <2>2. value[s] - 1 \in 0 .. SemPosts
    BY <1>2, <1>3, SemConstants
  <2>3. value' = [value EXCEPT ![s] = value[s] - 1] /\ s \in 1 .. Len(value)
    BY <1>1, <1>2
  <2> QED
    BY <2>1, <2>2, <2>3, Replaced
<1>5. takes' \in [1 .. SemMax -> 0 .. SemPosts]
  <2>1. takes \in [1 .. SemMax -> 0 .. SemPosts]
    BY DEF SemIInv, SemTypeOK
  <2>2. takes[s] + 1 \in 0 .. SemPosts
    BY <1>2, <1>3, SemConstants
  <2> QED
    BY <1>2, <2>1, <2>2
<1>6. CountsAgree'
  <2> SUFFICES ASSUME NEW t \in 1 .. SemMax
               PROVE  IF t \in 1 .. Len(value') THEN value'[t] = posts'[t] - takes'[t]
                      ELSE posts'[t] = 0 /\ takes'[t] = 0
    BY DEF CountsAgree
  <2>1. posts' = posts
    BY DEF Take
  <2>2. IF t \in 1 .. Len(value) THEN value[t] = posts[t] - takes[t]
        ELSE posts[t] = 0 /\ takes[t] = 0
    BY DEF SemIInv, SemInv, CountsAgree
  <2>3. value \in Seq(0 .. SemPosts) /\ posts \in [1 .. SemMax -> 0 .. SemPosts]
        /\ takes \in [1 .. SemMax -> 0 .. SemPosts]
    BY DEF SemIInv, SemTypeOK
  <2>4. CASE t = s
    BY <2>1, <2>3, <2>4, <1>1, <1>2, <1>3, <1>4, SemConstants
  <2>5. CASE t # s
    BY <2>1, <2>2, <2>3, <2>5, <1>1, <1>2, <1>4, SemConstants
  <2> QED
    BY <2>4, <2>5
<1>7. /\ UNCHANGED <<linked, object, posts, terminated, owners, ownersGone, ownerMoved>>
      /\ blocked' \subseteq blocked
  BY DEF Take
<1>8. SemTypeOK'
  BY <1>4, <1>5, <1>7 DEF SemIInv, SemTypeOK
<1>9. Made' = Made /\ \A p \in SemObjects : Owning(p)' <=> Owning(p)
  BY <1>7 DEF Made, Owning
<1>10. HandlesAreOpen' /\ UnlinksMatchCreations'
  BY <1>4, <1>7 DEF SemIInv, SemInv, HandlesAreOpen, UnlinksMatchCreations
<1>11. OwnersCounted'
  BY <1>7, <1>9 DEF SemIInv, SemInv, OwnersCounted
<1>12. TheOwner'
  BY <1>7, <1>9 DEF SemIInv, SemInv, TheOwner
<1>20. SleepersLive'
  BY <1>7 DEF SemIInv, SemInv, SleepersLive
<1> QED
  BY <1>6, <1>8, <1>10, <1>11, <1>12, <1>20 DEF SemIInv, SemInv

(* Falling asleep changes who sleeps, and nothing else.                    *)
LEMMA StartWaitInv ==
  ASSUME SemIInv, NEW o \in SemObjects, StartWait(o), UNCHANGED <<owners, ownersGone, ownerMoved>>
  PROVE  SemIInv'
<1>1. /\ UNCHANGED <<linked, value, object, posts, takes, terminated, owners, ownersGone, ownerMoved>>
      /\ blocked' \subseteq SemObjects
  BY DEF StartWait, SemIInv, SemTypeOK
<1>2. SemTypeOK'
  BY <1>1 DEF SemIInv, SemTypeOK
<1>3. Made' = Made /\ \A p \in SemObjects : Owning(p)' <=> Owning(p)
  BY <1>1 DEF Made, Owning
<1>4. HandlesAreOpen' /\ CountsAgree' /\ UnlinksMatchCreations'
  BY <1>1 DEF SemIInv, SemInv, HandlesAreOpen, CountsAgree, UnlinksMatchCreations
<1>5. OwnersCounted'
  BY <1>1, <1>3 DEF SemIInv, SemInv, OwnersCounted
<1>6. TheOwner'
  BY <1>1, <1>3 DEF SemIInv, SemInv, TheOwner
<1>20. SleepersLive'
  BY <1>1 DEF StartWait, Live, SemIInv, SemInv, SleepersLive
<1> QED
  BY <1>2, <1>4, <1>5, <1>6, <1>20 DEF SemIInv, SemInv

-----------------------------------------------------------------------------
(* The life of the objects: an unlink that finds the name takes it away,    *)
(* one that does not ends the program.                                      *)
LEMMA UnlinkIfOwningInv ==
  ASSUME SemIInv, terminated = {}, NEW o \in SemObjects, object[o].state = "live",
         UnlinkIfOwning(o), value' = value
  PROVE  /\ linked' \in 0 .. Len(value') /\ terminated' \subseteq SemObjects
         /\ ownersGone' \in 0 .. SemMax + 1 /\ UnlinksMatchCreations'
         /\ ~Owning(o) => UNCHANGED <<ownersGone, terminated>>
         /\ owners <= 1 /\ ownerMoved = FALSE => terminated' = {}
<1> USE SemConstants
<1>1. /\ Len(value) \in Nat /\ Len(value) <= SemMax /\ linked \in 0 .. Len(value)
      /\ ownersGone \in 0 .. SemMax + 1
  BY DEF SemIInv, SemTypeOK
<1>2. Len(value) = ownersGone + (IF linked = 0 THEN 0 ELSE 1)
  BY <1>1 DEF SemIInv, SemInv, UnlinksMatchCreations
<1>3. object[o].owning \in BOOLEAN
  BY DEF SemIInv, SemTypeOK, Objects
<1>4. CASE object[o].owning = FALSE
  <2>1. UNCHANGED <<linked, terminated, ownersGone>> /\ ~Owning(o)
    BY <1>4 DEF UnlinkIfOwning, Owning
  <2> QED
    BY <2>1, <1>1, <1>2 DEF UnlinksMatchCreations
<1>5. CASE object[o].owning = TRUE
  <2>1. Owning(o) /\ Unlink(o) /\ ownersGone' = ownersGone + 1
    BY <1>5 DEF UnlinkIfOwning, Unlink, Owning
  <2>2. CASE linked # 0 /\ object[o].named
    <3>1. linked' = 0 /\ terminated' = {}
      BY <2>1, <2>2 DEF Unlink
    <3> QED
      BY <2>1, <2>2, <3>1, <1>1, <1>2 DEF UnlinksMatchCreations
  <2>3. CASE ~(linked # 0 /\ object[o].named)
    <3>1. linked' = linked /\ terminated' = {o}
      BY <2>1, <2>3 DEF Unlink
    <3>2. terminated' # {}
      BY <3>1
    <3>3. UnlinksMatchCreations'
      BY <2>1, <3>1, <3>2, <1>1, <1>2 DEF UnlinksMatchCreations
    <3>4. ownersGone' \in 0 .. SemMax + 1
      BY <2>1, <1>1, <1>2
    <3>5. owners <= 1 /\ ownerMoved = FALSE => FALSE
      <4>1. SUFFICES ASSUME owners <= 1 /\ ownerMoved = FALSE PROVE FALSE
        OBVIOUS
      <4>2. object[o].named = TRUE /\ ownersGone = 0
        BY <4>1, <2>1 DEF SemIInv, SemInv, TheOwner
      <4>3. object[o].sem \in 1 .. Len(value)
        BY DEF SemIInv, SemInv, HandlesAreOpen
      <4>4. linked # 0
        BY <4>2, <4>3, <1>1, <1>2
      <4> QED
        BY <4>2, <4>4, <2>3
    <3> QED
      BY <2>1, <3>1, <3>3, <3>4, <3>5, <1>1
  <2> QED
    BY <2>2, <2>3
<1> QED
  BY <1>3, <1>4, <1>5

LEMMA DestroyInv ==
  ASSUME SemIInv, terminated = {}, NEW o \in SemObjects, Destroy(o)
  PROVE  SemIInv'
<1>1. /\ UnlinkIfOwning(o) /\ object[o].state = "live"
      /\ object' = [object EXCEPT ![o].state = "gone"]
      /\ UNCHANGED <<value, blocked, posts, takes, owners, ownerMoved>>
  BY DEF Destroy, Live
<1>2. /\ linked' \in 0 .. Len(value') /\ terminated' \subseteq SemObjects
      /\ ownersGone' \in 0 .. SemMax + 1 /\ UnlinksMatchCreations'
      /\ ~Owning(o) => UNCHANGED <<ownersGone, terminated>>
      /\ owners <= 1 /\ ownerMoved = FALSE => terminated' = {}
  BY <1>1, UnlinkIfOwningInv
<1>3. object \in [SemObjects -> Objects]
  BY DEF SemIInv, SemTypeOK
<1>4. object' \in [SemObjects -> Objects]
  BY <1>1, <1>3 DEF Objects
<1>5. \A p \in SemObjects : p # o => object'[p] = object[p]
  BY <1>1, <1>3
<1>6. object'[o].state = "gone"
  BY <1>1, <1>3 DEF Objects
<1>7. SemTypeOK'
  BY <1>1, <1>2, <1>4 DEF SemIInv, SemTypeOK
<1>8. Made' = Made
  BY <1>1, <1>5, <1>6 DEF Made
<1>9. \A p \in SemObjects : Owning(p)' <=> p # o /\ Owning(p)
  BY <1>5, <1>6 DEF Owning
<1>10. HandlesAreOpen' /\ CountsAgree'
  BY <1>1, <1>5, <1>6 DEF SemIInv, SemInv, HandlesAreOpen, CountsAgree
<1>11. OwnersCounted'
  BY <1>1, <1>2, <1>8, <1>9 DEF SemIInv, SemInv, OwnersCounted
<1>12. TheOwner'
  <2> SUFFICES ASSUME owners' <= 1 /\ ownerMoved' = FALSE
               PROVE  /\ terminated' = {}
                      /\ \A p \in SemObjects : Owning(p)' =>
                            /\ object'[p].named = TRUE /\ ownersGone' = 0
                            /\ \A r \in SemObjects : Owning(r)' => r = p
    BY DEF TheOwner
  <2>1. owners <= 1 /\ ownerMoved = FALSE /\ terminated' = {}
    BY <1>1, <1>2
  <2>2. ASSUME NEW p \in SemObjects, Owning(p)'
        PROVE  /\ object'[p].named = TRUE /\ ownersGone' = 0
               /\ \A r \in SemObjects : Owning(r)' => r = p
    <3>1. p # o /\ Owning(p)
      BY <1>9, <2>2
    <3>2. /\ object[p].named = TRUE /\ ownersGone = 0
          /\ \A r \in SemObjects : Owning(r) => r = p
      BY <2>1, <3>1 DEF SemIInv, SemInv, TheOwner
    <3>3. ~Owning(o)
      BY <3>1, <3>2
    <3> QED
      BY <3>1, <3>2, <3>3, <1>2, <1>5, <1>9
  <2> QED
    BY <2>1, <2>2
<1>20. SleepersLive'
  BY <1>1, <1>5 DEF Destroy, Live, SemIInv, SemInv, SemTypeOK, SleepersLive
<1> QED
  BY <1>2, <1>7, <1>10, <1>11, <1>12, <1>20 DEF SemIInv, SemInv

\* A new object, or one that is not new any more: one more is made.
LEMMA OneMoreMade ==
  ASSUME SemTypeOK, SemTypeOK', NEW o \in SemObjects,
         object[o].state = "none", object'[o].state = "live",
         \A p \in SemObjects : p # o => object'[p].state = object[p].state
  PROVE  /\ Cardinality(Made') = Cardinality(Made) + 1
         /\ Cardinality(Made) \in Nat /\ Cardinality(Made') <= Cardinality(SemObjects)
<1>1. Made' = Made \cup {o} /\ o \notin Made
  BY DEF Made
<1>2. IsFiniteSet(Made) /\ Cardinality(Made) \in Nat
  BY MadeFinite
<1>3. Cardinality(Made') <= Cardinality(SemObjects)
  <2>1. Made' \subseteq SemObjects /\ IsFiniteSet(SemObjects)
    BY SemConstants DEF Made
  <2> QED
    BY <2>1, FS_Subset
<1> QED
  BY <1>1, <1>2, <1>3, FS_AddElement

LEMMA ConstructInv ==
  ASSUME SemIInv, NEW o \in SemObjects, NEW owning \in BOOLEAN, Construct(o, owning)
  PROVE  SemIInv'
<1> USE SemConstants
<1>1. /\ object[o].state = "none"
      /\ object' = [object EXCEPT ![o] =
                      [state |-> "live", owning |-> owning, sem |-> linked', named |-> TRUE]]
      /\ owners' = owners + (IF owning THEN 1 ELSE 0)
      /\ UNCHANGED <<blocked, posts, takes, terminated, ownersGone, ownerMoved>>
  BY DEF Construct
<1>2. /\ value \in Seq(0 .. SemPosts) /\ Len(value) \in Nat /\ Len(value) <= SemMax
      /\ linked \in 0 .. Len(value) /\ object \in [SemObjects -> Objects]
      /\ posts \in [1 .. SemMax -> 0 .. SemPosts] /\ takes \in [1 .. SemMax -> 0 .. SemPosts]
      /\ owners \in Nat /\ ownersGone \in Nat
  BY FS_CardinalityType DEF SemIInv, SemTypeOK
<1>3. /\ value' \in Seq(0 .. SemPosts) /\ Len(value') <= SemMax /\ Len(value') \in Nat
      /\ linked' \in 1 .. Len(value') /\ Len(value) <= Len(value')
      /\ CountsAgree' /\ UnlinksMatchCreations'
  <2>1. CASE linked # 0
    <3>1. linked' = linked /\ value' = value
      BY <2>1 DEF Construct
    <3>2. CountsAgree' /\ UnlinksMatchCreations'
      BY <3>1, <1>1 DEF CountsAgree, UnlinksMatchCreations, SemIInv, SemInv
    <3> QED
      BY <2>1, <3>1, <3>2, <1>2
  <2>2. CASE linked = 0
    <3>1. Len(value) < SemMax /\ value' = Append(value, 0) /\ linked' = Len(value) + 1
      BY <2>2 DEF Construct
    <3>2. /\ value' \in Seq(0 .. SemPosts) /\ Len(value') = Len(value) + 1
          /\ value'[Len(value) + 1] = 0
          /\ \A t \in 1 .. Len(value) : value'[t] = value[t]
      BY <3>1, <1>2
    <3>3. ASSUME NEW t \in 1 .. SemMax
          PROVE  IF t \in 1 .. Len(value') THEN value'[t] = posts'[t] - takes'[t]
                 ELSE posts'[t] = 0 /\ takes'[t] = 0
      <4>1. IF t \in 1 .. Len(value) THEN value[t] = posts[t] - takes[t]
            ELSE posts[t] = 0 /\ takes[t] = 0
        BY DEF SemIInv, SemInv, CountsAgree
      <4> QED
        BY <4>1, <3>2, <1>1, <1>2
    <3>4. CountsAgree'
      BY <3>3 DEF CountsAgree
    <3>5. UnlinksMatchCreations'
      <4>1. Len(value) + (IF terminated = {} THEN 0 ELSE 1) = ownersGone
        BY <2>2, <1>2 DEF SemIInv, SemInv, UnlinksMatchCreations
      <4>2. terminated' = terminated /\ ownersGone' = ownersGone /\ linked' # 0
        BY <3>1, <1>1, <1>2
      <4> QED
        BY <4>1, <4>2, <3>2, <1>2 DEF UnlinksMatchCreations
    <3> QED
      BY <3>1, <3>2, <3>4, <3>5, <1>2
  <2> QED
    BY <2>1, <2>2
<1>4. /\ object'[o].state = "live" /\ object'[o].owning = owning
      /\ object'[o].sem = linked' /\ object'[o].named = TRUE
      /\ \A p \in SemObjects : p # o => object'[p] = object[p]
  BY <1>1, <1>2
<1>5. object' \in [SemObjects -> Objects]
  <2>1. linked' \in 0 .. SemMax
    BY <1>3
  <2>2. [state |-> "live", owning |-> owning, sem |-> linked', named |-> TRUE] \in Objects
    BY <2>1 DEF Objects
  <2> QED
    BY <1>1, <1>2, <2>2
<1>6. \A p \in SemObjects : Owning(p)' <=> (p = o /\ owning = TRUE) \/ (p # o /\ Owning(p))
  BY <1>4 DEF Owning
<1>7. owners' = IF owning = TRUE THEN owners + 1 ELSE owners
  BY <1>1, <1>2
<1>8. /\ Made' = Made \cup {o} /\ o \notin Made
  BY <1>1, <1>4 DEF Made
<1>9. Cardinality(Made') = Cardinality(Made) + 1 /\ Cardinality(Made) \in Nat
      /\ Cardinality(Made') <= Cardinality(SemObjects)
  <2>1. IsFiniteSet(Made) /\ Cardinality(Made) \in Nat
    BY MadeFinite DEF SemIInv
  <2>2. Cardinality(Made') <= Cardinality(SemObjects)
    <3>1. Made' \subseteq SemObjects /\ IsFiniteSet(SemObjects)
      BY DEF Made
    <3> QED
      BY <3>1, FS_Subset
  <2> QED
    BY <1>8, <2>1, <2>2, FS_AddElement
<1>10. OwnersCounted'
  <2>1. /\ owners <= Cardinality(Made) /\ (ownersGone > 0 => owners > 0)
        /\ \A p \in SemObjects : Owning(p) => owners > 0
    BY DEF SemIInv, SemInv, OwnersCounted
  <2>2. owners' <= Cardinality(Made') /\ (ownersGone' > 0 => owners' > 0)
    BY <2>1, <1>1, <1>2, <1>7, <1>9
  <2>3. \A p \in SemObjects : Owning(p)' => owners' > 0
    BY <2>1, <1>2, <1>6, <1>7
  <2> QED
    BY <2>2, <2>3 DEF OwnersCounted
<1>11. SemTypeOK'
  <2>1. owners' \in 0 .. Cardinality(SemObjects)
    <3>1. Cardinality(SemObjects) \in Nat /\ owners' \in Nat
      BY <1>2, <1>7, FS_CardinalityType
    <3>2. owners' <= Cardinality(Made')
      BY <1>10 DEF OwnersCounted
    <3> QED
      BY <3>1, <3>2, <1>9
  <2>2. linked' \in 0 .. Len(value')
    BY <1>3
  <2> QED
    BY <2>1, <2>2, <1>1, <1>3, <1>5 DEF SemIInv, SemTypeOK
<1>12. HandlesAreOpen'
  <2> SUFFICES ASSUME NEW p \in SemObjects, object'[p].state = "live"
               PROVE  object'[p].sem \in 1 .. Len(value')
    BY DEF HandlesAreOpen
  <2>1. CASE p = o
    BY <2>1, <1>3, <1>4
  <2>2. CASE p # o
    <3>1. object'[p] = object[p] /\ object[p].sem \in 1 .. Len(value)
      BY <2>2, <1>4 DEF SemIInv, SemInv, HandlesAreOpen
    <3> QED
      BY <3>1, <1>2, <1>3
  <2> QED
    BY <2>1, <2>2
<1>13. TheOwner'
  <2> SUFFICES ASSUME owners' <= 1 /\ ownerMoved' = FALSE
               PROVE  /\ terminated' = {}
                      /\ \A p \in SemObjects : Owning(p)' =>
                            /\ object'[p].named = TRUE /\ ownersGone' = 0
                            /\ \A r \in SemObjects : Owning(r)' => r = p
    BY DEF TheOwner
  <2>1. owners <= 1 /\ ownerMoved = FALSE
    BY <1>1, <1>2, <1>7
  <2>2. terminated' = {}
    BY <2>1, <1>1 DEF SemIInv, SemInv, TheOwner
  <2>3. CASE owning = TRUE
    <3>1. owners = 0
      BY <2>3, <1>2, <1>7
    <3>2. ownersGone' = 0 /\ \A p \in SemObjects : ~Owning(p)
      BY <3>1, <1>1, <1>2 DEF SemIInv, SemInv, OwnersCounted
    <3> QED
      BY <2>2, <3>2, <1>4, <1>6
  <2>4. CASE owning = FALSE
    <3>1. \A p \in SemObjects : Owning(p)' => p # o /\ Owning(p)
      BY <2>4, <1>6
    <3> QED
      BY <2>1, <2>2, <3>1, <1>1, <1>4 DEF SemIInv, SemInv, TheOwner
  <2> QED
    BY <2>3, <2>4
<1>20. SleepersLive'
  BY <1>1, <1>4 DEF SemIInv, SemInv, SemTypeOK, SleepersLive
<1> QED
  BY <1>3, <1>10, <1>11, <1>12, <1>13, <1>20 DEF SemIInv, SemInv

-----------------------------------------------------------------------------
(* What a move leaves behind: the moved-from object has no name, and the    *)
(* other one is what that was.                                              *)
LEMMA MovedObjects ==
  ASSUME SemIInv, NEW o \in SemObjects, NEW from \in SemObjects, o # from, Live(from),
         Moved(o, from)
  PROVE  /\ object' \in [SemObjects -> Objects]
         /\ object'[o] = object[from]
         /\ object'[from].state = "live" /\ object'[from].owning = object[from].owning
         /\ object'[from].sem = object[from].sem
         /\ \A p \in SemObjects : p # o /\ p # from => object'[p] = object[p]
         /\ HandlesAreOpen' /\ CountsAgree'
         /\ ownerMoved' \in BOOLEAN
         /\ ownerMoved' = FALSE => ownerMoved = FALSE /\ object[from].owning = FALSE
<1>1. object \in [SemObjects -> Objects] /\ ownerMoved \in BOOLEAN
  BY DEF SemIInv, SemTypeOK
<1>2. object' = [object EXCEPT ![o] = object[from], ![from].named = FALSE]
      /\ ownerMoved' = (ownerMoved \/ object[from].owning)
      /\ UNCHANGED <<value, blocked, posts, takes, owners>>
  BY DEF Moved
<1>3. object' \in [SemObjects -> Objects]
  BY <1>1, <1>2 DEF Objects
<1>4. /\ object'[o] = object[from]
      /\ \A p \in SemObjects : p # o /\ p # from => object'[p] = object[p]
  BY <1>1, <1>2
<1>5. object'[from] = [object[from] EXCEPT !.named = FALSE]
  BY <1>1, <1>2
<1>6. object[from] \in Objects /\ object[from].state = "live"
  BY <1>1 DEF Live
<1>7. /\ object'[from].state = "live" /\ object'[from].owning = object[from].owning
      /\ object'[from].sem = object[from].sem
  BY <1>5, <1>6 DEF Objects
<1>8. HandlesAreOpen'
  BY <1>2, <1>4, <1>6, <1>7 DEF SemIInv, SemInv, HandlesAreOpen
<1>9. CountsAgree'
  BY <1>2 DEF SemIInv, SemInv, CountsAgree
<1>10. object[from].owning \in BOOLEAN
  BY <1>6 DEF Objects
<1>11. /\ ownerMoved' \in BOOLEAN
       /\ ownerMoved' = FALSE => ownerMoved = FALSE /\ object[from].owning = FALSE
  BY <1>1, <1>2, <1>10
<1> QED
  BY <1>3, <1>4, <1>7, <1>8, <1>9, <1>11

LEMMA MoveConstructInv ==
  ASSUME SemIInv, NEW o \in SemObjects, NEW from \in SemObjects, MoveConstruct(o, from)
  PROVE  SemIInv'
<1>1. /\ object[o].state = "none" /\ Live(from) /\ Moved(o, from)
      /\ UNCHANGED <<linked, terminated, ownersGone, value, blocked, posts, takes, owners>>
  BY DEF MoveConstruct, Moved
<1>2. o # from /\ object[from].state = "live"
  BY <1>1 DEF Live
<1>3. /\ object' \in [SemObjects -> Objects]
      /\ object'[o] = object[from]
      /\ object'[from].state = "live" /\ object'[from].owning = object[from].owning
      /\ \A p \in SemObjects : p # o /\ p # from => object'[p] = object[p]
      /\ HandlesAreOpen' /\ CountsAgree'
      /\ ownerMoved' \in BOOLEAN
      /\ ownerMoved' = FALSE => ownerMoved = FALSE /\ object[from].owning = FALSE
  BY <1>1, <1>2, MovedObjects
<1>4. SemTypeOK'
  BY <1>1, <1>3 DEF SemIInv, SemTypeOK
<1>5. UnlinksMatchCreations'
  BY <1>1 DEF SemIInv, SemInv, UnlinksMatchCreations
<1>6. Cardinality(Made') = Cardinality(Made) + 1 /\ Cardinality(Made) \in Nat
  <2>1. object'[o].state = "live" /\ \A p \in SemObjects : p # o => object'[p].state = object[p].state
    BY <1>2, <1>3
  <2> QED
    BY <2>1, <1>1, <1>4, OneMoreMade DEF SemIInv
<1>7. \A p \in SemObjects : Owning(p)' => IF p = o THEN Owning(from) ELSE Owning(p)
  BY <1>2, <1>3 DEF Owning
<1>8. owners \in Nat
  BY SemConstants, FS_CardinalityType DEF SemIInv, SemTypeOK
<1>9. OwnersCounted'
  <2>1. owners' <= Cardinality(Made')
    BY <1>1, <1>6, <1>8 DEF SemIInv, SemInv, OwnersCounted
  <2>2. ownersGone' > 0 => owners' > 0
    BY <1>1 DEF SemIInv, SemInv, OwnersCounted
  <2>3. \A p \in SemObjects : Owning(p)' => owners' > 0
    BY <1>1, <1>7 DEF SemIInv, SemInv, OwnersCounted
  <2> QED
    BY <2>1, <2>2, <2>3 DEF OwnersCounted
<1>10. TheOwner'
  <2> SUFFICES ASSUME owners' <= 1 /\ ownerMoved' = FALSE
               PROVE  /\ terminated' = {}
                      /\ \A p \in SemObjects : Owning(p)' =>
                            /\ object'[p].named = TRUE /\ ownersGone' = 0
                            /\ \A r \in SemObjects : Owning(r)' => r = p
    BY DEF TheOwner
  <2>1. owners <= 1 /\ ownerMoved = FALSE /\ ~Owning(from)
    BY <1>1, <1>3 DEF Owning
  <2>2. \A p \in SemObjects : Owning(p)' => Owning(p) /\ p # o /\ p # from
    BY <2>1, <1>7
  <2> QED
    BY <2>1, <2>2, <1>1, <1>3 DEF SemIInv, SemInv, TheOwner
<1>20. SleepersLive'
  BY <1>1, <1>2, <1>3 DEF SemIInv, SemInv, SemTypeOK, SleepersLive
<1> QED
  BY <1>3, <1>4, <1>5, <1>9, <1>10, <1>20 DEF SemIInv, SemInv

LEMMA MoveAssignInv ==
  ASSUME SemIInv, terminated = {}, NEW o \in SemObjects, NEW from \in SemObjects,
         MoveAssign(o, from)
  PROVE  SemIInv'
<1>1. /\ object[o].state = "live" /\ Live(from) /\ Moved(o, from) /\ o # from
      /\ object[o].owning = object[from].owning
      /\ UnlinkIfOwning(o) /\ UNCHANGED <<value, blocked, posts, takes, owners>>
  BY DEF MoveAssign, Moved, Live
<1>2. object[from].state = "live"
  BY <1>1 DEF Live
<1>3. /\ object' \in [SemObjects -> Objects]
      /\ object'[o] = object[from]
      /\ object'[from].state = "live" /\ object'[from].owning = object[from].owning
      /\ \A p \in SemObjects : p # o /\ p # from => object'[p] = object[p]
      /\ HandlesAreOpen' /\ CountsAgree'
      /\ ownerMoved' \in BOOLEAN
      /\ ownerMoved' = FALSE => ownerMoved = FALSE /\ object[from].owning = FALSE
  BY <1>1, MovedObjects
<1>4. /\ linked' \in 0 .. Len(value') /\ terminated' \subseteq SemObjects
      /\ ownersGone' \in 0 .. SemMax + 1 /\ UnlinksMatchCreations'
      /\ ~Owning(o) => UNCHANGED <<ownersGone, terminated>>
      /\ owners <= 1 /\ ownerMoved = FALSE => terminated' = {}
  BY <1>1, UnlinkIfOwningInv
<1>5. SemTypeOK'
  BY <1>1, <1>3, <1>4 DEF SemIInv, SemTypeOK
<1>6. Made' = Made
  BY <1>1, <1>2, <1>3 DEF Made
<1>7. \A p \in SemObjects : Owning(p)' <=> Owning(p)
  BY <1>1, <1>2, <1>3 DEF Owning
<1>8. OwnersCounted'
  <2>1. ownersGone' > 0 => owners' > 0
    BY <1>1, <1>4 DEF SemIInv, SemInv, OwnersCounted
  <2> QED
    BY <2>1, <1>1, <1>6, <1>7 DEF SemIInv, SemInv, OwnersCounted
<1>9. TheOwner'
  <2> SUFFICES ASSUME owners' <= 1 /\ ownerMoved' = FALSE
               PROVE  /\ terminated' = {}
                      /\ \A p \in SemObjects : Owning(p)' =>
                            /\ object'[p].named = TRUE /\ ownersGone' = 0
                            /\ \A r \in SemObjects : Owning(r)' => r = p
    BY DEF TheOwner
  <2>1. owners <= 1 /\ ownerMoved = FALSE /\ ~Owning(o) /\ ~Owning(from)
    BY <1>1, <1>3 DEF Owning
  <2>2. \A p \in SemObjects : Owning(p)' => Owning(p) /\ p # o /\ p # from
    BY <2>1, <1>7
  <2> QED
    BY <2>1, <2>2, <1>3, <1>4 DEF SemIInv, SemInv, TheOwner
<1>20. SleepersLive'
  BY <1>1, <1>2, <1>3 DEF SemIInv, SemInv, SemTypeOK, SleepersLive
<1> QED
  BY <1>3, <1>4, <1>5, <1>8, <1>9, <1>20 DEF SemIInv, SemInv

-----------------------------------------------------------------------------
LEMMA SemNextInv == SemIInv /\ [SemNext]_semVars => SemIInv'
<1> SUFFICES ASSUME SemIInv, [SemNext]_semVars PROVE SemIInv'
  OBVIOUS
<1>1. CASE UNCHANGED semVars
  <2>1. Made' = Made /\ \A p \in SemObjects : Owning(p)' <=> Owning(p)
    BY <1>1 DEF semVars, Made, Owning
  <2>2. SemTypeOK' /\ HandlesAreOpen' /\ CountsAgree' /\ UnlinksMatchCreations'
    BY <1>1 DEF semVars, SemIInv, SemTypeOK, SemInv, HandlesAreOpen, CountsAgree,
                UnlinksMatchCreations
  <2>3. OwnersCounted' /\ TheOwner'
    BY <1>1, <2>1 DEF semVars, SemIInv, SemInv, OwnersCounted, TheOwner
  <2>4. SleepersLive'
    BY <1>1 DEF semVars, SemIInv, SemInv, SleepersLive
  <2> QED
    BY <2>2, <2>3, <2>4 DEF SemIInv, SemInv
<1>2. CASE SemNext
  <2>1. terminated = {}
    BY <1>2 DEF SemNext, Running
  <2>2. PICK o \in SemObjects :
            \/ \E owning \in BOOLEAN : Construct(o, owning)
            \/ /\ Post(o) \/ StartWait(o) \/ WaitEnds(o) \/ TryWait(o)
               /\ UNCHANGED <<owners, ownersGone, ownerMoved>>
            \/ Destroy(o)
            \/ \E from \in SemObjects : MoveConstruct(o, from) \/ MoveAssign(o, from)
    BY <1>2 DEF SemNext
  <2>3. CASE \E owning \in BOOLEAN : Construct(o, owning)
    BY <2>3, ConstructInv
  <2>4. CASE /\ Post(o) \/ StartWait(o) \/ WaitEnds(o) \/ TryWait(o)
             /\ UNCHANGED <<owners, ownersGone, ownerMoved>>
    <3>1. CASE Post(o)
      BY <2>4, <3>1, PostInv
    <3>2. CASE StartWait(o)
      BY <2>4, <3>2, StartWaitInv
    <3>3. CASE WaitEnds(o)
      <4>1. object[o].state = "live" /\ Take(o)
        BY <3>3 DEF WaitEnds, SemIInv, SemInv, SleepersLive
      <4> QED
        BY <2>4, <4>1, TakeInv
    <3>4. CASE TryWait(o)
      <4>1. object[o].state = "live" /\ Take(o)
        BY <3>4 DEF TryWait, Live
      <4> QED
        BY <2>4, <4>1, TakeInv
    <3> QED
      BY <2>4, <3>1, <3>2, <3>3, <3>4
  <2>5. CASE Destroy(o)
    BY <2>1, <2>5, DestroyInv
  <2>6. CASE \E from \in SemObjects : MoveConstruct(o, from) \/ MoveAssign(o, from)
    BY <2>1, <2>6, MoveConstructInv, MoveAssignInv
  <2> QED
    BY <2>2, <2>3, <2>4, <2>5, <2>6
<1> QED
  BY <1>1, <1>2

(* Every reachable state of the objects, semaphores and counters has its type. *)
THEOREM SemTypeCorrect == SemSpec => []SemTypeOK
<1>1. SemIInv => SemTypeOK
  BY DEF SemIInv
<1> QED
  BY <1>1, SemInitInv, SemNextInv, PTL DEF SemSpec

(* SemInv: handles are open, counters agree, every unlink is accounted for.  *)
THEOREM SemInvHolds == SemSpec => []SemInv
<1>1. SemIInv => SemInv
  BY DEF SemIInv
<1> QED
  BY <1>1, SemInitInv, SemNextInv, PTL DEF SemSpec

(* No post is taken twice or lost, whoever opens, moves or destroys objects. *)
THEOREM PostsAreTakenOnce == SemSpec => []NothingTakenTwice
<1>1. SemIInv => NothingTakenTwice
  <2> SUFFICES ASSUME SemIInv, NEW s \in DOMAIN value PROVE value[s] = posts[s] - takes[s]
    BY DEF NothingTakenTwice
  <2>1. value \in Seq(0 .. SemPosts) /\ Len(value) <= SemMax
    BY DEF SemIInv, SemTypeOK
  <2>2. s \in 1 .. Len(value) /\ s \in 1 .. SemMax
    BY <2>1, SemConstants
  <2> QED
    BY <2>2 DEF SemIInv, SemInv, CountsAgree
<1> QED
  BY <1>1, SemInitInv, SemNextInv, PTL DEF SemSpec

(* The objects of a name share one semaphore until an owner gives it up.     *)
THEOREM NameIsShared == SemSpec => []OneSemaphorePerName
<1>1. SemIInv => OneSemaphorePerName
  <2> SUFFICES ASSUME SemIInv PROVE OneSemaphorePerName
    OBVIOUS
  <2>1. Len(value) \in Nat /\ ownersGone \in Nat
    BY SemConstants DEF SemIInv, SemTypeOK
  <2>2. Len(value) <= ownersGone + 1
    BY <2>1 DEF SemIInv, SemInv, UnlinksMatchCreations
  <2>3. ASSUME ownersGone = 0, NEW o \in SemObjects, NEW p \in SemObjects,
               object[o].state = "live", object[p].state = "live"
        PROVE  object[o].sem = object[p].sem
    <3>1. object[o].sem \in 1 .. Len(value) /\ object[p].sem \in 1 .. Len(value)
      BY <2>3 DEF SemIInv, SemInv, HandlesAreOpen
    <3> QED
      BY <2>1, <2>2, <2>3, <3>1
  <2> QED
    BY <2>2, <2>3 DEF OneSemaphorePerName
<1> QED
  BY <1>1, SemInitInv, SemNextInv, PTL DEF SemSpec

(* With one owner that is never moved no destructor ends the program.        *)
THEOREM OneOwnerNeverTerminates == SemSpec => []OneOwnerIsSafe
<1>1. SemIInv => OneOwnerIsSafe
  <2> SUFFICES ASSUME SemIInv, owners <= 1, ~ownerMoved PROVE terminated = {}
    BY DEF OneOwnerIsSafe
  <2>1. ownerMoved = FALSE
    BY DEF SemIInv, SemTypeOK
  <2> QED
    BY <2>1 DEF SemIInv, SemInv, TheOwner
<1> QED
  BY <1>1, SemInitInv, SemNextInv, PTL DEF SemSpec
(* Together: posts are taken once, the objects of a name share a semaphore,   *)
(* and one owner is never terminated, whatever the number of objects.        *)
THEOREM SemaphoresCorrect == SemSpec => []SemaphoresOK
<1> QED
  BY SemInvHolds, PostsAreTakenOnce, NameIsShared, OneOwnerNeverTerminates, PTL
     DEF SemaphoresOK
=============================================================================
