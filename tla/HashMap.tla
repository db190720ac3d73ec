------------------------------- MODULE HashMap -------------------------------
(***************************************************************************)
(* HashMap and HashMapBucket of DataStructures/HashMap: an array of        *)
(* buckets, each a singly linked list of pairs, and count_, which size()   *)
(* and empty() report.  A bucket is the sequence of its pairs; the key k   *)
(* is in the bucket hash(k) % size_, with the hash of an integer itself.   *)
(* A copy or a move leaves two maps: the program goes on with either.      *)
(***************************************************************************)
EXTENDS Naturals, SequencesExt

CONSTANTS HashKeys,     \* \subseteq Nat
          HashValues,   \* the mapped_type; 0 is mapped_type{}
          HashSizes,    \* the bucket counts asked for
          HashRanges,   \* the ranges of pairs a map is constructed from
          HashSizeMod,  \* bound: 2^w of size_type
          NodeMax       \* bound: nodes of the buckets that are used on their own

ASSUME HashConstants ==
    /\ HashKeys \subseteq Nat /\ HashValues \subseteq Nat /\ 0 \in HashValues
    /\ HashSizes \subseteq Nat /\ HashSizeMod \in Nat \ {0} /\ NodeMax \in Nat
    /\ \A r \in HashRanges : r \in Seq(HashKeys \X HashValues)

VARIABLES buckets,      \* buckets_
          hashCount,    \* count_
          maxLoad,      \* max_load_factor_
          hashPhase,    \* what buckets_ points at
          hashReply,    \* history: the last call and its answer
          skewed,       \* history: a call that does not keep count_ was made
          nodeHeap,     \* of two buckets on their own: the links, the pairs, what is allocated
          bucketSeq,    \* history: the pairs of those buckets
          lostNodes,    \* history: what a move assignment dropped
          cleared       \* the buckets that were cleared

hashVars == <<buckets, hashCount, maxLoad, hashPhase, hashReply, skewed>>
bucketVars == <<nodeHeap, bucketSeq, lostNodes, cleared>>

HashPairs == HashKeys \X HashValues
HashMissing == 99

-----------------------------------------------------------------------------
(* HashMapBucket *)

(* find: the place of the first pair with the key k, 0 without one *)
BucketFind(b, k) == SelectInSeq(b, LAMBDA p : p[1] = k)
PushFront(b, p) == <<p>> \o b
PushWithoutLooking(b, p) == <<p>> \o b     \* a mutant of InsertUnique
InsertUnique(b, p) == IF BucketFind(b, p[1]) = 0 THEN PushFront(b, p) ELSE b
KeepTheOld(b, p) == InsertUnique(b, p)     \* a mutant of BucketAssign
BucketAssign(b, p) ==
    LET i == BucketFind(b, p[1])
    IN  IF i = 0 THEN PushFront(b, p) ELSE [b EXCEPT ![i] = p]

(* erase(key) goes on from the pair after an erased one without looking at it *)
BucketErased(b, k) ==
    LET erased[i \in 0..Len(b)] == i > 0 /\ b[i][1] = k /\ ~erased[i - 1]
    IN  {i \in DOMAIN b : erased[i]}
BucketEraseAt(b, i) == RemoveAt(b, i)
BucketErase(b, k) ==
    LET gone == BucketErased(b, k)
        keep[i \in 0..Len(b)] ==
            IF i = 0 THEN <<>> ELSE IF i \in gone THEN keep[i - 1] ELSE Append(keep[i - 1], b[i])
    IN  keep[Len(b)]

-----------------------------------------------------------------------------
(* HashMap *)

NoBuckets(n) == [i \in 1..n |-> <<>>]
BucketIndex(k, n) == (k % n) + 1
HomeOf(k) == BucketIndex(k, Len(buckets))

(* The order in which an iterator goes from begin() to end(), past the     *)
(* empty buckets.                                                          *)
HashElements == FlattenSeq(buckets)
HashPosition(k) == SelectInSeq(HashElements, LAMBDA p : p[1] = k)

FillBuckets(s, n) ==
    FoldLeft(LAMBDA bs, p : [bs EXCEPT ![BucketIndex(p[1], n)] = PushFront(@, p)],
             NoBuckets(n), s)
SafeFillBuckets(s, n) ==
    FoldLeft(LAMBDA bs, p : [bs EXCEPT ![BucketIndex(p[1], n)] = InsertUnique(@, p)],
             NoBuckets(n), s)

HashContents ==
    IF hashPhase # "live" THEN <<>>
    ELSE [k \in {HashElements[i][1] : i \in DOMAIN HashElements} |->
             HashElements[HashPosition(k)][2]]

HashInit ==
    /\ buckets = NoBuckets(2) /\ hashCount = 0 /\ maxLoad = 1
    /\ hashPhase = "live" /\ hashReply = <<"none", 0, 0, 0>> /\ skewed = FALSE

(* The calls that look for a bucket need an array with a bucket in it *)
HashUsable == hashPhase = "live" /\ Len(buckets) > 0
HashAnswer(call, k, v, n) == hashReply' = <<call, k, v, n>>
CountWithoutWrapping(n) == hashCount' = hashCount + n     \* a mutant of CountBy
CountBy(n) == hashCount' = (hashCount + n) % HashSizeMod
OldHash == UNCHANGED <<maxLoad, hashPhase, skewed>>

HashInsert(k, v) ==
    LET new == IF BucketFind(buckets[HomeOf(k)], k) = 0 THEN 1 ELSE 0
    IN  /\ HashUsable
        /\ buckets' = [buckets EXCEPT ![HomeOf(k)] = InsertUnique(@, <<k, v>>)]
        /\ CountBy(new) /\ HashAnswer("insert", k, v, new) /\ OldHash

HashTryEmplace(k, v) == HashInsert(k, v)

HashInsertOrAssign(k, v) ==
    LET new == IF BucketFind(buckets[HomeOf(k)], k) = 0 THEN 1 ELSE 0
    IN  /\ HashUsable
        /\ buckets' = [buckets EXCEPT ![HomeOf(k)] = BucketAssign(@, <<k, v>>)]
        /\ CountBy(new) /\ HashAnswer("assign", k, v, new) /\ OldHash

(* operator[] adds a pair for a new key, and does not count it *)
HashSubscript(k) ==
    LET i == BucketFind(buckets[HomeOf(k)], k)
    IN  /\ HashUsable
        /\ buckets' = [buckets EXCEPT ![HomeOf(k)] = InsertUnique(@, <<k, 0>>)]
        /\ HashAnswer("subscript", k, 0, IF i = 0 THEN 0 ELSE buckets[HomeOf(k)][i][2])
        /\ skewed' = (skewed \/ i = 0)
        /\ UNCHANGED <<hashCount, maxLoad, hashPhase>>

HashErase(k) ==
    LET n == Cardinality(BucketErased(buckets[HomeOf(k)], k))
    IN  /\ HashUsable
        /\ buckets' = [buckets EXCEPT ![HomeOf(k)] = BucketErase(@, k)]
        /\ CountBy(HashSizeMod - n) /\ HashAnswer("erase", k, 0, n) /\ OldHash

(* erase(pos), of an element; the answer of the call is the place after it *)
HashEraseAt(i) ==
    LET k == HashElements[i][1]
    IN  /\ HashUsable
        /\ buckets' = [buckets EXCEPT ![HomeOf(k)] = BucketEraseAt(@, BucketFind(@, k))]
        /\ CountBy(HashSizeMod - 1) /\ HashAnswer("erase", k, 0, 1) /\ OldHash

HashFind(k) ==
    LET b == buckets[HomeOf(k)]
        i == BucketFind(b, k)
    IN  /\ HashUsable
        /\ HashAnswer("find", k, 0, IF i = 0 THEN HashMissing ELSE b[i][2])
        /\ UNCHANGED <<buckets, hashCount>> /\ OldHash

HashAt(k) == HashFind(k)          \* throws for a missing key
HashEqualRange(k) == HashFind(k)  \* end() twice, or the element and the place after it

(* rehash(n): the elements go to the front of their new buckets in the     *)
(* order of the iteration.  With elements, n = 0 divides by zero.          *)
HashRehash(n) ==
    /\ hashPhase = "live" /\ (n > 0 \/ HashElements = <<>>)
    /\ buckets' = FillBuckets(HashElements, n)
    /\ HashAnswer("keep", 0, 0, 0)
    /\ UNCHANGED <<hashCount, maxLoad, hashPhase, skewed>>

HashReserve(n) == HashRehash((n + maxLoad - 1) \div maxLoad)   \* std::ceil(n / max_load_factor())

SetMaxLoad(f) ==
    /\ hashPhase = "live" /\ maxLoad' = f
    /\ HashAnswer("keep", 0, 0, 0)
    /\ UNCHANGED <<buckets, hashCount, hashPhase, skewed>>

(* Whatever the map was, it is replaced by one constructed from a range:   *)
(* count_ counts the pairs of the range, those that are not kept too.      *)
HashBuild(r, n) ==
    /\ n > 0
    /\ buckets' = SafeFillBuckets(r, n)
    /\ hashCount' = Len(r) % HashSizeMod
    /\ maxLoad' = 1 /\ hashPhase' = "live"
    /\ skewed' = (\E i, j \in DOMAIN r : i < j /\ r[i][1] = r[j][1])
    /\ HashAnswer("build", 0, 0, 0)

(* The copy constructor ensures that as many elements were copied as       *)
(* other.count_ says, or the program is aborted.                           *)
CopyConstruct ==
    LET copied == Len(HashElements) % HashSizeMod
    IN  /\ hashPhase = "live"
        /\ buckets' = FillBuckets(HashElements, Len(buckets))
        /\ hashCount' = copied /\ maxLoad' = 1
        /\ IF copied = hashCount
           THEN HashAnswer("keep", 0, 0, 0) /\ UNCHANGED hashPhase
           ELSE HashAnswer("forget", 0, 0, 0) /\ hashPhase' = "aborted"
        /\ UNCHANGED skewed

(* The copy constructor with an allocator copies count_ and no element *)
CopyWithAllocator ==
    /\ hashPhase = "live"
    /\ buckets' = NoBuckets(Len(buckets)) /\ maxLoad' = 1
    /\ skewed' = (skewed \/ HashElements # <<>>)
    /\ HashAnswer("forget", 0, 0, 0) /\ UNCHANGED <<hashCount, hashPhase>>

(* Assigned to another map, whose max_load_factor_ stays what it was *)
CopyAssign(f) ==
    /\ hashPhase = "live"
    /\ buckets' = FillBuckets(HashElements, Len(buckets))
    /\ hashCount' = Len(HashElements) % HashSizeMod
    /\ maxLoad' = f /\ skewed' = FALSE
    /\ HashAnswer("keep", 0, 0, 0) /\ UNCHANGED hashPhase

MoveTo(f) ==          \* the move constructor and assignment: the new map
    /\ hashPhase = "live" /\ maxLoad' = f
    /\ HashAnswer("keep", 0, 0, 0)
    /\ UNCHANGED <<buckets, hashCount, hashPhase, skewed>>

MovedFrom ==          \* and the old one
    /\ hashPhase = "live" /\ hashPhase' = "moved_from"
    /\ buckets' = <<>> /\ hashCount' = 0 /\ skewed' = FALSE
    /\ HashAnswer("forget", 0, 0, 0) /\ UNCHANGED maxLoad

(* clear() frees the buckets and leaves buckets_ and count_: every later   *)
(* call, the destructor's too, uses freed memory.                          *)
HashClear ==
    /\ hashPhase = "live" /\ hashPhase' = "freed"
    /\ buckets' = <<>>
    /\ HashAnswer("forget", 0, 0, 0) /\ UNCHANGED <<hashCount, maxLoad, skewed>>

HashNext ==
    \/ \E k \in HashKeys, v \in HashValues :
          HashInsert(k, v) \/ HashTryEmplace(k, v) \/ HashInsertOrAssign(k, v)
    \/ \E k \in HashKeys :
          HashSubscript(k) \/ HashErase(k) \/ HashFind(k) \/ HashAt(k) \/ HashEqualRange(k)
    \/ \E i \in DOMAIN HashElements : HashEraseAt(i)
    \/ \E n \in HashSizes : HashRehash(n) \/ HashReserve(n)
    \/ \E r \in HashRanges, n \in HashSizes : hashPhase = "moved_from" /\ HashBuild(r, n)
    \/ \E f \in {1, 2} : SetMaxLoad(f) \/ CopyAssign(f) \/ MoveTo(f)
    \/ CopyConstruct \/ CopyWithAllocator \/ MovedFrom \/ HashClear

HashSpec == HashInit /\ [][HashNext]_hashVars

-----------------------------------------------------------------------------
HashTypeOK ==
    /\ buckets \in Seq(Seq(HashPairs))
    /\ hashCount \in 0..(HashSizeMod - 1)
    /\ maxLoad \in {1, 2}
    /\ hashPhase \in {"live", "moved_from", "freed", "aborted"}
    /\ skewed \in BOOLEAN

(* Every pair is in the bucket its key hashes to, and no key is there      *)
(* twice, whatever sequence of insertions, erasures, rehashes and copies   *)
(* built the table.                                                        *)
HomesAndKeys ==
    /\ \A i \in DOMAIN buckets : \A p \in ToSet(buckets[i]) : HomeOf(p[1]) = i
    /\ \A i, j \in DOMAIN HashElements : HashElements[i][1] = HashElements[j][1] => i = j

(* size() is the number of elements, and the copy constructor's check      *)
(* succeeds, unless operator[] added a key, the range a map was built from *)
(* had a key twice, or the map was copied with an allocator.               *)
CountIsExact ==
    /\ hashPhase = "live" /\ ~skewed => hashCount = Len(HashElements)
    /\ hashPhase = "aborted" => skewed

(* The table answers as a dictionary does, through collisions, rehashes,   *)
(* copies and moves.                                                       *)
HashD == INSTANCE Dictionary WITH Keys <- HashKeys, Values <- HashValues, Missing <- HashMissing,
                              Ranges <- HashRanges,
                              dict <- HashContents, reply <- hashReply
HashMapImplementsDictionary == HashD!Spec

-----------------------------------------------------------------------------
(* HashMapBucket by its nodes: two buckets on their own, whose heads and   *)
(* nodes are linked by next.  next is what the heads and nodes point at,   *)
(* data what the nodes hold, live the nodes allocated.                     *)

Heads == {-1, -2}
NullNode == 0
Nodes == 1..NodeMax
NodePairs == {<<1, 0>>, <<1, 1>>, <<2, 0>>}
NodeRanges == {<<>>, << <<1, 1>> >>, << <<1, 0>>, <<1, 1>> >>, << <<2, 0>>, <<1, 0>> >>}

NewBucket == NullNode       \* where the head of a new bucket points
NoNodes == [next |-> [n \in Heads \cup Nodes |-> NewBucket],
            data |-> [n \in Nodes |-> <<>>], live |-> {}]

MakeNode(hp, p) ==
    LET nn == Min(Nodes \ hp.live)
    IN  [hp EXCEPT !.data[nn] = p, !.live = @ \cup {nn}]
LinkAfter(hp, pos, nn) == [hp EXCEPT !.next[nn] = hp.next[pos], !.next[pos] = nn]
KeepTheLink(hp, pos) ==     \* a mutant of EraseNodeAfter: the rest of the chain is lost
    LET n == hp.next[pos]
    IN  [hp EXCEPT !.next = [@ EXCEPT ![pos] = NullNode, ![n] = NullNode],
                   !.data[n] = <<>>, !.live = @ \ {n}]
EraseNodeAfter(hp, pos) ==
    LET n == hp.next[pos]
    IN  [hp EXCEPT !.next = [@ EXCEPT ![pos] = hp.next[n], ![n] = NullNode],
                   !.data[n] = <<>>, !.live = @ \ {n}]

(* An iterator goes from begin() through next until it is null *)
NodesOf(hp, h) ==
    LET seen[i \in 0..NodeMax] ==
            IF i = 0 THEN <<h>>
            ELSE LET s == seen[i - 1]
                 IN  IF hp.next[Last(s)] = NullNode THEN s ELSE Append(s, hp.next[Last(s)])
    IN  Tail(seen[NodeMax])
PairsOf(hp, h) == [i \in DOMAIN NodesOf(hp, h) |-> hp.data[NodesOf(hp, h)[i]]]

InsertPairAfter(hp, pos, p) == LinkAfter(MakeNode(hp, p), pos, Min(Nodes \ hp.live))
(* each node after the last one inserted *)
InsertRangeAfter(hp, pos, r) ==
    FoldLeft(LAMBDA acc, p : [heap |-> InsertPairAfter(acc.heap, acc.pos, p),
                              pos |-> Min(Nodes \ acc.heap.live)],
             [heap |-> hp, pos |-> pos], r).heap
LinkRange(hp, h, r) == InsertRangeAfter([hp EXCEPT !.next[h] = NullNode], h, r)

(* free(): from the front; the head still points at the first              *)
FreeAll(hp, h) ==
    LET gone == ToSet(NodesOf(hp, h))
    IN  [next |-> [n \in Heads \cup Nodes |-> IF n \in gone THEN NullNode ELSE hp.next[n]],
         data |-> [n \in Nodes |-> IF n \in gone THEN <<>> ELSE hp.data[n]],
         live |-> hp.live \ gone]
TakeNodes(hp, h, from) == [hp EXCEPT !.next = [@ EXCEPT ![h] = hp.next[from], ![from] = NullNode]]

(* for (n = &head_; n != nullptr && n->next != nullptr; n = n->next)       *)
EraseKeyFrom(hp, h, k) ==
    LET turn(acc, i) ==
            IF acc.n = NullNode \/ acc.heap.next[acc.n] = NullNode THEN acc
            ELSE LET after == IF acc.heap.data[acc.heap.next[acc.n]][1] = k
                              THEN EraseNodeAfter(acc.heap, acc.n) ELSE acc.heap
                 IN  [heap |-> after, n |-> after.next[acc.n]]
    IN  FoldLeft(turn, [heap |-> hp, n |-> h], [i \in Nodes |-> i]).heap

-----------------------------------------------------------------------------
(* The calls.  bucketSeq is what HashMap's operations on a bucket make of  *)
(* the pairs; a bucket that was cleared is not used again.                 *)

BucketsInit ==
    /\ nodeHeap = NoNodes /\ bucketSeq = [h \in Heads |-> <<>>]
    /\ lostNodes = {} /\ cleared = {}
Room(n) == Cardinality(Nodes \ nodeHeap.live) >= n
BucketBecomes(h, hp, s) ==
    /\ h \notin cleared /\ nodeHeap' = hp /\ bucketSeq' = [bucketSeq EXCEPT ![h] = s]
    /\ UNCHANGED <<lostNodes, cleared>>

BucketPushFront(h, p) ==
    Room(1) /\ BucketBecomes(h, InsertPairAfter(nodeHeap, h, p), PushFront(bucketSeq[h], p))
BucketInsertUnique(h, p) ==
    Room(1) /\ BucketBecomes(h, IF BucketFind(PairsOf(nodeHeap, h), p[1]) # 0 THEN nodeHeap
                                ELSE InsertPairAfter(nodeHeap, h, p),
                             InsertUnique(bucketSeq[h], p))
BucketTryEmplace(h, p) == BucketInsertUnique(h, p)
BucketInsertOrAssign(h, p) ==
    LET i == BucketFind(PairsOf(nodeHeap, h), p[1])
    IN  Room(1) /\ BucketBecomes(h, IF i = 0 THEN InsertPairAfter(nodeHeap, h, p)
                                    ELSE [nodeHeap EXCEPT !.data[NodesOf(nodeHeap, h)[i]] = p],
                                 BucketAssign(bucketSeq[h], p))
BucketInsertAfter(h, i, p) ==   \* after the i-th pair, before_begin() for 0
    LET pos == (<<h>> \o NodesOf(nodeHeap, h))[i + 1]
    IN  Room(1) /\ BucketBecomes(h, InsertPairAfter(nodeHeap, pos, p),
                                 InsertAt(bucketSeq[h], i + 1, p))
BucketInsertRange(h, i, r) ==
    LET pos == (<<h>> \o NodesOf(nodeHeap, h))[i + 1]
        s == bucketSeq[h]
    IN  Room(Len(r)) /\ BucketBecomes(h, InsertRangeAfter(nodeHeap, pos, r),
                                      SubSeq(s, 1, i) \o r \o SubSeq(s, i + 1, Len(s)))
BucketEraseKey(h, k) ==
    BucketBecomes(h, EraseKeyFrom(nodeHeap, h, k), BucketErase(bucketSeq[h], k))
BucketErasePos(h, i) ==         \* goes from the front to the node before
    LET pred == (<<h>> \o NodesOf(nodeHeap, h))[i]
    IN  BucketBecomes(h, EraseNodeAfter(nodeHeap, pred), BucketEraseAt(bucketSeq[h], i))
BucketConstruct(h, r) ==        \* in the place of one that was destroyed
    Room(Len(r)) /\ BucketBecomes(h, LinkRange(FreeAll(nodeHeap, h), h, r), r)
BucketCopy(h, from) ==
    /\ from \notin cleared /\ Room(Len(bucketSeq[from]))
    /\ BucketBecomes(h, LinkRange(FreeAll(nodeHeap, h), h, PairsOf(nodeHeap, from)),
                     bucketSeq[from])
BucketMove(h, from) ==
    /\ {h, from} \cap cleared = {}
    /\ nodeHeap' = TakeNodes(FreeAll(nodeHeap, h), h, from)
    /\ bucketSeq' = [bucketSeq EXCEPT ![h] = bucketSeq[from], ![from] = <<>>]
    /\ UNCHANGED <<lostNodes, cleared>>
BucketMoveAssign(h, from) ==    \* the nodes it had are freed by nobody
    /\ {h, from} \cap cleared = {}
    /\ nodeHeap' = TakeNodes(nodeHeap, h, from)
    /\ bucketSeq' = [bucketSeq EXCEPT ![h] = bucketSeq[from], ![from] = <<>>]
    /\ lostNodes' = lostNodes \cup ToSet(NodesOf(nodeHeap, h))
    /\ UNCHANGED cleared
BucketClear(h) ==               \* and head_ still points at what was freed
    /\ h \notin cleared /\ cleared' = cleared \cup {h}
    /\ nodeHeap' = FreeAll(nodeHeap, h) /\ bucketSeq' = [bucketSeq EXCEPT ![h] = <<>>]
    /\ UNCHANGED lostNodes

BucketsNext ==
    \E h \in Heads :
        \/ \E p \in NodePairs :
              \/ BucketPushFront(h, p) \/ BucketInsertUnique(h, p) \/ BucketTryEmplace(h, p)
              \/ BucketInsertOrAssign(h, p)
              \/ \E i \in 0..Len(bucketSeq[h]) : BucketInsertAfter(h, i, p)
        \/ \E r \in NodeRanges :
              \/ BucketConstruct(h, r)
              \/ \E i \in 0..Len(bucketSeq[h]) : BucketInsertRange(h, i, r)
        \/ \E k \in {1, 2} : BucketEraseKey(h, k)
        \/ \E i \in 1..Len(bucketSeq[h]) : BucketErasePos(h, i)
        \/ \E from \in Heads \ {h} :
              BucketCopy(h, from) \/ BucketMove(h, from) \/ BucketMoveAssign(h, from)
        \/ BucketClear(h)

BucketsTypeOK ==
    /\ nodeHeap.live \subseteq Nodes
    /\ nodeHeap.next \in [Heads \cup Nodes -> Nodes \cup {NullNode}]
    /\ bucketSeq \in [Heads -> Seq(NodePairs)] /\ cleared \subseteq Heads

(* The links of a bucket are the sequence HashMap's operations work on, no *)
(* node is in two buckets, and a node that is in none is free, unless a    *)
(* move assignment dropped it.                                             *)
NodesAreTheSequences ==
    LET used(h) == IF h \in cleared THEN {} ELSE ToSet(NodesOf(nodeHeap, h))
    IN  /\ \A h \in Heads \ cleared : PairsOf(nodeHeap, h) = bucketSeq[h]
        /\ \A h \in Heads : used(h) \subseteq nodeHeap.live \ lostNodes
        /\ used(-1) \cap used(-2) = {}
        /\ nodeHeap.live = used(-1) \cup used(-2) \cup lostNodes
=============================================================================
