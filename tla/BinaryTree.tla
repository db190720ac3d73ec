----------------------------- MODULE BinaryTree -----------------------------
(***************************************************************************)
(* BinaryTree of DataStructures/BinaryTree: an unbalanced search tree of   *)
(* pairs.  A node is known by its path from root_, a sequence of sides,    *)
(* and the tree is the function from the paths of its nodes to their       *)
(* pairs; a relinked child moves with everything below it.                 *)
(***************************************************************************)
EXTENDS Naturals, SequencesExt

CONSTANTS TreePairs,   \* the pairs <<key, value>> inserted
          TreeRanges,  \* the ranges of pairs a tree is made from
          TreeMax      \* bound: the nodes of the tree

ASSUME TreeConstants ==
    /\ TreePairs \subseteq Nat \X Nat /\ TreeMax \in Nat
    /\ \A r \in TreeRanges : r \in Seq(TreePairs)

VARIABLES tree,        \* the nodes below root_
          treePhase,   \* what the program can still do with the tree
          treeReply    \* history: the last call and its answer

treeVars == <<tree, treePhase, treeReply>>

ToLeft == 0
Stay == 1
ToRight == 2
TreeKeys == {e[1] : e \in TreePairs}
TreeMissing == 99
PathsBelow(t, p) == {q \in DOMAIN t : IsPrefix(p, q)}
ChildPath(p, side) == Append(p, side)

-----------------------------------------------------------------------------
(* Going down from a node: side[d] is where a node with data d sends the search *)
NodeData == Nat \X Nat
Descent(t, start, side) ==
    LET at[d \in 0..TreeMax] ==
            IF d = 0 THEN start
            ELSE LET p == at[d - 1]
                 IN  IF p \notin DOMAIN t \/ side[t[p]] = Stay THEN p ELSE ChildPath(p, side[t[p]])
    IN  at[TreeMax]

(* find_node_with_link: the link where the node of the key is or would be *)
LinkFrom(t, start, k) ==
    Descent(t, start, [d \in NodeData |->
        IF d[1] < k THEN ToRight ELSE IF k < d[1] THEN ToLeft ELSE Stay])
TreeLink(t, k) == LinkFrom(t, <<>>, k)

(* insert_at compares whole pairs, the values of equal keys too *)
PairLess(d, e) == d[1] < e[1] \/ (d[1] = e[1] /\ d[2] < e[2])
InsertPlace(t, e) ==
    Descent(t, <<>>, [d \in NodeData |->
        IF PairLess(e, d) THEN ToLeft ELSE IF PairLess(d, e) THEN ToRight ELSE Stay])
InsertNode(t, e) ==
    LET p == InsertPlace(t, e) IN IF p \in DOMAIN t THEN t ELSE t @@ (p :> e)

MakeRange(r) == FoldLeft(InsertNode, <<>> :> r[1], Tail(r))

(* The subtree at from takes the place of the one at to *)
Graft(t, to, from) ==
    LET kept == DOMAIN t \ PathsBelow(t, to)
        rest(q) == SubSeq(q, Len(from) + 1, Len(q))
        moved == {to \o rest(q) : q \in PathsBelow(t, from)}
    IN  [q \in kept \cup moved |->
            IF q \in kept THEN t[q] ELSE t[from \o SubSeq(q, Len(to) + 1, Len(q))]]

EraseLeaf(t, p) == Graft(t, p, ChildPath(p, ToLeft))
EraseSemibranch(t, p) ==
    Graft(t, p, IF ChildPath(p, ToLeft) \in DOMAIN t THEN ChildPath(p, ToLeft)
                ELSE ChildPath(p, ToRight))

(* the successor, leftmost on the right, takes the place of the node, and  *)
(* the right child of the successor the place of the successor             *)
Leftmost(t, p) == Descent(t, p, [d \in NodeData |-> ToLeft])
EraseBranch(t, p) ==
    LET beyond == Leftmost(t, ChildPath(p, ToRight))
        successor == SubSeq(beyond, 1, Len(beyond) - 1)
    IN  Graft([t EXCEPT ![p] = t[successor]], successor, ChildPath(successor, ToRight))

EraseNode(t, p) ==
    LET children == {c \in {ToLeft, ToRight} : ChildPath(p, c) \in DOMAIN t}
    IN  CASE children = {} -> EraseLeaf(t, p)
          [] Cardinality(children) = 1 -> EraseSemibranch(t, p)
          [] OTHER -> EraseBranch(t, p)

-----------------------------------------------------------------------------
(* The iterators: a current node, AtEnd at the end, and a stack of nodes *)
AtEnd == <<Stay>>
PopStack(s) == IF s = <<>> THEN [at |-> AtEnd, stack |-> <<>>]
               ELSE [at |-> Last(s), stack |-> Front(s)]

(* traverse_minimum and traverse_maximum: as far as it goes to one side,   *)
(* stacking the nodes passed                                               *)
Extreme(t, p, s, side) ==
    LET far == CHOOSE d \in 0..TreeMax :
                  LET q(n) == p \o [i \in 1..n |-> side]
                  IN  q(d) \in DOMAIN t /\ q(d + 1) \notin DOMAIN t
    IN  [at |-> p \o [i \in 1..far |-> side],
         stack |-> s \o [n \in 1..far |-> p \o [i \in 1..(n - 1) |-> side]]]

TreeBegin(t, side) == IF t = <<>> THEN PopStack(<<>>) ELSE Extreme(t, <<>>, <<>>, side)
(* operator++ of the in-order iterator, side = ToLeft, and of the reverse one *)
TreeAdvance(t, it, side) ==
    LET next == ChildPath(it.at, IF side = ToLeft THEN ToRight ELSE ToLeft)
    IN  IF next \in DOMAIN t THEN Extreme(t, next, it.stack, side) ELSE PopStack(it.stack)
(* operator++ of the pre-order iterator, which traverse_preorder does too *)
AdvancePreorder(t, it) ==
    LET s == IF ChildPath(it.at, ToRight) \in DOMAIN t
             THEN Append(it.stack, ChildPath(it.at, ToRight)) ELSE it.stack
    IN  IF ChildPath(it.at, ToLeft) \in DOMAIN t THEN [at |-> ChildPath(it.at, ToLeft), stack |-> s]
        ELSE PopStack(s)

(* The nodes an iterator comes to from first on; next is its operator++ *)
Iterators == LET Path == Seq({ToLeft, ToRight, Stay}) IN [at : Path, stack : Seq(Path)]
TreeVisited(first, next) ==
    LET its[i \in 1..(TreeMax + 1)] ==
            IF i = 1 THEN first
            ELSE IF its[i - 1].at = AtEnd THEN its[i - 1] ELSE next[its[i - 1]]
        seen == {i \in 1..(TreeMax + 1) : its[i].at # AtEnd}
    IN  [i \in 1..Cardinality(seen) |-> its[i].at]
InOrderWalk(t) == TreeVisited(TreeBegin(t, ToLeft), [it \in Iterators |-> TreeAdvance(t, it, ToLeft)])
ReverseWalk(t) == TreeVisited(TreeBegin(t, ToRight), [it \in Iterators |-> TreeAdvance(t, it, ToRight)])
PreorderWalk(t) ==
    TreeVisited(IF t = <<>> THEN PopStack(<<>>) ELSE [at |-> <<>>, stack |-> <<>>],
            [it \in Iterators |-> AdvancePreorder(t, it)])
DataOf(t, walk) == [i \in DOMAIN walk |-> t[walk[i]]]

(* The iterator of a key: begin() advanced until it is there, or the end *)
TreeScan(t, k) ==
    LET w == InOrderWalk(t) i == SelectInSeq(w, LAMBDA p : t[p][1] = k)
    IN  IF i = 0 THEN AtEnd ELSE w[i]

-----------------------------------------------------------------------------
TreeInit == tree = <<>> /\ treePhase = "live" /\ treeReply = <<"none", 0, 0, 0>>

TreeAnswer(call, k, v, n) == treeReply' = <<call, k, v, n>>
TreeBecomes(t) == Cardinality(DOMAIN t) <= TreeMax /\ tree' = t
AtNode(p) == p \in DOMAIN tree

(* The program ends here: an assertion fails, or memory is misused *)
TreeEnds(phase) == tree' = <<>> /\ treePhase' = phase /\ TreeAnswer("forget", 0, 0, 0)

TreeBuild(r) ==
    /\ treePhase = "live" /\ tree = <<>>
    /\ TreeBecomes(IF r = <<>> THEN <<>> ELSE MakeRange(r))
    /\ TreeAnswer("build", 0, 0, 0) /\ UNCHANGED treePhase

(* insert and emplace: insert_at asserts that there is a root *)
TreeInsert(k, v) ==
    /\ treePhase = "live"
    /\ \/ /\ tree = <<>> /\ TreeEnds("aborted")
       \/ /\ tree # <<>>
          /\ TreeBecomes(InsertNode(tree, <<k, v>>))
          /\ TreeAnswer("insert", k, v, IF AtNode(InsertPlace(tree, <<k, v>>)) THEN 0 ELSE 1)
          /\ UNCHANGED treePhase

(* insert_or_assign_impl and try_emplace_impl from a root: with none, the  *)
(* link is the address of a parameter, and the new node is linked nowhere. *)
PutFrom(start, call, k, v, assign) ==
    LET p == LinkFrom(tree, start, k)
    IN  /\ treePhase = "live"
        /\ \/ /\ tree = <<>>
              /\ \/ TreeEnds("crashed")
                 \/ UNCHANGED <<tree, treePhase>> /\ TreeAnswer("keep", 0, 0, 0)
           \/ /\ tree # <<>> /\ AtNode(p)
              /\ tree' = IF assign THEN [tree EXCEPT ![p] = <<@[1], v>>] ELSE tree
              /\ TreeAnswer(call, k, v, 0) /\ UNCHANGED treePhase
           \/ /\ tree # <<>> /\ ~AtNode(p)
              /\ TreeBecomes(tree @@ (p :> <<k, v>>))
              /\ TreeAnswer(call, k, v, 1) /\ UNCHANGED treePhase

TreeInsertOrAssign(k, v) == PutFrom(<<>>, "assign", k, v, TRUE)
TryEmplace(k, v) == PutFrom(<<>>, "insert", k, v, FALSE)

(* With a hint, as documented the node just before the place of the key *)
Hinted(k, v) ==
    LET smaller == {i \in DOMAIN InOrderWalk(tree) : tree[InOrderWalk(tree)[i]][1] < k}
    IN  smaller # {} /\ PutFrom(InOrderWalk(tree)[Max(smaller)], "assign", k, v, TRUE)

(* erase(key), and erase(pos), which looks for the key of the position *)
TreeErase(k) ==
    LET p == TreeLink(tree, k)
    IN  /\ treePhase = "live"
        /\ tree' = IF AtNode(p) THEN EraseNode(tree, p) ELSE tree
        /\ TreeAnswer("erase", k, 0, IF AtNode(p) THEN 1 ELSE 0) /\ UNCHANGED treePhase

TreeFind(k) ==        \* find, lower_bound
    LET p == TreeScan(tree, k)
    IN  /\ treePhase = "live"
        /\ TreeAnswer("find", k, 0, IF p = AtEnd THEN TreeMissing ELSE tree[p][2])
        /\ UNCHANGED <<tree, treePhase>>

(* upper_bound and equal_range advance the iterator of the key, and the    *)
(* end cannot be advanced                                                  *)
UpperBound(k) ==
    /\ treePhase = "live" /\ TreeScan(tree, k) = AtEnd /\ TreeEnds("crashed")

TreeCopy ==           \* the elements are inserted in their order
    /\ treePhase = "live"
    /\ tree' = IF tree = <<>> THEN <<>> ELSE MakeRange(DataOf(tree, InOrderWalk(tree)))
    /\ TreeAnswer("keep", 0, 0, 0) /\ UNCHANGED treePhase

TreeMovedFrom ==
    /\ treePhase = "live" /\ tree' = <<>>
    /\ TreeAnswer("forget", 0, 0, 0) /\ UNCHANGED treePhase

TreeClear == treePhase = "live" /\ TreeEnds("freed")   \* root_ is left dangling

TreeNext ==
    \/ \E r \in TreeRanges : TreeBuild(r)
    \/ \E e \in TreePairs :
          \/ TreeInsert(e[1], e[2]) \/ TreeInsertOrAssign(e[1], e[2])
          \/ TryEmplace(e[1], e[2]) \/ Hinted(e[1], e[2])
    \/ \E k \in TreeKeys : TreeErase(k) \/ TreeFind(k) \/ UpperBound(k)
    \/ TreeCopy \/ TreeMovedFrom \/ TreeClear

TreeSpec == TreeInit /\ [][TreeNext]_treeVars

-----------------------------------------------------------------------------
TreeTypeOK ==
    /\ \A p \in DOMAIN tree : /\ p \in Seq({ToLeft, ToRight}) /\ tree[p] \in TreePairs
                              /\ p = <<>> \/ Front(p) \in DOMAIN tree
    /\ treePhase \in {"live", "aborted", "crashed", "freed"}

(* The iterators come to every node once: the in-order one in the order of *)
(* the keys, the reverse one backwards, and the pre-order one, by which    *)
(* size() counts, to a node before its children.                           *)
IteratorsVisitAll ==
    LET w == InOrderWalk(tree)
        u == PreorderWalk(tree)
        N == Cardinality(DOMAIN tree)
    IN  /\ Len(w) = N /\ ToSet(w) = DOMAIN tree
        /\ \A i, j \in 1..N : i < j => tree[w[i]][1] <= tree[w[j]][1]
        /\ ReverseWalk(tree) = Reverse(w)
        /\ Len(u) = N /\ ToSet(u) = DOMAIN tree
        /\ \A i, j \in 1..N : IsPrefix(u[i], u[j]) => i <= j

(* Going down by comparing, as contains() and the modifiers do, finds a    *)
(* key exactly when the scan of find() comes to it.                        *)
DescentAgreesWithScan == \A k \in TreeKeys : AtNode(TreeLink(tree, k)) <=> TreeScan(tree, k) # AtEnd

(* A key is in two nodes only from a range with the key twice, an insert   *)
(* of a key that is there with another value, or a hint from which the     *)
(* node of the key is not below.                                           *)
KeyTwice(t) == \E p, q \in DOMAIN t : p # q /\ t[p][1] = t[q][1]
TreeDict(t) == [k \in {t[p][1] : p \in DOMAIN t} |-> t[CHOOSE p \in DOMAIN t : t[p][1] = k][2]]
TreeD == INSTANCE Dictionary WITH Keys <- TreeKeys, Values <- {e[2] : e \in TreePairs},
                             Missing <- TreeMissing,
                              Ranges <- TreeRanges,
                              dict <- TreeDict(tree), reply <- treeReply
TreeStep ==
    IF KeyTwice(tree') /\ ~KeyTwice(tree)
    THEN \/ treeReply'[1] = "build"
         \/ treeReply'[1] \in {"insert", "assign"} /\ TreeScan(tree, treeReply'[2]) # AtEnd
    ELSE KeyTwice(tree) \/ TreeD!Next
(* While no key is in two nodes, every call acts on the tree as on a       *)
(* dictionary; copying, moving and erasing branches do not show.           *)
TreeActsAsDictionary == [][TreeStep]_treeVars
=============================================================================
