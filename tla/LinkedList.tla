------------------------------ MODULE LinkedList ------------------------------
(***************************************************************************)
(* SingleLinkedList of DataStructures/SingleLinkedList, as the sequence    *)
(* its nodes spell: an element <<key, tag>> is compared by its key, so     *)
(* that equal elements can be told apart.  A position is the number of     *)
(* elements before the gap after it: before_begin() is 0.                  *)
(***************************************************************************)
EXTENDS Naturals, SequencesExt

CONSTANTS ListKeys, ListTags,
          ListArgs,    \* the lists merged or inserted
          ListMax      \* bound: the length of the list

ASSUME ListConstants ==
    /\ ListKeys \subseteq Nat /\ ListMax \in Nat
    /\ \A l \in ListArgs : l \in Seq(ListKeys \X ListTags)

VARIABLES nodes,       \* the list from head_.next
          listPhase    \* "aborted" when an assertion has failed

listVars == <<nodes, listPhase>>

ListElems == ListKeys \X ListTags
ListLess(x, y) == x[1] < y[1]
ListSame(x, y) == x[1] = y[1]

-----------------------------------------------------------------------------
(* The algorithms *)

(* One pass of the bubble sort: the node lhs is compared with the next and *)
(* changes places with it when that is smaller.                            *)
SwapNodes(s, i) ==
    IF ListLess(s[i + 1], s[i]) THEN [s EXCEPT ![i] = s[i + 1], ![i + 1] = s[i]] ELSE s
SortPass(s) ==
    LET upTo[i \in 0..Len(s)] == IF i < 2 THEN s ELSE SwapNodes(upTo[i - 1], i - 1)
    IN  upTo[Len(s)]
ListSorted(s) ==      \* passes are made until one changes nothing
    LET after[p \in 0..Len(s)] == IF p = 0 THEN s ELSE SortPass(after[p - 1])
    IN  after[Len(s)]

(* merge: the elements of the list that are not greater than rb go first,  *)
(* then rb is linked before the rest.  The run from rb to rend is taken    *)
(* out of other, and only its first node is linked to the list.            *)
MergeSkipped(rb, l) == Cardinality({i \in DOMAIN l : \A j \in 1..i : ~ListLess(rb, l[j])})
MergeRun(r, rest) ==       \* how many nodes there are from rb to rend
    Cardinality({i \in DOMAIN r : \A j \in 2..i : rest = <<>> \/ ~ListLess(rest[1], r[j])})
Merged(l, r) ==
    LET \* <<merged so far, rest of l, rest of r>> after n runs
        step[n \in 0..Len(r)] ==
            IF n = 0 \/ step[n - 1][3] = <<>> THEN (IF n = 0 THEN <<<<>>, l, r>> ELSE step[n - 1])
            ELSE LET s == step[n - 1]
                     k == MergeSkipped(s[3][1], s[2])
                     rest == SubSeq(s[2], k + 1, Len(s[2]))
                     m == MergeRun(s[3], rest)
                 IN  <<s[1] \o SubSeq(s[2], 1, k) \o <<s[3][1]>>, rest,
                       SubSeq(s[3], m + 1, Len(s[3]))>>
    IN  step[Len(r)][1] \o step[Len(r)][2]

(* unique: the nodes after begin that are equal to it are freed *)
Unique(s) ==
    LET upTo[i \in 0..Len(s)] ==
            IF i = 0 THEN <<>>
            ELSE IF upTo[i - 1] # <<>> /\ ListSame(Last(upTo[i - 1]), s[i])
                 THEN upTo[i - 1] ELSE Append(upTo[i - 1], s[i])
    IN  upTo[Len(s)]

RemoveIf(s, k) == SelectSeq(s, LAMBDA x : x[1] # k)

(* reverse: each node in turn becomes the first *)
Reversed(s) == FoldLeft(LAMBDA done, x : <<x>> \o done, <<>>, s)

InsertAfter(s, p, l) == SubSeq(s, 1, p) \o l \o SubSeq(s, p + 1, Len(s))
EraseAfter(s, p, q) == SubSeq(s, 1, p) \o SubSeq(s, q, Len(s))   \* the nodes between p and q

Resized(s, n, x) ==
    IF n > Len(s) THEN InsertAfter(s, Len(s), [i \in 1..(n - Len(s)) |-> x])
    ELSE EraseAfter(s, n, Len(s) + 1)

-----------------------------------------------------------------------------
ListInit == nodes = <<>> /\ listPhase = "live"

ListBecomes(s) ==
    /\ listPhase = "live" /\ Len(s) <= ListMax
    /\ nodes' = s /\ UNCHANGED listPhase

(* insert_after and emplace_after *)
ListInsert(p, l) == ListBecomes(InsertAfter(nodes, p, l))
ListPushFront(x) == ListBecomes(<<x>> \o nodes)   \* emplace_front too

PopFront == ListBecomes(IF nodes = <<>> THEN nodes ELSE Tail(nodes))

(* erase_after(pos): nothing happens at the last element *)
EraseOneAfter(p) == ListBecomes(IF p = Len(nodes) THEN nodes ELSE EraseAfter(nodes, p, p + 2))
EraseRangeAfter(p, q) == ListBecomes(EraseAfter(nodes, p, q))

ListResize(n, x) == ListBecomes(Resized(nodes, n, x))
ListMerge(r) == ListBecomes(Merged(nodes, r))
RemoveKey(k) == ListBecomes(RemoveIf(nodes, k))
MakeUnique == ListBecomes(Unique(nodes))
ListSort == ListBecomes(ListSorted(nodes))
ReverseNodes == ListBecomes(Reversed(nodes))
ListClear == ListBecomes(<<>>)                \* clear, and being moved from
ListReplace(r) == ListBecomes(r)              \* assigned to or swapped with another list

(* The copy constructors make a range of what they copy, and a range has   *)
(* at least one element, or the program is aborted.                        *)
ListCopy ==
    /\ listPhase = "live"
    /\ listPhase' = IF nodes = <<>> THEN "aborted" ELSE "live"
    /\ UNCHANGED nodes

ListNext ==
    \/ \E p \in 0..Len(nodes) :
          \/ \E l \in ListArgs \cup {<<x>> : x \in ListElems} : ListInsert(p, l)
          \/ EraseOneAfter(p)
          \/ \E q \in (p + 1)..(Len(nodes) + 1) : EraseRangeAfter(p, q)
    \/ \E x \in ListElems : ListPushFront(x)
    \/ \E r \in ListArgs : ListMerge(r) \/ ListReplace(r)
    \/ \E n \in 0..ListMax, x \in ListElems : ListResize(n, x)
    \/ \E k \in ListKeys : RemoveKey(k)
    \/ PopFront \/ MakeUnique \/ ListSort \/ ReverseNodes \/ ListClear \/ ListCopy

ListSpec == ListInit /\ [][ListNext]_listVars

-----------------------------------------------------------------------------
ListTypeOK == nodes \in Seq(ListElems) /\ Len(nodes) <= ListMax /\ listPhase \in {"live", "aborted"}

ListOrdered(s) == \A i, j \in DOMAIN s : i < j => ~ListLess(s[j], s[i])

(* the elements of s with the key k, in their order *)
OfKey(s, k) == SelectSeq(s, LAMBDA x : x[1] = k)

(* sort() is a stable sort: the result is ordered, and equal elements keep *)
(* their order.                                                            *)
SortIsStable ==
    LET s == ListSorted(nodes)
    IN  ListOrdered(s) /\ \A k \in ListKeys : OfKey(s, k) = OfKey(nodes, k)

(* unique() leaves no two equal neighbours, and of neighbours that are     *)
(* equal the first; reverse() reverses.                                    *)
UniqueAndReverse ==
    LET firsts == {i \in DOMAIN nodes : i = 1 \/ ~ListSame(nodes[i - 1], nodes[i])}
    IN  /\ Unique(nodes) = [n \in 1..Cardinality(firsts) |->
                             nodes[CHOOSE i \in firsts : Cardinality(firsts \cap (1..i)) = n]]
        /\ \A i \in DOMAIN nodes : Reversed(nodes)[i] = nodes[Len(nodes) + 1 - i]

(* merge() of two ordered lists gives an ordered list with every element   *)
(* of this one.  It keeps every element of other exactly when an element   *)
(* of this list lies between any two neighbours of other; otherwise nodes  *)
(* are lost.                                                               *)
MergeKeepsAlternating ==
    \A r \in ListArgs :
        ListOrdered(nodes) /\ ListOrdered(r) =>
            LET m == Merged(nodes, r)
                alternate == \A i \in 2..Len(r) : \E x \in ToSet(nodes) :
                                ListLess(r[i - 1], x) /\ ListLess(x, r[i])
            IN  /\ ListOrdered(m)
                /\ \A k \in ListKeys : IsPrefix(OfKey(nodes, k), OfKey(m, k))
                /\ alternate <=> \A k \in ListKeys :
                                    OfKey(m, k) = OfKey(nodes, k) \o OfKey(r, k)
                /\ alternate <=> Len(m) = Len(nodes) + Len(r)

ListAlgorithms == SortIsStable /\ UniqueAndReverse /\ MergeKeepsAlternating
=============================================================================
