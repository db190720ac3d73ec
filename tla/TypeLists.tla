----------------------------- MODULE TypeLists -----------------------------
(***************************************************************************)
(* Metaprogramming/typelist: the algorithms on lists of types, most of     *)
(* them written twice - by pattern matching on the parameter pack and, in  *)
(* an *_alt_impl namespace, by front and pop_front.  A list is a sequence, *)
(* a program that does not compile has the value NoType.                   *)
(***************************************************************************)
EXTENDS Naturals, SequencesExt, TLC

CONSTANTS Types,            \* the element types, with
          SizeOfType,       \* their sizes and
          Parent,           \* their direct bases, or themselves
          TypeListMax       \* bound: length of a list

VARIABLE typeList           \* the list the algorithms are applied to

Char == CHOOSE t \in Types : SizeOfType[t] = 1 /\ Parent[t] = t
NoType == <<"ill-formed">>

-----------------------------------------------------------------------------
(* typelist.hpp, is_derived.hpp *)
FrontType(list) == IF list = <<>> THEN NoType ELSE Head(list)
RECURSIVE BackType(_)
BackType(list) ==
    CASE list = <<>> -> NoType
      [] Len(list) = 1 -> Head(list)
      [] OTHER -> BackType(Tail(list))
PushFrontType(list, ts) == ts \o list
PushBackType(list, ts) == list \o ts
PopFrontType(list) == IF list = <<>> THEN <<>> ELSE Tail(list)
TypeCount(list) == Len(list)
ContainsType(list, t) == \E i \in DOMAIN list : list[i] = t

RECURSIVE DerivedFrom(_, _)      \* a class is derived from itself here
DerivedFrom(d, base) == d = base \/ (Parent[d] # d /\ DerivedFrom(Parent[d], base))

-----------------------------------------------------------------------------
RECURSIVE ReverseList(_), ReverseAlt(_)
ReverseList(list) ==
    IF list = <<>> THEN <<>> ELSE PushBackType(ReverseList(Tail(list)), <<Head(list)>>)
ReverseAlt(list) ==
    IF list = <<>> THEN list ELSE PushBackType(ReverseAlt(PopFrontType(list)), <<FrontType(list)>>)

RECURSIVE PopBackType(_)
PopBackType(list) ==
    IF Len(list) < 2 THEN <<>> ELSE PushFrontType(PopBackType(Tail(list)), <<Head(list)>>)
PopBackAlt(list) == ReverseList(PopFrontType(ReverseList(list)))

(* Beyond the end the pack has no specialization, while pop_front of an    *)
(* empty list is the empty list and front of it has no type.               *)
RECURSIVE NthElement(_, _), NthElementAlt(_, _)
NthElement(list, n) ==
    IF list = <<>> THEN NoType ELSE IF n = 0 THEN Head(list) ELSE NthElement(Tail(list), n - 1)
NthElementAlt(list, n) ==
    IF n = 0 THEN FrontType(list) ELSE NthElementAlt(PopFrontType(list), n - 1)

RECURSIVE FindIndexOf(_, _, _), FindIndexOfAlt(_, _, _)
FindIndexOf(list, t, n) ==
    IF list = <<>> THEN NoType ELSE IF Head(list) = t THEN n ELSE FindIndexOf(Tail(list), t, n + 1)
FindIndexOfAlt(list, t, n) ==
    IF list = <<>> THEN NoType
    ELSE IF FrontType(list) = t THEN n ELSE FindIndexOfAlt(PopFrontType(list), t, n + 1)

(* A metafunction is a function on types, or on a result and a type *)
TransformList(list, f) == [i \in DOMAIN list |-> f[list[i]]]
RECURSIVE TransformAlt(_, _)
TransformAlt(list, f) ==
    IF list = <<>> THEN list
    ELSE PushFrontType(TransformAlt(PopFrontType(list), f), <<f[FrontType(list)]>>)

ReplaceType(list, s, r) == [i \in DOMAIN list |-> IF list[i] = s THEN r ELSE list[i]]
RECURSIVE ReplaceAlt(_, _, _)
ReplaceAlt(list, s, r) ==       \* an empty list has no result
    CASE list = <<>> -> NoType
      [] Len(list) = 1 -> <<IF Head(list) = s THEN r ELSE Head(list)>>
      [] OTHER -> PushFrontType(ReplaceAlt(Tail(list), s, r),
                              <<IF Head(list) = s THEN r ELSE Head(list)>>)
ReplaceByTransform(list, s, r) == TransformList(list, [t \in Types |-> IF t = s THEN r ELSE t])

RECURSIVE EraseType(_, _), EraseAllTypes(_, _)     \* neither has an empty list
EraseType(list, t) ==
    CASE list = <<>> -> NoType
      [] Len(list) = 1 -> IF Head(list) = t THEN <<>> ELSE list
      [] OTHER -> IF Head(list) = t THEN Tail(list)
                  ELSE PushFrontType(EraseType(Tail(list), t), <<Head(list)>>)
EraseAllTypes(list, t) ==
    CASE list = <<>> -> NoType
      [] Len(list) = 1 -> IF Head(list) = t THEN <<>> ELSE list
      [] OTHER -> IF Head(list) = t THEN EraseAllTypes(Tail(list), t)
                  ELSE PushFrontType(EraseAllTypes(Tail(list), t), <<Head(list)>>)

Wider(t, u) == IF SizeOfType[t] >= SizeOfType[u] THEN t ELSE u
RECURSIVE LargestType(_), LargestTypeAlt(_)
LargestType(list) ==
    CASE list = <<>> -> Char
      [] Len(list) = 1 -> Head(list)
      [] OTHER -> Wider(Head(list), LargestType(Tail(list)))
LargestTypeAlt(list) ==
    IF list = <<>> THEN Char ELSE Wider(FrontType(list), LargestTypeAlt(PopFrontType(list)))

RECURSIVE AccumulateTypes(_, _, _), AccumulateAlt(_, _, _)
AccumulateTypes(list, f, init) ==
    CASE list = <<>> -> init
      [] Len(list) = 1 -> f[init, Head(list)]
      [] OTHER -> AccumulateTypes(Tail(list), f, f[init, Head(list)])
AccumulateAlt(list, f, init) ==
    IF list = <<>> THEN init ELSE AccumulateAlt(PopFrontType(list), f, f[init, FrontType(list)])
LargerType == [t \in Types, u \in Types |-> IF SizeOfType[u] < SizeOfType[t] THEN t ELSE u]

SmallerThan == [t \in Types, u \in Types |-> SizeOfType[t] < SizeOfType[u]]
RECURSIVE InsertSorted(_, _, _), InsertionSort(_, _),
          InsertSortedAlt(_, _, _), InsertionSortAlt(_, _)
InsertSorted(list, less, t) ==
    IF list = <<>> THEN PushFrontType(list, <<t>>)
    ELSE IF less[t, FrontType(list)] THEN PushFrontType(list, <<t>>)
    ELSE PushFrontType(InsertSorted(PopFrontType(list), less, t), <<FrontType(list)>>)
InsertionSort(less, list) ==
    IF list = <<>> THEN list
    ELSE InsertSorted(InsertionSort(less, PopFrontType(list)), less, FrontType(list))
InsertSortedAlt(list, less, t) ==
    IF list = <<>> THEN <<t>>
    ELSE IF less[t, Head(list)] THEN PushFrontType(list, <<t>>)
    ELSE PushFrontType(InsertSortedAlt(Tail(list), less, t), <<Head(list)>>)
InsertionSortAlt(less, list) ==
    IF list = <<>> THEN <<>>
    ELSE InsertSortedAlt(InsertionSortAlt(less, Tail(list)), less, Head(list))

(* value_lists.hpp: lists of values with the same operations; accumulate   *)
(* multiplies them, greater_than sorts them                                *)
GreaterThan == [m \in Nat, n \in Nat |-> m > n]
Multiply == [m \in Nat, n \in Nat |-> m * n]

RECURSIVE RemoveDuplicates(_)
RemoveDuplicates(list) ==
    IF Len(list) < 2 THEN list
    ELSE PushFrontType(EraseType(RemoveDuplicates(Tail(list)), Head(list)), <<Head(list)>>)

RECURSIVE MostDerived(_, _)
MostDerived(list, base) ==
    CASE list = <<>> -> NoType
      [] Len(list) = 1 -> IF DerivedFrom(Head(list), base) THEN Head(list) ELSE base
      [] OTHER -> LET candidate == MostDerived(Tail(list), base)
                  IN  IF DerivedFrom(candidate, Head(list)) THEN candidate ELSE Head(list)
MostDerivedFirst(list) ==
    IF Len(list) < 2 THEN NoType
    ELSE LET best == MostDerived(Tail(list), Head(list))
         IN  PushFrontType(ReplaceType(Tail(list), best, Head(list)), <<best>>)

-----------------------------------------------------------------------------
(* fundamentals/list_operations_2.cpp and, copied from it with has_tail    *)
(* for its own count, event_interface/typelist.h: list<ts...> and the bare *)
(* pack ts... have the same operations.  The list that has no element is   *)
(* the one element of a pack where no other specialization takes it.       *)
EmptyList == <<"list<>">>

FrontOfPack(ts) == IF ts = <<>> THEN NoType ELSE Head(ts)
FrontOfList(ts) == IF ts = <<>> THEN FrontOfPack(<<EmptyList>>) ELSE Head(ts)
RECURSIVE BackOfPack(_), BackOfList(_)
BackOfPack(ts) ==
    CASE ts = <<>> -> NoType
      [] Len(ts) = 1 -> Head(ts)
      [] OTHER -> BackOfPack(Tail(ts))
BackOfList(ts) ==
    CASE ts = <<>> -> BackOfPack(<<EmptyList>>)
      [] Len(ts) = 1 -> Head(ts)
      [] OTHER -> BackOfList(Tail(ts))
PushFrontAll(ts, us) == us \o ts
PushBackAll(ts, us) == ts \o us
PopFrontOfList(ts) == IF ts = <<>> THEN NoType ELSE Tail(ts)    \* no specialization
CountOfList(ts) == Len(ts)
ListContains(ts, t) == \E u \in ToSet(ts) : u = t

EventFront(ts) == FrontOfList(ts)
EventBack(ts) == BackOfList(ts)
EventPushFront(ts, us) == us \o ts
EventPopFront(ts) == IF ts = <<>> THEN NoType ELSE Tail(ts)
ListHasTail(ts) ==      \* one element, or none: the pack of one empty list
    CASE Len(ts) < 2 -> FALSE
      [] OTHER -> TRUE
RECURSIVE PostImplOf(_)       \* the classes whose handler is looked for, in order
PostImplOf(ts) ==
    <<EventFront(ts)>> \o IF ListHasTail(ts) THEN PostImplOf(EventPopFront(ts)) ELSE <<>>

-----------------------------------------------------------------------------
(* value_lists.hpp: a valuelist specializes the operations of typelist.hpp, *)
(* and with them every algorithm written by front and pop_front.  front    *)
(* gives, and the pushes take, a ct_value; a push takes another valuelist. *)
CtValue(n) == [value |-> n]
ValuesAreEmpty(ns) == Len(ns) = 0
ValueFront(ns) == IF ValuesAreEmpty(ns) THEN NoType ELSE CtValue(Head(ns))
ValuePopFront(ns) == IF ValuesAreEmpty(ns) THEN <<>> ELSE Tail(ns)
ValuePushFront(ns, ct) == <<ct.value>> \o ns
ValuePushFrontAll(ns, ms) == ms \o ns
ValuePushBack(ns, ct) == ns \o <<ct.value>>

RECURSIVE InsertValue(_, _), SortValues(_)
InsertValue(ns, ct) ==
    IF ValuesAreEmpty(ns) THEN ValuePushFront(ns, ct)
    ELSE IF GreaterThan[ct.value, ValueFront(ns).value] THEN ValuePushFront(ns, ct)
    ELSE ValuePushFront(InsertValue(ValuePopFront(ns), ct), ValueFront(ns))
SortValues(ns) ==
    IF ValuesAreEmpty(ns) THEN ns ELSE InsertValue(SortValues(ValuePopFront(ns)), ValueFront(ns))

-----------------------------------------------------------------------------
TypesInit == typeList = <<>>
TypesNext ==        \* the lists are met in the order of their lengths
    /\ Len(typeList) < TypeListMax
    /\ \E t \in Types : typeList' = Append(typeList, t)

-----------------------------------------------------------------------------
TypesTypeOK == typeList \in Seq(Types) /\ Len(typeList) <= TypeListMax

Occurrences(list, t) == Cardinality({i \in DOMAIN list : list[i] = t})
SameTypes(l, m) == \A t \in Types : Occurrences(l, t) = Occurrences(m, t)

(* The two implementations of an algorithm agree wherever both compile:    *)
(* everywhere but for replace, which has no empty list in one of them.     *)
TypeListsAgree ==
    /\ ReverseList(typeList) = ReverseAlt(typeList)
    /\ PopBackType(typeList) = PopBackAlt(typeList)
    /\ LargestType(typeList) = LargestTypeAlt(typeList)
    /\ InsertionSort(SmallerThan, typeList) = InsertionSortAlt(SmallerThan, typeList)
    /\ TransformList(typeList, Parent) = TransformAlt(typeList, Parent)
    /\ \A n \in 0..TypeListMax : NthElement(typeList, n) = NthElementAlt(typeList, n)
    /\ \A t \in Types :
          /\ FindIndexOf(typeList, t, 0) = FindIndexOfAlt(typeList, t, 0)
          /\ \A u \in Types :
                /\ ReplaceType(typeList, t, u) = ReplaceByTransform(typeList, t, u)
                /\ typeList # <<>> => ReplaceAlt(typeList, t, u) = ReplaceType(typeList, t, u)
    /\ LET prepend == [l \in Seq(Types), t \in Types |-> PushFrontType(l, <<t>>)]
       IN  /\ AccumulateTypes(typeList, prepend, <<>>) = ReverseList(typeList)
           /\ AccumulateAlt(typeList, prepend, <<>>) = ReverseList(typeList)

(* accumulate finds a largest type too, but the last of those of one size  *)
(* where largest_type finds the first.                                     *)
LargestFromBothEnds ==
    typeList # <<>> =>
    LET t == LargestType(typeList)
        u == AccumulateTypes(PopFrontType(typeList), LargerType, FrontType(typeList))
        largest == SelectSeq(typeList, LAMBDA v : \A w \in ToSet(typeList) :
                                                    SizeOfType[w] <= SizeOfType[v])
    IN  t = largest[1] /\ u = BackType(largest)

(* The sort orders by size and keeps every element; types of one size come *)
(* out in the reverse of their order.                                      *)
SortsAgainstTheOrder ==
    LET sorted == InsertionSort(SmallerThan, typeList)
        ofSize(l, n) == SelectSeq(l, LAMBDA t : SizeOfType[t] = n)
    IN  /\ \A i \in 1..(Len(sorted) - 1) : SizeOfType[sorted[i]] <= SizeOfType[sorted[i + 1]]
        /\ \A t \in Types :
              ofSize(sorted, SizeOfType[t]) = ReverseList(ofSize(typeList, SizeOfType[t]))

(* erase takes the first occurrence, erase_all every one, and              *)
(* remove_duplicates leaves the first of each type where it was.           *)
ErasesWhatItShould ==
    /\ typeList # <<>> => \A t \in Types :
          /\ EraseType(typeList, t) =
                IF ContainsType(typeList, t)
                 THEN RemoveAt(typeList, FindIndexOf(typeList, t, 0) + 1)
                ELSE typeList
          /\ EraseAllTypes(typeList, t) = SelectSeq(typeList, LAMBDA u : u # t)
    /\ LET firsts == {FindIndexOf(typeList, t, 0) : t \in ToSet(typeList)}
           at(i) == IF (i - 1) \in firsts THEN <<typeList[i]>> ELSE <<>>
       IN  RemoveDuplicates(typeList) = FlattenSeq([i \in DOMAIN typeList |-> at(i)])

(* In a list of one line of classes the most derived one is found.  To put *)
(* it first keeps the types of the list, unless it is more than once in    *)
(* the tail of a list that begins with another: then every one of them     *)
(* becomes the first type.                                                 *)
MostDerivedIsFound ==
    LET line == \A t, u \in ToSet(typeList) : DerivedFrom(t, u) \/ DerivedFrom(u, t)
        first == MostDerivedFirst(typeList)
        once == FrontType(typeList) = FrontType(first)
                 \/ Occurrences(typeList, FrontType(first)) = 1
    IN  Len(typeList) > 1 =>
        /\ line => \A t \in ToSet(typeList) : DerivedFrom(FrontType(first), t)
        /\ SameTypes(first, typeList) <=> once

(* The same algorithms on values: largest first, and the product. *)
ValuesLikeTypes ==
    LET values == [i \in DOMAIN typeList |-> SizeOfType[typeList[i]]]
        sorted == InsertionSort(GreaterThan, values)
    IN  /\ \A i \in 1..(Len(sorted) - 1) : sorted[i] >= sorted[i + 1]
        /\ sorted = ReverseList(InsertionSort([m \in Nat, n \in Nat |-> m < n], values))
        /\ AccumulateTypes(sorted, Multiply, 1) = AccumulateAlt(values, Multiply, 1)

(* What is pushed comes off again, in any of the three kinds of list, and  *)
(* event_interface2.cpp posts to every class once, in order; the older     *)
(* lists differ from typelist.hpp in the list without elements only, whose *)
(* first and last is itself and from which nothing can be popped.          *)
OlderListsAgree ==
    LET pushed == PushFrontAll(typeList, typeList)
        few == IF typeList = <<>> THEN EmptyList ELSE Head(typeList)
    IN  /\ FrontOfList(typeList) = few /\ EventFront(typeList) = few
        /\ EventBack(typeList) = BackOfList(typeList)
        /\ EventPushFront(typeList, typeList) = pushed
        /\ EventPopFront(typeList) = PopFrontOfList(typeList)
        /\ PostImplOf(typeList) = IF typeList = <<>> THEN <<EmptyList>> ELSE typeList
        /\ typeList = <<>> => BackOfList(typeList) = EmptyList /\ PopFrontOfList(typeList) = NoType
        /\ typeList # <<>> =>
              /\ FrontOfPack(typeList) = few /\ FrontType(typeList) = few
              /\ BackOfList(typeList) = BackType(typeList)
              /\ BackOfPack(typeList) = BackType(typeList)
              /\ PopFrontOfList(typeList) = PopFrontType(typeList)
              /\ FrontOfList(pushed) = FrontOfList(typeList)
              /\ BackOfList(PushBackAll(typeList, <<few>>)) = few
        /\ CountOfList(pushed) = 2 * CountOfList(typeList)
        /\ \A t \in Types : ListContains(typeList, t) <=> ContainsType(typeList, t)

(* A list of values behaves like the list of types it stands for, and      *)
(* sorts as its static_assert shows.                                       *)
ValueListsLikeTypes ==
    LET values == [i \in DOMAIN typeList |-> SizeOfType[typeList[i]]]
        all == ValuePushFrontAll(values, values)
    IN  /\ SortValues(values) = InsertionSort(GreaterThan, values)
        /\ values # <<>> =>
              /\ ValuePushFront(ValuePopFront(values), ValueFront(values)) = values
              /\ ValuePushFrontAll(<<>>, values) = values /\ ValueFront(all) = ValueFront(values)
              /\ SortValues(ValuePushBack(ValuePopFront(values), ValueFront(values)))
                    = SortValues(values)
        /\ typeList = <<>> => SortValues(<<6, 2, 4, 9, 5, 2, 1, 7>>) = <<9, 7, 6, 5, 4, 2, 2, 1>>

TypeListsOK ==
    /\ OlderListsAgree /\ ValueListsLikeTypes
    /\ TypeListsAgree /\ LargestFromBothEnds /\ SortsAgainstTheOrder
    /\ ErasesWhatItShould /\ MostDerivedIsFound /\ ValuesLikeTypes
=============================================================================
