-------------------------- MODULE TupleAlgorithms --------------------------
(***************************************************************************)
(* Metaprogramming/tuple_algorithms: algorithms on the elements of a tuple *)
(* and the alternative implementations beside them; and the adaptors of    *)
(* Metaprogramming/output_iterators that are built on them.  An algorithm  *)
(* is the sequence of calls of its function that it makes; NoTuple stands  *)
(* for a call that does not compile.  The adaptors are driven together,    *)
(* over a pointer into an array or over a back_inserter.                   *)
(***************************************************************************)
EXTENDS Integers, SequencesExt

CONSTANTS TupleKinds,       \* what functions and predicates tell of an element: its type
          TupleMax,         \* bound: elements of a tuple
          OutMax            \* bound: values written through the adaptors

VARIABLES tuples,           \* the arguments of the algorithms
          inserting,        \* the adaptors are over back_inserter, not over pointers
          outs,             \* the targets of the adaptors: the array and the pointer
          written           \* history: the values, and whether ++ followed the last

tupleVars == <<tuples, inserting, outs, written>>

NoTuple == <<"ill-formed">>

-----------------------------------------------------------------------------
(* An index_sequence directs the recursion through a tuple *)
Indices(t) == [i \in DOMAIN t |-> i]

ForEach(t) == FoldLeft(Append, <<>>, t)
RECURSIVE ForEachAlt(_, _), ForEachAlt2(_, _), ForEachAlt3(_, _), ForEachAlt4(_, _)
ForEachAlt(t, is) == IF is = <<>> THEN <<>> ELSE <<t[Head(is)]>> \o ForEachAlt(t, Tail(is))
ForEachAlt2(t, is) == IF is = <<>> THEN <<>> ELSE <<t[Head(is)]>> \o ForEachAlt2(t, Tail(is))
ForEachAlt3(t, is) ==       \* has no empty index_sequence
    CASE is = <<>> -> NoTuple
      [] Len(is) = 1 -> <<t[Head(is)]>>
      [] OTHER -> <<t[Head(is)]>> \o ForEachAlt3(t, Tail(is))
ForEachAlt4(t, is) ==       \* the current base class, then the remaining ones
    LET current == <<t[Head(is)]>>
    IN  IF is = <<>> THEN <<>> ELSE current \o ForEachAlt4(t, Tail(is))

RECURSIVE FindFrom(_, _, _), FindFromAlt(_, _, _)
FindFrom(t, matching, i) ==     \* I + 1 at the last index
    CASE i >= Len(t) -> NoTuple
      [] i < Len(t) /\ t[i + 1] \in matching -> i
      [] i = Len(t) - 1 /\ t[i + 1] \notin matching -> i + 1
      [] OTHER -> FindFrom(t, matching, i + 1)
FindFromAlt(t, matching, i) ==
    CASE i = Len(t) -> Len(t)
      [] i < Len(t) /\ t[i + 1] \in matching -> i
      [] OTHER -> FindFromAlt(t, matching, i + 1)
FindTupleIf(t, matching) == FindFrom(t, matching, 0)
FindTupleIfAlt(t, matching) == FindFromAlt(t, matching, 0)

MaybeInvoke(x, invocable) == IF x \in invocable THEN <<x>> ELSE <<>>

\* Mutant: the element after the one at index
ApplyPast(t, is, index, invocable) ==
    IF index + 2 \in ToSet(is) THEN MaybeInvoke(t[index + 2], invocable) ELSE <<>>
RECURSIVE ApplyAt(_, _, _, _), ApplyAtAlt(_, _, _, _)
ApplyAt(t, is, index, invocable) ==
    CASE is = <<>> -> <<>>
      [] is # <<>> /\ index + 1 = Head(is) -> MaybeInvoke(t[Head(is)], invocable)
      [] OTHER -> ApplyAt(t, Tail(is), index, invocable)
ApplyAtAlt(t, is, index, invocable) ==
    IF is = <<>> THEN <<>>
    ELSE IF Head(is) = index + 1 THEN MaybeInvoke(t[Head(is)], invocable)
    ELSE ApplyAtAlt(t, Tail(is), index, invocable)

RECURSIVE ApplyUnique(_, _, _, _), ApplyUniqueAlt(_, _, _, _)
ApplyUnique(t, is, matching, invocable) ==      \* has no empty tuple
    CASE is = <<>> -> NoTuple
      [] is # <<>> /\ t[Head(is)] \in matching -> MaybeInvoke(t[Head(is)], invocable)
      [] Len(is) = 1 /\ t[Head(is)] \notin matching -> <<>>
      [] OTHER -> ApplyUnique(t, Tail(is), matching, invocable)
ApplyUniqueAlt(t, is, matching, invocable) ==
    IF is = <<>> THEN <<>>
    ELSE IF t[Head(is)] \in matching THEN MaybeInvoke(t[Head(is)], invocable)
    ELSE ApplyUniqueAlt(t, Tail(is), matching, invocable)

RECURSIVE AccumulateTuple(_, _)
AccumulateTuple(t, init) ==     \* function(init, x) appends x; has no empty tuple
    CASE t = <<>> -> NoTuple
      [] Len(t) = 1 -> Append(init, t[1])
      [] OTHER -> AccumulateTuple(Tail(t), Append(init, t[1]))
AccumulateInPlace(t, init) == FoldLeft(Append, init, t)

RECURSIVE ElementwiseAlt(_, _), ElementwiseAlt2(_, _)
EqualSizes(ts) == \A i \in DOMAIN ts : Len(ts[i]) = Len(ts[1])
AtIndex(ts, i) == [j \in DOMAIN ts |-> ts[j][i]]
Elementwise(ts) ==
    IF EqualSizes(ts) THEN [i \in DOMAIN ts[1] |-> AtIndex(ts, i)] ELSE NoTuple
ElementwiseAlt(ts, is) ==       \* as many as the first tuple has; std::get beyond another
    CASE is = <<>> -> <<>>
      [] is # <<>> /\ \E j \in DOMAIN ts : Len(ts[j]) < Len(ts[1]) -> NoTuple
      [] OTHER -> <<AtIndex(ts, Head(is))>> \o ElementwiseAlt(ts, Tail(is))
ElementwiseAlt2(ts, is) ==
    IF is = <<>> THEN <<>>
    ELSE IF \E j \in DOMAIN ts : Len(ts[j]) < Len(ts[1]) THEN NoTuple
    ELSE <<AtIndex(ts, Head(is))>> \o ElementwiseAlt2(ts, Tail(is))
Apply2(t, u) ==
    IF Len(t) = Len(u) THEN [i \in DOMAIN t |-> <<t[i], u[i]>>] ELSE NoTuple

-----------------------------------------------------------------------------
(* basic_tuple/basic_tuple.h: an element is a base class with its index.   *)
(* Get of an lvalue is a reference; the caller constructs his value from   *)
(* what Get of an rvalue gives, and from an rvalue takes the contents.     *)
MovedAway == "moved from"
GotElement(t, index) == IF index + 1 \in DOMAIN t THEN t[index + 1] ELSE NoTuple
Constructed(t, index, fromRvalue) ==        \* the value, and the tuple after it
    [value |-> GotElement(t, index),
     left |-> IF fromRvalue THEN [t EXCEPT ![index + 1] = MovedAway] ELSE t]
BasicGet(t, index, rvalue) == Constructed(t, index, rvalue)

EqualityCompiles(t, u) == Len(t) <= Len(u)      \* Get<Is> of both, though the sizes differ
TupleEquals(t, u) == Len(t) = Len(u) /\ \A i \in DOMAIN t : t[i] = u[i]
TupleNotEquals(t, u) == Len(t) # Len(u) \/ ~TupleEquals(t, u)
RECURSIVE TupleLess(_, _, _, _)
TupleLess(t, is, u, js) ==
    IF is # <<>> /\ js # <<>>
    THEN LET left == t[Head(is)]
             right == u[Head(js)]
         IN  IF left = right THEN TupleLess(t, Tail(is), u, Tail(js)) ELSE left < right
    ELSE is = <<>> /\ js # <<>>
BasicLess(t, u) == TupleLess(t, Indices(t), u, Indices(u))

(* basic_tuple_cpp17: in get() && and get() const&& the object is an       *)
(* lvalue, so that get_element is the one for lvalues                      *)
Cpp17Get(t, index, rvalue) == Constructed(t, index, FALSE)
Cpp17Equals(t, u) == TupleEquals(t, u)
Cpp17NotEquals(t, u) == TupleNotEquals(t, u)
Cpp17Less(t, u) == BasicLess(t, u)

(* tuple_fsm/first/tuple.h: Get of an rvalue passes its name on            *)
FsmTupleGet(t, index, rvalue) == Constructed(t, index, FALSE)
FsmTupleEquals(t, u) == TupleEquals(t, u)
FsmTupleLess(t, u) == BasicLess(t, u)

-----------------------------------------------------------------------------
(* output_iterators: one value through every adaptor.  The test programs   *)
(* filter, partition and sort multiples; the transformations are these     *)

IsEven(v) == v % 2 = 0
Branches == <<"multiples of 3", "multiples of 2", "multiples of 1">>
BranchTakes(v) == <<v % 3 = 0, IsEven(v), TRUE>>
Tenfold(v) == 10 * v
Target == [cells |-> <<>>, at |-> 1]
Outs == {"filter", "true", "false", "transform", "multi 1", "multi 2", "unzip 1", "unzip 2",
         "alt 1", "alt 2"} \cup ToSet(Branches)

WriteTo(out, v) ==      \* *iterator = v
    IF inserting THEN [out EXCEPT !.cells = Append(@, v)]
    ELSE [out EXCEPT !.cells = SubSeq(@, 1, out.at - 1) \o <<v>> \o SubSeq(@, out.at + 1, Len(@))]
Incremented(out) == IF inserting THEN out ELSE [out EXCEPT !.at = @ + 1]
WriteNext(out, v) == Incremented(WriteTo(out, v))

Demuxed(v) ==       \* the branch tuple_apply_unique invokes
    Branches[ApplyUniqueAlt(<<1, 2, 3>>, <<1, 2, 3>>, {i \in 1..3 : BranchTakes(v)[i]}, 1..3)[1]]

OutAssign(v) ==
    LET to(name) == CASE name = "filter" -> IsEven(v)
                      [] name \in {"true", "false"} -> IsEven(v) <=> name = "true"
                      [] name \in ToSet(Branches) -> name = Demuxed(v)
                      [] OTHER -> FALSE
        value(name) ==
            IF name \in {"transform", "multi 2", "unzip 2", "alt 2"} THEN Tenfold(v) ELSE v
        selecting == {"filter", "true", "false"} \cup ToSet(Branches)
    IN  /\ Len(written) < OutMax
        /\ outs' = [name \in Outs |->
              CASE name \in selecting -> IF to(name) THEN WriteNext(outs[name], v) ELSE outs[name]
                [] OTHER -> WriteTo(outs[name], value(name))]
        /\ written' = Append(written, [value |-> v, stepped |-> FALSE])
        /\ UNCHANGED <<tuples, inserting>>

OutIncrement ==     \* ++ of the selecting adaptors does nothing
    LET pointed == {"transform", "multi 1", "multi 2", "unzip 1", "unzip 2", "alt 1", "alt 2"}
    IN  /\ written # <<>> /\ ~Last(written).stepped
        /\ outs' = [name \in Outs |->
              IF name \in pointed THEN Incremented(outs[name]) ELSE outs[name]]
        /\ written' = [written EXCEPT ![Len(written)].stepped = TRUE]
        /\ UNCHANGED <<tuples, inserting>>

-----------------------------------------------------------------------------
TuplesInit ==
    /\ tuples = << <<>>, <<>> >> /\ inserting = FALSE
    /\ outs = [name \in Outs |-> Target] /\ written = <<>>

TuplesGrow ==       \* the arguments the algorithms are applied to
    /\ written = <<>> /\ \E i \in 1..2 :
          /\ Len(tuples[i]) < TupleMax
          /\ \E k \in TupleKinds : tuples' = [tuples EXCEPT ![i] = Append(@, k)]
    /\ UNCHANGED <<inserting, outs, written>>

OverInserters ==     \* the adaptors are made over back_inserters
    /\ written = <<>> /\ inserting' = TRUE /\ UNCHANGED <<tuples, outs, written>>

TuplesNext ==
    \/ TuplesGrow
    \/ tuples = << <<>>, <<>> >>
       /\ (OverInserters \/ OutIncrement \/ \E v \in {1, 2, 3, 6} : OutAssign(v))

-----------------------------------------------------------------------------
TuplesTypeOK ==
    /\ \A i \in 1..2 : tuples[i] \in Seq(TupleKinds)
    /\ \A name \in Outs : outs[name].at \in 1..(OutMax + 1)

(* Wherever the implementations of one algorithm compile, they make the    *)
(* same calls; and a tuple without elements is what some of them lack.     *)
TupleAlternativesAgree ==
    LET t == tuples[1]
        is == Indices(t)
        empty == t = <<>>
    IN  /\ ForEach(t) = ForEachAlt(t, is) /\ ForEach(t) = ForEachAlt2(t, is)
        /\ ForEach(t) = ForEachAlt4(t, is)
        /\ ForEachAlt3(t, is) = IF empty THEN NoTuple ELSE ForEach(t)
        /\ AccumulateTuple(t, <<0>>) = IF empty THEN NoTuple ELSE AccumulateInPlace(t, <<0>>)
        /\ \A matching \in SUBSET TupleKinds, invocable \in SUBSET TupleKinds :
              /\ FindTupleIf(t, matching) = IF empty THEN NoTuple ELSE FindTupleIfAlt(t, matching)
              /\ ApplyUnique(t, is, matching, invocable) =
                    IF empty THEN NoTuple ELSE ApplyUniqueAlt(t, is, matching, invocable)
              /\ \A n \in 0..TupleMax :
                    ApplyAt(t, is, n, invocable) = ApplyAtAlt(t, is, n, invocable)
        /\ ElementwiseAlt(tuples, is) = ElementwiseAlt2(tuples, is)
        /\ Elementwise(tuples) = Apply2(t, tuples[2])
        /\ EqualSizes(tuples) => Elementwise(tuples) = ElementwiseAlt(tuples, is)

(* tuple_apply_at at the index tuple_find_if returns does what             *)
(* tuple_apply_unique does, also when nothing is found: the index is then  *)
(* the size, at which nothing is applied.                                  *)
FindThenApply ==
    LET t == tuples[1]
    IN  \A matching \in SUBSET TupleKinds, invocable \in SUBSET TupleKinds :
           ApplyAt(t, Indices(t), FindTupleIfAlt(t, matching), invocable)
             = ApplyUniqueAlt(t, Indices(t), matching, invocable)

(* The selecting adaptors deliver every value to the right target however  *)
(* they are incremented, and the others one value per increment: over      *)
(* pointers a value that was not followed by ++ is overwritten.  Both      *)
(* implementations of unzip agree.                                         *)
AdaptorsDeliver ==
    LET all == [i \in DOMAIN written |-> written[i].value]
        sent(P(_)) == SelectSeq(all, P)
        last(i) == written[i].stepped \/ i = Len(written)
        kept == IF inserting THEN all
                ELSE LET final == SelectSeq(Indices(written), last)
                     IN  [i \in DOMAIN final |-> all[final[i]]]
        tenfold == [i \in DOMAIN kept |-> 10 * kept[i]]
    IN  /\ outs["filter"].cells = sent(IsEven) /\ outs["true"].cells = sent(IsEven)
        /\ outs["false"].cells = sent(LAMBDA v : v \in {1, 3})
        /\ outs[Branches[1]].cells = sent(LAMBDA v : v \in {3, 6})
        /\ outs[Branches[2]].cells = sent(LAMBDA v : v = 2)
        /\ outs[Branches[3]].cells = sent(LAMBDA v : v = 1)
        /\ \A name \in {"multi 1", "unzip 1", "alt 1"} : outs[name].cells = kept
        /\ \A name \in {"transform", "multi 2", "unzip 2", "alt 2"} : outs[name].cells = tenfold

(* The comparisons order the tuples of all sizes: exactly one of <, == and *)
(* > holds, where == compiles, and != is the rest; a tuple is below what   *)
(* begins with it, and what is appended to the greater of two of one size  *)
(* does not change the order.  == does not compile with the longer tuple   *)
(* on the left, != does.                                                   *)
ComparisonsOrder ==
    LET rank(k) == CHOOSE i \in 1..Cardinality(TupleKinds) : SetToSeq(TupleKinds)[i] = k
        t == [i \in DOMAIN tuples[1] |-> rank(tuples[1][i])]
        u == [i \in DOMAIN tuples[2] |-> rank(tuples[2][i])]
    IN  /\ EqualityCompiles(t, u) =>
              /\ TupleEquals(t, u) <=> ~BasicLess(t, u) /\ ~BasicLess(u, t)
              /\ TupleNotEquals(t, u) <=> ~TupleEquals(t, u)
        /\ ~(BasicLess(t, u) /\ BasicLess(u, t))
        /\ TupleNotEquals(t, u) <=> BasicLess(t, u) \/ BasicLess(u, t)
        /\ \A i \in 1..Cardinality(TupleKinds) :
              /\ BasicLess(t, Append(t, i))
              /\ Len(t) = Len(u) /\ BasicLess(t, u) => BasicLess(Append(t, i), u)
        /\ Cpp17Equals(t, u) = TupleEquals(t, u) /\ FsmTupleEquals(t, u) = TupleEquals(t, u)
        /\ Cpp17NotEquals(t, u) = TupleNotEquals(t, u)
        /\ Cpp17Less(t, u) = BasicLess(t, u) /\ FsmTupleLess(t, u) = BasicLess(t, u)

(* An element is taken once from an rvalue tuple of basic_tuple.h: taking  *)
(* all of them in turn gives the tuple and empties it.  The other two copy *)
(* the element and leave the tuple as it was.                              *)
TakenInTurn ==
    LET t == tuples[1]
        empty == [i \in DOMAIN t |-> MovedAway]
        take(get(_, _, _)) ==
            FoldLeft(LAMBDA acc, i : [values |-> Append(acc.values, get(acc.left, i - 1, TRUE).value),
                                      left |-> get(acc.left, i - 1, TRUE).left],
                     [values |-> <<>>, left |-> t], Indices(t))
    IN  /\ take(BasicGet) = [values |-> t, left |-> empty]
        /\ take(Cpp17Get) = [values |-> t, left |-> t]
        /\ take(FsmTupleGet) = [values |-> t, left |-> t]

TuplesOK == ComparisonsOrder /\ TakenInTurn /\ TupleAlternativesAgree /\ FindThenApply /\ AdaptorsDeliver
=============================================================================
