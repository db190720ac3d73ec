----------------------------- MODULE Allocators -----------------------------
(***************************************************************************)
(* Memory/tracking_allocation: operator new and delete that keep a list of *)
(* what is not deleted yet, in an array of 100 (new_tracker.h), with the   *)
(* place of each new (new_tracker_src_loc.h) and in vectors                *)
(* (new_tracker_src_loc_myalloc.h).  Allocators/short_alloc: an arena that *)
(* serves blocks from a buffer on the stack and, when that is used up,     *)
(* from the heap, whose operators count in short_alloc.cpp.                *)
(***************************************************************************)
EXTENDS Naturals, SequencesExt, FiniteSetsExt

CONSTANTS MaxTraces,        \* s_max_traces, 100 in the code
          Addresses,        \* what malloc may return
          ArenaSize,        \* N, and
          ArenaAlign,       \* its alignment, which divides it
          ArenaMax          \* bound: blocks at a time

VARIABLES tracker,          \* the static members of NewTracker
          heapLive,         \* the blocks in use: those the tracker knows, others
          arena,            \* ptr_ - buf_ and the counters of operator new and delete
          arenaBlocks,      \* what the containers hold of it
          arenaInOrder      \* history: a block was always the last one when it was released

allocVars == <<tracker, heapLive, arena, arenaBlocks, arenaInOrder>>

Null == "nullptr"
TrackerKinds == {"array", "source_loc", "vector"}
Entry(p, loc) == [p |-> p, loc |-> loc]       \* of allocs and of traces
NoEntry == Entry(Null, "none")

-----------------------------------------------------------------------------
FilledWithNull == [i \in 1..MaxTraces |-> NoEntry]
EmptyVectors == <<>>
Cleared(kind) ==
    [kind |-> kind, entries |-> IF kind = "vector" THEN EmptyVectors ELSE FilledWithNull,
     num_allocs |-> 0, num_delete |-> 0, ended |-> FALSE]

TrackerReset ==         \* also while blocks are in use
    /\ ~tracker.ended /\ tracker.num_allocs > 0
    /\ tracker' = Cleared(tracker.kind)
    /\ heapLive' = [a \in DOMAIN heapLive |-> "other"]

(* The three kinds of list.  allocs.at throws in a noexcept function: the  *)
(* program ends.  Place 0 of an array is never taken and no place twice.   *)
AllocateInArray(t, n, p) ==
    IF n >= MaxTraces THEN [t EXCEPT !.ended = TRUE]
    ELSE [t EXCEPT !.num_allocs = n, !.entries[n + 1] = Entry(p, "none")]
AllocateWithLoc(t, n, p) ==
    IF n >= MaxTraces THEN [t EXCEPT !.ended = TRUE]
    ELSE [t EXCEPT !.num_allocs = n, !.entries[n + 1] = Entry(p, "here")]
AllocateInVector(t, n, p) ==
    [t EXCEPT !.num_allocs = n, !.entries = Append(@, Entry(p, "here"))]

TrackerAllocate(p) ==
    LET n == tracker.num_allocs + 1
    IN  /\ ~tracker.ended /\ p \in Addresses \ DOMAIN heapLive
        /\ tracker' = CASE tracker.kind = "array" -> AllocateInArray(tracker, n, p)
                        [] tracker.kind = "source_loc" -> AllocateWithLoc(tracker, n, p)
                        [] tracker.kind = "vector" -> AllocateInVector(tracker, n, p)
        /\ heapLive' = [a \in DOMAIN heapLive \cup {p} |-> IF a = p THEN "known" ELSE heapLive[a]]

(* The search, and at() of its end when p is not there                     *)
IndexOf(t, p) == SelectInSeq(t.entries, LAMBDA e : e.p = p)
DeallocateInArray(t, idx) == [t EXCEPT !.entries[idx].p = Null]
DeallocateWithLoc(t, idx) == [t EXCEPT !.entries[idx] = NoEntry]
DeallocateInVector(t, idx) == [t EXCEPT !.entries[idx] = NoEntry]   \* no place is removed

TrackerDeallocate(p) ==
    LET idx == IndexOf(tracker, p)
        t == [tracker EXCEPT !.num_delete = @ + 1]
    IN  /\ ~tracker.ended /\ p \in DOMAIN heapLive
        /\ tracker' = CASE idx = 0 -> [t EXCEPT !.ended = TRUE]
                        [] idx > 0 /\ t.kind = "array" -> DeallocateInArray(t, idx)
                        [] idx > 0 /\ t.kind = "source_loc" -> DeallocateWithLoc(t, idx)
                        [] idx > 0 /\ t.kind = "vector" -> DeallocateInVector(t, idx)
        /\ heapLive' = IF idx = 0 THEN heapLive
                       ELSE [a \in DOMAIN heapLive \ {p} |-> heapLive[a]]

Traced == {i \in DOMAIN tracker.entries : tracker.entries[i].p # Null}     \* by status

(* The two that take a source location leave operator new(size_t) as it    *)
(* is - it is what the containers of the library call - but replace the    *)
(* operator delete of its blocks.                                          *)
PlainNew(p) ==
    /\ ~tracker.ended /\ tracker.kind # "array" /\ p \in Addresses \ DOMAIN heapLive
    /\ heapLive' = [a \in DOMAIN heapLive \cup {p} |-> IF a = p THEN "other" ELSE heapLive[a]]
    /\ UNCHANGED tracker

TrackerStep ==
    /\ \/ TrackerReset
       \/ \E p \in Addresses : TrackerAllocate(p) \/ TrackerDeallocate(p) \/ PlainNew(p)
    /\ UNCHANGED <<arena, arenaBlocks, arenaInOrder>>

ChooseTracker ==
    /\ tracker = Cleared("array") /\ heapLive = <<>>
    /\ tracker' \in {Cleared(k) : k \in TrackerKinds}
    /\ UNCHANGED <<heapLive, arena, arenaBlocks, arenaInOrder>>

-----------------------------------------------------------------------------
Block(at, n, heap) == [at |-> at, n |-> n, heap |-> heap]
AlignUp(n) == ((n + ArenaAlign - 1) \div ArenaAlign) * ArenaAlign
PointerInBuffer(b) == ~b.heap       \* a block of the heap never begins where the buffer ends

\* What the arena does not serve is counted by operator new and delete
HeapNew(a) == [a EXCEPT !.alloc = @ + 1]
HeapDelete(a) == [a EXCEPT !.alloc = @ - 1]

ArenaAllocate(n) ==
    /\ Len(arenaBlocks) < ArenaMax
    /\ IF ArenaSize - arena.ptr >= AlignUp(n)
       THEN /\ arenaBlocks' = Append(arenaBlocks, Block(arena.ptr, n, FALSE))
            /\ arena' = [arena EXCEPT !.ptr = @ + AlignUp(n)]
       ELSE /\ arenaBlocks' = Append(arenaBlocks, Block(0, n, TRUE))
            /\ arena' = HeapNew(arena)
    /\ UNCHANGED arenaInOrder

ArenaDeallocate(i) ==       \* the sizes are those of the allocation, as containers give them
    LET b == arenaBlocks[i]
        top == b.at + AlignUp(b.n) = arena.ptr
    IN  /\ arenaBlocks' = RemoveAt(arenaBlocks, i)
        /\ arena' = CASE PointerInBuffer(b) /\ top -> [arena EXCEPT !.ptr = b.at]
                      [] PointerInBuffer(b) /\ ~top -> arena
                      [] ~PointerInBuffer(b) -> HeapDelete(arena)
        /\ arenaInOrder' = (arenaInOrder /\ (PointerInBuffer(b) => top))

ArenaReset ==               \* when no container holds a part of the buffer
    /\ \A i \in DOMAIN arenaBlocks : arenaBlocks[i].heap
    /\ arena' = [arena EXCEPT !.ptr = 0] /\ arenaInOrder' = TRUE /\ UNCHANGED arenaBlocks

ArenaStep ==
    /\ \/ \E n \in 0..ArenaSize : ArenaAllocate(n)
       \/ \E i \in DOMAIN arenaBlocks : ArenaDeallocate(i)
       \/ ArenaReset
    /\ UNCHANGED <<tracker, heapLive>>

-----------------------------------------------------------------------------
NewArena == [ptr |-> 0, alloc |-> 0]

AllocInit ==
    /\ tracker = Cleared("array") /\ heapLive = <<>>
    /\ arena = NewArena /\ arenaBlocks = <<>> /\ arenaInOrder = TRUE

AllocNext ==        \* a program uses either the tracker or, for its containers, an arena
    \/ arenaBlocks = <<>> /\ arena.ptr = 0 /\ arenaInOrder
       /\ tracker.num_allocs < MaxTraces /\ (ChooseTracker \/ TrackerStep)
    \/ tracker = Cleared("array") /\ heapLive = <<>> /\ ArenaStep

-----------------------------------------------------------------------------
AllocTypeOK ==
    /\ DOMAIN heapLive \subseteq Addresses
    /\ \A i \in DOMAIN tracker.entries : tracker.entries[i].p \in Addresses \cup {Null}
    /\ arena.ptr \in 0..ArenaSize /\ arena.alloc \in 0..ArenaMax

(* What status prints as not deallocated is what was allocated since the   *)
(* last reset and is still in use, each with its place in the source,      *)
(* though malloc gives an address again.                                   *)
StatusShowsTheLeaks ==
    LET shown == Traced
        known == {a \in DOMAIN heapLive : heapLive[a] = "known"}
    IN  ~tracker.ended =>
        /\ {tracker.entries[i].p : i \in shown} = known
        /\ Cardinality(shown) = Cardinality(known)
        /\ Cardinality(known) = tracker.num_allocs - tracker.num_delete
        /\ {i \in DOMAIN tracker.entries : tracker.entries[i].loc = "here"} =
              IF tracker.kind = "array" THEN {} ELSE shown

(* The tracker ends the program at the allocation for which the array has  *)
(* no place, however few are in use, and at the first delete of a block it *)
(* does not know: one from before the reset or of another operator new.    *)
EndsOnlyThen ==
    tracker.ended =>
        \/ tracker.kind # "vector" /\ tracker.num_allocs = MaxTraces - 1
        \/ \E a \in DOMAIN heapLive : heapLive[a] = "other"

(* The blocks of the buffer that have a size are aligned, do not overlap   *)
(* and lie below ptr_; what is used is what the blocks take, unless one    *)
(* was released that was not the last: its place is lost until reset.  The *)
(* counter of operator new and delete is the number of blocks outside.     *)
ArenaBlocksAreApart ==
    LET inside == {i \in DOMAIN arenaBlocks : ~arenaBlocks[i].heap}
        filled == {i \in inside : arenaBlocks[i].n > 0}
        end(i) == arenaBlocks[i].at + AlignUp(arenaBlocks[i].n)
        sum == FoldSet(LAMBDA i, s : s + AlignUp(arenaBlocks[i].n), 0, inside)
    IN  /\ \A i \in filled : arenaBlocks[i].at % ArenaAlign = 0 /\ end(i) <= arena.ptr
        /\ \A i, j \in filled : i < j => \/ end(i) <= arenaBlocks[j].at
                                          \/ end(j) <= arenaBlocks[i].at
        /\ arena.ptr >= sum /\ (arenaInOrder => arena.ptr = sum)
        /\ arena.alloc = Len(arenaBlocks) - Cardinality(inside)

AllocatorsOK == StatusShowsTheLeaks /\ EndsOnlyThen /\ ArenaBlocksAreApart
=============================================================================
