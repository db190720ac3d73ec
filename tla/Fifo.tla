-------------------------------- MODULE Fifo --------------------------------
(***************************************************************************)
(* What a queue between threads promises, without locks or waiting: the    *)
(* elements come out once each, in the order in which they went in.        *)
(***************************************************************************)
EXTENDS Naturals, Sequences

CONSTANT Elements

VARIABLES pushed,   \* every element ever pushed, in order
          popped    \* every element ever popped, in order

fifoVars == <<pushed, popped>>

Init == pushed = <<>> /\ popped = <<>>

Put == \E e \in Elements : pushed' = Append(pushed, e) /\ UNCHANGED popped

Get ==
    /\ Len(popped) < Len(pushed)
    /\ popped' = Append(popped, pushed[Len(popped) + 1])
    /\ UNCHANGED pushed

Next == Put \/ Get

Spec == Init /\ [][Next]_fifoVars
=============================================================================
