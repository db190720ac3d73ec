------------------------------ MODULE Dictionary ------------------------------
(***************************************************************************)
(* What an associative container promises: a partial function from keys to *)
(* values.  Every call is one step that changes the function at most at    *)
(* its own key and answers from the function alone; reorganising, copying  *)
(* and moving the container do not show.                                   *)
(***************************************************************************)
EXTENDS Naturals, Sequences, TLC

CONSTANTS Keys, Values, Missing,
          Ranges      \* the sequences of pairs a container is made from

VARIABLES dict,   \* the partial function
          reply   \* <<call, key, value, answer>> of the last call

vars == <<dict, reply>>

Holds(k) == k \in DOMAIN dict
Called(call, k, v) == reply'[1] = call /\ reply'[2] = k /\ reply'[3] = v
Answered(n) == reply' = <<reply'[1], reply'[2], reply'[3], n>>

Init == dict = <<>> /\ reply = <<"none", 0, 0, 0>>

Insert(k, v) ==
    /\ Called("insert", k, v) /\ Answered(IF Holds(k) THEN 0 ELSE 1)
    /\ dict' = dict @@ (k :> v)

InsertOrAssign(k, v) ==
    /\ Called("assign", k, v) /\ Answered(IF Holds(k) THEN 0 ELSE 1)
    /\ dict' = (k :> v) @@ dict

Subscript(k) ==
    /\ Called("subscript", k, 0) /\ Answered(IF Holds(k) THEN dict[k] ELSE 0)
    /\ dict' = dict @@ (k :> 0)

Erase(k) ==
    /\ Called("erase", k, 0) /\ Answered(IF Holds(k) THEN 1 ELSE 0)
    /\ dict' = [j \in DOMAIN dict \ {k} |-> dict[j]]

Find(k) ==
    /\ Called("find", k, 0) /\ Answered(IF Holds(k) THEN dict[k] ELSE Missing)
    /\ UNCHANGED dict

(* A container made from a range keeps the first pair of each key *)
FirstOf(r, k) == CHOOSE i \in DOMAIN r : r[i][1] = k /\ \A j \in 1..(i - 1) : r[j][1] # k
Build(r) ==
    /\ Called("build", 0, 0) /\ Answered(0)
    /\ dict' = [k \in {r[i][1] : i \in DOMAIN r} |-> r[FirstOf(r, k)][2]]

Keep == Called("keep", 0, 0) /\ Answered(0) /\ UNCHANGED dict

Forget == Called("forget", 0, 0) /\ Answered(0) /\ dict' = <<>>

Next ==
    \/ \E k \in Keys, v \in Values : Insert(k, v) \/ InsertOrAssign(k, v)
    \/ \E k \in Keys : Subscript(k) \/ Erase(k) \/ Find(k)
    \/ \E r \in Ranges : Build(r)
    \/ Keep \/ Forget

Spec == Init /\ [][Next]_vars
=============================================================================
