---------------------------- MODULE Conversation ----------------------------
(***************************************************************************)
(* What a chat room promises its members: there is one conversation, a     *)
(* sequence of messages.  A member who joins is given the last messages    *)
(* said, MaxRecent of them at most, and hears every message from there on, *)
(* each once and in the order they were said.                              *)
(***************************************************************************)
EXTENDS Naturals, Sequences

CONSTANTS Members, Messages, MaxRecent

VARIABLES said,        \* the conversation
          from,        \* from[c]: how much of it c is not told
          heard        \* heard[c]: what c was told

vars == <<said, from, heard>>

Init == said = <<>> /\ from = [c \in Members |-> 0] /\ heard = [c \in Members |-> <<>>]

Say == \E m \in Messages : said' = Append(said, m) /\ UNCHANGED <<from, heard>>

Join(c) ==
    /\ heard[c] = <<>>
    /\ from' = [from EXCEPT ![c] = IF Len(said) > MaxRecent THEN Len(said) - MaxRecent ELSE 0]
    /\ UNCHANGED <<said, heard>>

Hear(c) ==
    LET next == from[c] + Len(heard[c]) + 1
    IN  /\ next <= Len(said)
        /\ heard' = [heard EXCEPT ![c] = Append(@, said[next])]
        /\ UNCHANGED <<said, from>>

Next == Say \/ \E c \in Members : Join(c) \/ Hear(c)

Spec == Init /\ [][Next]_vars
=============================================================================
