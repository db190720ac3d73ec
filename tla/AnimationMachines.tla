------------------------- MODULE AnimationMachines -------------------------
(***************************************************************************)
(* The animation of State_machines: idle, animating with a counter that    *)
(* eUpdate increments, paused; back to idle by eStop or when the counter   *)
(* is at its limit.  Fifteen programs write it, each in a style of state   *)
(* machine; all of them get the same events here.                          *)
(***************************************************************************)
EXTENDS Sml

CONSTANT AnimMax        \* bound: eUpdate while a counter is below it

VARIABLES machine,      \* the object of each program
          animation,    \* what it should be: [state, count]
          unlimited,    \* and without a limit of the counter
          stoppedPaused \* history: the last eStop that did something came in Paused

animVars == <<machine, animation, unlimited, stoppedPaused>>

AnimEvents == {"play", "update", "pause", "stop"}
AnimStates == {"Idle", "Animating", "Paused"}
Machine(s, n) == [state |-> s, count |-> n]

(* The machine that the programs mean *)
AnimationStep(a, e, limited) ==
    CASE e = "play" /\ a.state \in {"Idle", "Paused"} -> [a EXCEPT !.state = "Animating"]
      [] e = "pause" /\ a.state = "Animating" -> [a EXCEPT !.state = "Paused"]
      [] e = "stop" -> Machine("Idle", 0)
      [] e = "update" /\ a.state = "Animating" ->
            IF limited /\ a.count + 1 >= AnimLimit THEN Machine("Idle", 0)
            ELSE [a EXCEPT !.count = @ + 1]
      [] OTHER -> a

-----------------------------------------------------------------------------
(* naive_fsm/fist.cpp: a switch over the state in each function *)
SwitchStep(m, e) ==
    CASE e = "update" ->
            IF m.state # "Animating" THEN m
            ELSE IF m.count + 1 >= AnimLimit THEN Machine("Idle", 0)
            ELSE [m EXCEPT !.count = @ + 1]
      [] e = "play" -> [m EXCEPT !.state = "Animating"]
      [] e = "stop" -> Machine("Idle", 0)
      [] e = "pause" -> IF m.state = "Animating" THEN [m EXCEPT !.state = "Paused"] ELSE m

(* naive_fsm/second.cpp: the handler of the state, then the table.  Each   *)
(* state has a counter, handed over at Pause and Play; there is no limit.  *)
HandlerTableTransition(s, e) ==
    CASE e = "play" -> "Animating"
      [] e = "pause" -> IF s = "Idle" THEN "Idle" ELSE "Paused"
      [] e = "stop" -> "Idle"
      [] e = "update" -> s
HandleAnimating(m, e) ==
    CASE e = "pause" -> [m EXCEPT !.paused = m.animating]
      [] e = "stop" -> [m EXCEPT !.animating = 0]
      [] e = "update" -> [m EXCEPT !.animating = @ + 1]
      [] e = "play" -> m
HandlePaused(m, e) ==
    CASE e = "play" -> [m EXCEPT !.animating = m.paused]
      [] e = "stop" -> [m EXCEPT !.paused = 0]
      [] e \in {"pause", "update"} -> m
HandleIdle(m, e) == m
SecondMachine == [state |-> "Idle", animating |-> 0, paused |-> 0]
HandlerTableStep(m, e) ==
    LET handled == CASE m.state = "Animating" -> HandleAnimating(m, e)
                     [] m.state = "Paused" -> HandlePaused(m, e)
                     [] m.state = "Idle" -> HandleIdle(m, e)
    IN  [handled EXCEPT !.state = HandlerTableTransition(m.state, e)]

(* variant_fsm/first_hack.cpp and second.cpp: the variant is assigned      *)
(* while it is visited; a counter is in the alternatives that have one     *)
VisitStep(v, e) ==
    CASE e = "update" /\ v.state = "Animating" ->
            IF v.count + 1 >= AnimLimit THEN Machine("Idle", 0) ELSE [v EXCEPT !.count = @ + 1]
      [] e = "play" /\ v.state = "Idle" -> Machine("Animating", 0)
      [] e = "play" /\ v.state = "Paused" -> Machine("Animating", v.count)
      [] e = "stop" /\ v.state \in {"Animating", "Paused"} -> Machine("Idle", 0)
      [] e = "pause" /\ v.state = "Animating" -> Machine("Paused", v.count)
      [] OTHER -> v
MatchStep(v, e) ==
    CASE e = "play" -> IF v.state = "Animating" THEN v
                       ELSE Machine("Animating", IF v.state = "Paused" THEN v.count ELSE 0)
      [] e = "update" -> IF v.state # "Animating" THEN v
                         ELSE IF v.count + 1 >= AnimLimit THEN Machine("Idle", 0)
                         ELSE [v EXCEPT !.count = @ + 1]
      [] e = "pause" -> IF v.state = "Animating" THEN Machine("Paused", v.count) ELSE v
      [] e = "stop" -> IF v.state # "Idle" THEN Machine("Idle", 0) ELSE v

(* variant_fsm/third.cpp and fourth.cpp: dispatch_event is asked for a new *)
(* state on a copy of the machine, and only what it returns is kept        *)
Unhandled == Machine("none", 0)
OptionalEvent(copy, e) ==
    CASE e = "update" /\ copy.state = "Animating" ->
            LET n == copy.count + 1
            IN  IF n >= AnimLimit THEN Machine("Idle", 0) ELSE [copy EXCEPT !.count = n]
      [] e = "play" /\ copy.state = "Idle" -> Machine("Animating", 0)
      [] e = "play" /\ copy.state = "Paused" -> Machine("Animating", copy.count)
      [] e = "stop" /\ copy.state \in {"Animating", "Paused"} -> Machine("Idle", 0)
      [] e = "pause" /\ copy.state = "Animating" -> Machine("Paused", copy.count)
      [] OTHER -> Unhandled
OptionalStep(m, e) == LET new == OptionalEvent(m, e) IN IF new = Unhandled THEN m ELSE new
MonostateEvent(copy, e) ==
    CASE e = "update" ->
            IF copy.state # "Animating" THEN Unhandled
            ELSE IF copy.count + 1 >= AnimLimit THEN Machine("Idle", 0)
            ELSE Machine("Animating", copy.count + 1)
      [] e = "play" ->
            IF copy.state = "Animating" THEN Unhandled ELSE Machine("Animating", copy.count)
      [] e = "stop" -> IF copy.state = "Idle" THEN Unhandled ELSE Machine("Idle", 0)
      [] e = "pause" ->
            IF copy.state = "Animating" THEN Machine("Paused", copy.count) ELSE Unhandled
MonostateStep(m, e) == LET new == MonostateEvent(m, e) IN IF new = Unhandled THEN m ELSE new

(* tiny_fsm/first.cpp: current_state points at one of three objects; the   *)
(* counter stays in StateAnimating and the transitions that stop reset it  *)
Transit(m, s) == [m EXCEPT !.state = s]
TransitAction(m, s) == [m EXCEPT !.count = 0, !.state = s]
ReactAnimating(m, e) ==
    CASE e = "update" ->
            LET n == [m EXCEPT !.count = @ + 1]
            IN  IF n.count >= AnimLimit THEN TransitAction(n, "Idle") ELSE n
      [] e = "pause" -> Transit(m, "Paused")
      [] e = "stop" -> TransitAction(m, "Idle")
      [] e = "play" -> m
ReactPaused(m, e) ==
    CASE e = "play" -> Transit(m, "Animating")
      [] e = "stop" -> TransitAction(m, "Idle")
      [] e \in {"update", "pause"} -> m
ReactIdle(m, e) == IF e = "play" THEN Transit(m, "Animating") ELSE m
TinyStep(m, e) ==
    CASE m.state = "Animating" -> ReactAnimating(m, e)
      [] m.state = "Paused" -> ReactPaused(m, e)
      [] m.state = "Idle" -> ReactIdle(m, e)

(* static_fsm, tuple_fsm: handle_event of sAnimating, the table, entry of  *)
(* sIdle; the guards and actions of eUpdate and ePlay                      *)
HandleEvent(m, e) ==
    IF m.state = "Animating" /\ e = "update" THEN [m EXCEPT !.count = @ + 1] ELSE m
EnterNext(m, s) == Machine(s, IF s = "Idle" THEN 0 ELSE m.count)
StaticTable(m, e) ==
    CASE m.state = "Idle" /\ e = "play" -> "Animating"
      [] m.state = "Animating" /\ e = "update" /\ m.count >= AnimLimit -> "Idle"
      [] m.state = "Animating" /\ e = "pause" -> "Paused"
      [] m.state = "Animating" /\ e = "stop" -> "Idle"
      [] m.state = "Paused" /\ e = "play" -> "Animating"
      [] m.state = "Paused" /\ e = "stop" -> "Idle"
      [] OTHER -> "none"
TupleTable(m, e) == StaticTable(m, e)
Tuple2Table(m, e) == StaticTable(m, e)
LoggingTable(m, e) == StaticTable(m, e)
(* tuple_fsm/transition_table: the guard of eUpdate is a lambda that says FALSE *)
EntryTable(m, e) ==
    IF m.state = "Animating" /\ e = "update" THEN "none" ELSE StaticTable(m, e)
TableStep(handled, next) == IF next = "none" THEN handled ELSE EnterNext(handled, next)
(* Each program has its own states with handle_event and entry, and its    *)
(* own machine with the counter; the loggers of two of them only write.    *)
StaticStep(m, e) == TableStep(HandleEvent(m, e), StaticTable(HandleEvent(m, e), e))
TupleStep(m, e) == TableStep(HandleEvent(m, e), TupleTable(HandleEvent(m, e), e))
Tuple2Step(m, e) == TableStep(HandleEvent(m, e), Tuple2Table(HandleEvent(m, e), e))
LoggingStep(m, e) == TableStep(HandleEvent(m, e), LoggingTable(HandleEvent(m, e), e))
EntryTableStep(m, e) == TableStep(HandleEvent(m, e), EntryTable(HandleEvent(m, e), e))

(* sml_fsm: the row that counts stands before the one with the guard *)
AnimRows(idle) == << <<"Animating", "update", "always", "count", "internal">>,
                     <<"Animating", "update", "limit", "none", "Idle">>,
                     <<"Animating", "pause", "always", "none", "Paused">>,
                     <<"Animating", "stop", "always", idle, "Idle">>,
                     <<"Paused", "play", "always", "none", "Animating">>,
                     <<"Paused", "stop", "always", idle, "Idle">> >>
AnimFirst == Table(<<"Idle">>, AnimEvents,
    << <<"Idle", "play", "always", "none", "Animating">>,
       <<"Idle", "on_entry", "always", "zero", "internal">> >> \o AnimRows("zero"))
AnimSecond == Table(<<"Idle">>, AnimEvents,
    << <<"Idle", "play", "always", "none", "Animating">>,
       <<"Idle", "on_entry", "always", "zero", "internal">> >> \o AnimRows("none"))
AnimThird == Table(<<"Idle", "unexpected", "exception">>, AnimEvents,
    << <<"Idle", "play", "always", "zero", "Animating">> >> \o AnimRows("none") \o
    << <<"unexpected", Unexpected("_"), "always", "any", "internal">>,
       <<"exception", "exception runtime", "always", "caught", "internal">>,
       <<"exception", "exception _", "always", "caught_any", "internal">> >>)

-----------------------------------------------------------------------------
Limited == {"fist", "first_hack", "match", "optional", "monostate", "tiny",
            "static", "tuple", "tuple2", "logging"}
SmlAnimations == {"anim_first", "anim_second", "anim_third"}
NotLimited == {"entry_table"} \cup SmlAnimations

MachineStep(p, m, e) ==
    CASE p = "fist" -> SwitchStep(m, e)
      [] p = "second" -> HandlerTableStep(m, e)
      [] p = "first_hack" -> VisitStep(m, e)
      [] p = "match" -> MatchStep(m, e)
      [] p = "optional" -> OptionalStep(m, e)
      [] p = "monostate" -> MonostateStep(m, e)
      [] p = "tiny" -> TinyStep(m, e)
      [] p = "static" -> StaticStep(m, e)
      [] p = "tuple" -> TupleStep(m, e)
      [] p = "tuple2" -> Tuple2Step(m, e)
      [] p = "logging" -> LoggingStep(m, e)
      [] p = "entry_table" -> EntryTableStep(m, e)
      [] p = "anim_first" -> ProcessEvent(AnimFirst, m, e)
      [] p = "anim_second" -> ProcessEvent(AnimSecond, m, e)
      [] p = "anim_third" -> ProcessEvent(AnimThird, m, e)

AnimInit ==
    /\ machine = [p \in Limited \cup NotLimited \cup {"second"} |->
          CASE p = "second" -> SecondMachine
            [] p \in {"anim_first", "anim_second"} -> Initialize(AnimFirst)
            [] p = "anim_third" -> Initialize(AnimThird)
            [] OTHER -> Machine("Idle", 0)]
    /\ animation = Machine("Idle", 0) /\ unlimited = Machine("Idle", 0)
    /\ stoppedPaused = FALSE

SendToAll(e) ==
    /\ e = "update" => unlimited.count < AnimMax /\ machine["second"].animating < AnimMax
    /\ machine' = [p \in DOMAIN machine |-> MachineStep(p, machine[p], e)]
    /\ animation' = AnimationStep(animation, e, TRUE)
    /\ unlimited' = AnimationStep(unlimited, e, FALSE)
    /\ stoppedPaused' = IF e = "stop" /\ unlimited.state # "Idle"
                        THEN unlimited.state = "Paused" ELSE stoppedPaused

AnimNext == \E e \in AnimEvents : SendToAll(e)

-----------------------------------------------------------------------------
AnimTypeOK ==
    /\ \A p \in Limited : machine[p] \in [state : AnimStates, count : 0..AnimMax]
    /\ animation \in [state : AnimStates, count : 0..AnimLimit]

(* current_state and current_count *)
Shown(p) ==
    LET m == machine[p]
        s == IF p \in SmlAnimations THEN m.cur[1] ELSE m.state
        n == IF p = "second" THEN (IF m.state = "Paused" THEN m.paused ELSE m.animating)
             ELSE m.count
    IN  Machine(s, IF s = "Idle" THEN 0 ELSE n)

(* After any events the ten programs with a limit show the same state and  *)
(* count.                                                                  *)
LimitedMachinesAgree == \A p \in Limited : Shown(p) = animation

(* The programs whose table reaches its limit row never - the row that     *)
(* counts comes first, or the guard is FALSE - go on counting for ever.    *)
OthersNeverReachTheLimit == \A p \in NotLimited : Shown(p) = unlimited

(* In naive_fsm/second.cpp a stop in Paused resets the wrong counter: the  *)
(* next animation goes on from the old count until it is stopped running.  *)
SecondKeepsACount ==
    /\ Shown("second").state = unlimited.state
    /\ ~stoppedPaused => Shown("second") = unlimited

AnimationsOK == LimitedMachinesAgree /\ OthersNeverReachTheLimit /\ SecondKeepsACount
=============================================================================
