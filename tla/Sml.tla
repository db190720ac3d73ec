-------------------------------- MODULE Sml --------------------------------
(***************************************************************************)
(* The machinery of sml.hpp that the programs of State_machines/sml_fsm    *)
(* use - a row of make_transition_table per transition, regions that are   *)
(* all dispatched to, a machine as a state of another, on_entry, on_exit,  *)
(* unexpected_event and exception - and those programs, sent any events.   *)
(***************************************************************************)
EXTENDS Naturals, SequencesExt

CONSTANTS AnimLimit,    \* counter_limit, 42 or 144 in the programs
          MaxSent       \* bound: events sent to a program

VARIABLES smlProgram,   \* the program that is run
          smlMachine,   \* its sm: [cur, sub, count, ran, threw]
          smlSent       \* history: the events it was sent

smlVars == <<smlProgram, smlMachine, smlSent>>

-----------------------------------------------------------------------------
(* A row is <<source, event, guard, action, target>>; a machine has the    *)
(* current state of each region, that of the machine nested in it, the     *)
(* data of the program, the actions run by the last event and what one of  *)
(* them threw.                                                             *)

GuardHolds(m, guard) == guard = "limit" => m.count >= AnimLimit
RunAction(m, act) ==
    [m EXCEPT !.ran = IF act = "none" THEN @ ELSE Append(@, act),
              !.count = IF act = "count" THEN @ + 1 ELSE IF act = "zero" THEN 0 ELSE @,
              !.threw = IF act \in {"throw_runtime", "throw_int"} THEN act ELSE @]

(* on_exit and on_entry of a region's state; transitions<Ts...>::execute   *)
RowsOf(rows, s, e) == SelectSeq(rows, LAMBDA r : r[1] = s /\ r[2] = e)
Chosen(rows, m, s, e) == SelectInSeq(RowsOf(rows, s, e), LAMBDA r : GuardHolds(m, r[3]))
Hook(p, m, n, e) ==
    LET rows == RowsOf(p.rows, m.cur[n], e)
    IN  IF rows = <<>> \/ m.threw # "none" THEN m ELSE RunAction(m, rows[1][4])

(* A machine that becomes the current state starts from its initial state *)
UpdateCurrentState(p, m, n, s) ==
    [m EXCEPT !.cur[n] = s, !.sub = IF s = "sub" THEN p.subInitial ELSE @]

(* transition::execute: the state changes between on_exit and the action *)
Execute(p, m, n, r) ==
    IF r[5] = "internal" THEN RunAction(m, r[4])
    ELSE Hook(p, RunAction(UpdateCurrentState(p, Hook(p, m, n, "on_exit"), n, r[5]), r[4]),
              n, "on_entry")

(* The first row whose guard holds; a state without a row for the event    *)
(* gets unexpected_event of it                                             *)
DispatchRow(p, m, n, e) ==
    LET i == Chosen(p.rows, m, m.cur[n], e)
    IN  IF i = 0 THEN m ELSE Execute(p, m, n, RowsOf(p.rows, m.cur[n], e)[i])
Unexpected(e) ==
    CASE e = "some_event" -> "unexpected some_event"
      [] e = "_" -> "unexpected _"
      [] OTHER -> "unexpected other"
DispatchState(p, m, n, e) ==
    IF RowsOf(p.rows, m.cur[n], e) = <<>> THEN DispatchRow(p, m, n, Unexpected(e))
    ELSE DispatchRow(p, m, n, e)

(* A nested machine is asked first, and its state's own rows if it did not *)
(* handle the event                                                        *)
DispatchSub(p, m, n, e) ==
    LET i == Chosen(p.subRows, m, m.sub, e)
        r == RowsOf(p.subRows, m.sub, e)[i]
    IN  IF i = 0 THEN DispatchRow(p, m, n, e)
        ELSE RunAction([m EXCEPT !.sub = r[5]], r[4])

DispatchRegion(p, m, n, e) ==
    IF m.threw # "none" THEN m
    ELSE IF m.cur[n] = "sub" THEN DispatchSub(p, m, n, e)
    ELSE DispatchState(p, m, n, e)

AllRegions(p, m, e) ==
    FoldLeft(LAMBDA x, n : DispatchRegion(p, x, n, e), m, [n \in DOMAIN m.cur |-> n])

(* The exception of an action ends the dispatch of the event, and is       *)
(* dispatched itself, as its type if a row names it, or as any             *)
ProcessException(p, m) ==
    LET named == m.threw = "throw_runtime"
                 /\ \E i \in DOMAIN p.rows : p.rows[i][2] = "exception runtime"
    IN  AllRegions(p, [m EXCEPT !.threw = "none"],
                   IF named THEN "exception runtime" ELSE "exception _")

(* process_event of an event no row declares sends unexpected_event<_> *)
ProcessEvent(p, m, e) ==
    LET quiet == [m EXCEPT !.ran = <<>>]
        sent == AllRegions(p, quiet, IF e \in p.events THEN e ELSE Unexpected("_"))
    IN  IF sent.threw = "none" THEN sent ELSE ProcessException(p, sent)

Initialize(p) ==
    [cur |-> p.initial, sub |-> p.subInitial, count |-> 0, ran |-> <<>>, threw |-> "none"]

-----------------------------------------------------------------------------
(* The programs *)

Table(initial, events, rows) ==
    [initial |-> initial, events |-> events, rows |-> rows, subInitial |-> "none", subRows |-> <<>>]

HelloWorld == Table(<<"established">>, {"release", "ack", "fin", "timeout"},
    << <<"established", "release", "always", "send_fin", "fin_wait_1">>,
       <<"fin_wait_1", "ack", "valid", "none", "fin_wait_2">>,
       <<"fin_wait_2", "fin", "valid", "send_ack", "timed_wait">>,
       <<"timed_wait", "timeout", "always", "send_ack", "X">> >>)

SubRows == << <<"idle", "e3", "always", "in_sub", "s1">>,
              <<"s1", "e4", "always", "finish_sub", "X">> >>
Composite ==
    [Table(<<"idle">>, {"e1", "e2", "e3", "e4", "e5"},
        << <<"idle", "e1", "always", "none", "s1">>,
           <<"s1", "e2", "always", "enter_sub", "sub">>,
           <<"sub", "e5", "always", "exit_sub", "X">> >>)
     EXCEPT !.subInitial = "idle", !.subRows = SubRows]

OrthogonalRegions == Table(<<"Idle1", "Idle2">>, {"evt1", "evt2", "evt3"},
    << <<"Idle1", "evt1", "always", "none", "State1">>,
       <<"State1", "evt2", "always", "none", "X">>,
       <<"State1", "on_entry", "always", "entry1", "internal">>,
       <<"State1", "on_exit", "always", "exit1", "internal">>,
       <<"Idle2", "evt2", "always", "none", "State2">>,
       <<"State2", "evt3", "always", "none", "X">>,
       <<"State2", "on_entry", "always", "entry2", "internal">>,
       <<"State2", "on_exit", "always", "exit2", "internal">> >>)

HandlingData == Table(<<"Disconnected">>, {"connect", "disconnect"},
    << <<"Disconnected", "connect", "always", "set_id", "Connected">>,
       <<"Connected", "disconnect", "always", "print_id", "X">> >>)

ErrorHandling == Table(<<"idle", "exceptions handling", "unexpected events handling">>,
    {"event1", "event2", "some_event"},
    << <<"idle", "event1", "always", "throw_runtime", "internal">>,
       <<"idle", "event2", "always", "throw_int", "internal">>,
       <<"exceptions handling", "exception runtime", "always", "caught", "internal">>,
       <<"exceptions handling", "exception _", "always", "caught_any", "X">>,
       <<"unexpected events handling", Unexpected("some_event"), "always", "some", "internal">>,
       <<"unexpected events handling", Unexpected("_"), "always", "any", "X">> >>)

SmlPrograms == {"hello_world", "composite", "orthogonal_regions", "handling_data", "error_handling"}
ProgramOf(name) ==
    CASE name = "hello_world" -> HelloWorld
      [] name = "composite" -> Composite
      [] name = "orthogonal_regions" -> OrthogonalRegions
      [] name = "handling_data" -> HandlingData
      [] name = "error_handling" -> ErrorHandling

-----------------------------------------------------------------------------
SmlInit ==
    /\ smlProgram = "none" /\ smlSent = <<>>
    /\ smlMachine = Initialize(HelloWorld)

SmlStart(name) ==
    /\ smlProgram = "none"
    /\ smlProgram' = name /\ smlMachine' = Initialize(ProgramOf(name))
    /\ UNCHANGED smlSent

SmlSend(e) ==
    /\ smlProgram # "none" /\ Len(smlSent) < MaxSent
    /\ smlMachine' = ProcessEvent(ProgramOf(smlProgram), smlMachine, e)
    /\ smlSent' = Append(smlSent, e)
    /\ UNCHANGED smlProgram

SmlNext ==
    \/ \E name \in SmlPrograms : SmlStart(name)
    \/ smlProgram # "none" /\ \E e \in ProgramOf(smlProgram).events \cup {"int"} : SmlSend(e)

-----------------------------------------------------------------------------
SmlTypeOK ==
    /\ smlProgram \in SmlPrograms \cup {"none"}
    /\ smlMachine.threw = "none" /\ Len(smlSent) <= MaxSent

WasSent(e) == e \in ToSet(smlSent)
SentInOrder(es) ==   \* es is a subsequence of what was sent
    FoldLeft(LAMBDA n, e : IF n < Len(es) /\ es[n + 1] = e THEN n + 1 ELSE n, 0, smlSent)
        = Len(es)

(* Each region sees every event, whatever the others do with it: evt2      *)
(* moves both, and a state is left and entered through its hooks.          *)
RegionsAreOrthogonal ==
    smlProgram = "orthogonal_regions" =>
    /\ smlMachine.cur[1] = IF SentInOrder(<<"evt1", "evt2">>) THEN "X"
                           ELSE IF WasSent("evt1") THEN "State1" ELSE "Idle1"
    /\ smlMachine.cur[2] = IF SentInOrder(<<"evt2", "evt3">>) THEN "X"
                           ELSE IF WasSent("evt2") THEN "State2" ELSE "Idle2"
    /\ smlSent # <<>> /\ Last(smlSent) = "evt2" =>
          \/ smlMachine.ran \in {<<>>, <<"entry2">>, <<"exit1">>, <<"exit1", "entry2">>}

(* The nested machine takes events while it is the state of the outer one, *)
(* and the outer one leaves it at its own event, finished or not.          *)
NestedTakesEventsInside ==
    smlProgram = "composite" =>
    /\ (smlMachine.cur[1] = "X") <=> SentInOrder(<<"e1", "e2", "e5">>)
    /\ smlMachine.sub = "X" => SentInOrder(<<"e1", "e2", "e3", "e4">>)
    /\ smlMachine.cur[1] = "sub" =>
          smlMachine.sub = IF SentInOrder(<<"e1", "e2", "e3", "e4">>) THEN "X"
                           ELSE IF SentInOrder(<<"e1", "e2", "e3">>) THEN "s1" ELSE "idle"
    /\ smlMachine.sub # "idle" => smlMachine.cur[1] \in {"sub", "X"}

(* An exception reaches the region that handles it and no other, and is    *)
(* not an unexpected event; an event nothing declares is one everywhere.   *)
ErrorsReachTheirRegion ==
    smlProgram = "error_handling" =>
    /\ smlMachine.cur[1] = "idle"
    /\ (smlMachine.cur[2] = "X") <=> WasSent("event2")
    /\ (smlMachine.cur[3] = "X") <=> WasSent("int")

(* The connection closes after the four events in their order, through     *)
(* whatever else arrives in between.                                       *)
HandshakesInOrder ==
    /\ smlProgram = "hello_world" =>
          ((smlMachine.cur[1] = "X") <=> SentInOrder(<<"release", "ack", "fin", "timeout">>))
    /\ smlProgram = "handling_data" =>
          ((smlMachine.cur[1] = "X") <=> SentInOrder(<<"connect", "disconnect">>))

SmlProgramsOK ==
    RegionsAreOrthogonal /\ NestedTakesEventsInside /\ ErrorsReachTheirRegion /\ HandshakesInOrder
=============================================================================
