---------------------------- MODULE FsmDispatch ----------------------------
(***************************************************************************)
(* dispatch_event of the home-made state machines of State_machines: one   *)
(* operator per library for what the row of the current state and the      *)
(* event makes it call, in order.  All the machines run one program, any   *)
(* program: a row per state says whether it has a guard, an action and a   *)
(* next state, a state whether it has entry, exit and handle_event; the    *)
(* guards answer anything.  The comment above every dispatch_event asks    *)
(* for: guard, exit of the source, action, entry of the target.            *)
(***************************************************************************)
EXTENDS Naturals, SequencesExt

VARIABLES fsmRows,      \* transition_table<State, Event>, <<>> before it is written
          fsmHooks,     \* the states with exit, with entry; whether they handle_event;
                        \* whether the build defines FSM_DEBUG_LOG
          fsmAt,        \* the state_ of every machine
          fsmLast,      \* history: where the last event found it, the guard's answer, its calls
          fsmOpen       \* history: the states of it entered and not exited

fsmVars == <<fsmRows, fsmHooks, fsmAt, fsmLast, fsmOpen>>

FsmStates == {"A", "B"}
FsmRow == [guarded : BOOLEAN, acts : BOOLEAN, next : FsmStates \cup {"none"}]
Engines == {"static", "animation", "animation2", "logging", "table",
            "specialization", "ifconstexpr"}

-----------------------------------------------------------------------------
(* What a row makes a machine call, from state s, with the guard's answer  *)
(* passes                                                                  *)

When(p, call) == IF p THEN <<call>> ELSE <<>>
Moves(s) == fsmRows[s].next # "none"
Exits(s) == s \in fsmHooks.exits
Enters(s) == fsmRows[s].next \in fsmHooks.enters
Stopped(s, passes) == fsmRows[s].guarded /\ ~passes

HandleCall == When(fsmHooks.handles, <<"handle">>)
ExitCall(s) == When(Exits(s), <<"exit", s>>)
ActionCall(s) == When(fsmRows[s].acts, <<"action">>)
StateChange(s) == <<<<"change", fsmRows[s].next>>>>
EntryCall(s) == When(Enters(s), <<"entry", fsmRows[s].next>>)

UmlCalls(s, passes) ==
    HandleCall \o
    IF Stopped(s, passes) THEN <<>>
    ELSE IF ~Moves(s) THEN ActionCall(s)
    ELSE ExitCall(s) \o ActionCall(s) \o StateChange(s) \o EntryCall(s)

EntersTooEarly(s) ==     \* a mutant of MoveCalls
    ExitCall(s) \o EntryCall(s) \o ActionCall(s) \o StateChange(s)
MoveCalls(s) == ExitCall(s) \o ActionCall(s) \o StateChange(s) \o EntryCall(s)

(* static_fsm/first: transition<+-Guard, +-NextState> *)
StaticCalls(s, passes) ==
    HandleCall \o
    IF Stopped(s, passes) THEN <<>> ELSE IF Moves(s) THEN MoveCalls(s) ELSE ActionCall(s)

(* tuple_fsm/animation2: the same four, on a state object *)
Animation2Calls(s, passes) ==
    HandleCall \o
    IF Stopped(s, passes) THEN <<>> ELSE IF Moves(s) THEN MoveCalls(s) ELSE ActionCall(s)

(* tuple_fsm/logging: log_event, log_guard with its answer, log_exit,      *)
(* log_action and log_entry before the call, log_state_change after state_ *)
(* has changed; the log functions do nothing unless FSM_DEBUG_LOG is       *)
(* defined and the machine has a logger                                    *)
Log(entry) == When(fsmHooks.logs, <<"log", entry>>)
Answer(passes) == IF passes THEN "OK" ELSE "Reject"
LogGuard(s, passes) ==
    IF fsmRows[s].guarded THEN Log(<<"guard", Answer(passes)>>) ELSE <<>>
LoggedAction(s) ==
    IF fsmRows[s].acts THEN Log(<<"action">>) \o ActionCall(s) ELSE <<>>
LoggedExit(s) == IF Exits(s) THEN Log(<<"exit", s>>) \o ExitCall(s) ELSE <<>>
LoggedEntry(s) ==
    IF Enters(s) THEN Log(<<"entry", fsmRows[s].next>>) \o EntryCall(s) ELSE <<>>
LoggedMove(s) ==
    LoggedExit(s) \o LoggedAction(s) \o StateChange(s)
        \o Log(<<"change", fsmRows[s].next>>) \o LoggedEntry(s)
LoggingCalls(s, passes) ==
    Log(<<"event", s>>) \o HandleCall \o LogGuard(s, passes) \o
    IF Stopped(s, passes) THEN <<>> ELSE IF Moves(s) THEN LoggedMove(s) ELSE LoggedAction(s)

(* tuple_fsm/transition_table: overloads for an entry of the table; a      *)
(* state and event without an entry do nothing.  An entry without a next   *)
(* state has an action, with or without a guard: a guard alone matches two *)
(* specialisations of TransitionEntry and compiles with neither.           *)
TableEntries == {s \in FsmStates : fsmRows[s].guarded \/ fsmRows[s].acts \/ Moves(s)}
HasTraitsFor(s) == s \in TableEntries
AmbiguousEntry(s) == fsmRows[s].guarded /\ ~fsmRows[s].acts /\ ~Moves(s)
TableLog(entry) == When(fsmHooks.logs, <<"log", entry>>)
TableAction(s) ==
    IF fsmRows[s].acts THEN TableLog(<<"action">>) \o ActionCall(s) ELSE <<>>
TableMove(s) ==
    (IF Exits(s) THEN TableLog(<<"exit", s>>) \o ExitCall(s) ELSE <<>>)
    \o TableAction(s) \o StateChange(s) \o TableLog(<<"change", fsmRows[s].next>>)
    \o (IF Enters(s) THEN TableLog(<<"entry", fsmRows[s].next>>) \o EntryCall(s) ELSE <<>>)
TableTransition(s, passes) ==
    (IF fsmRows[s].guarded THEN TableLog(<<"guard", Answer(passes)>>) ELSE <<>>) \o
    IF Stopped(s, passes) THEN <<>> ELSE IF Moves(s) THEN TableMove(s) ELSE TableAction(s)
TableCalls(s, passes) ==
    TableLog(<<"event", s>>) \o HandleCall \o
    IF HasTraitsFor(s) THEN TableTransition(s, passes) ELSE <<>>

(* tuple_fsm/animation: a full specialisation of transition for every      *)
(* combination, by guard and action                                        *)
AnimationGuarded(s) ==
    IF Moves(s) THEN ExitCall(s) \o StateChange(s) \o EntryCall(s) ELSE <<>>
AnimationGuardedAction(s) ==
    IF Moves(s) THEN MoveCalls(s) ELSE ActionCall(s)
AnimationAction(s) ==
    IF Moves(s) THEN MoveCalls(s) ELSE ActionCall(s)
AnimationPlain(s) ==
    IF Moves(s) THEN ExitCall(s) \o StateChange(s) \o EntryCall(s) ELSE <<>>
AnimationCalls(s, passes) ==
    HandleCall \o
    IF Stopped(s, passes) THEN <<>>
    ELSE IF fsmRows[s].guarded
         THEN IF fsmRows[s].acts THEN AnimationGuardedAction(s) ELSE AnimationGuarded(s)
         ELSE IF fsmRows[s].acts THEN AnimationAction(s) ELSE AnimationPlain(s)

(* tuple_fsm/specialization_dispatch: the specialisation for a guard, no   *)
(* action, an entry and no exit is missing, and the primary template does  *)
(* nothing.  The one with exit and entry is ill-formed (TTraits::gaurd).   *)
SpecGuarded(s) ==
    CASE ~Moves(s) -> <<>>
      [] Moves(s) /\ ~Exits(s) /\ Enters(s) -> <<>>
      [] Moves(s) /\ ~Enters(s) -> ExitCall(s) \o StateChange(s)
SpecGuardedAction(s) ==
    IF Moves(s) THEN MoveCalls(s) ELSE ActionCall(s)
SpecAction(s) ==
    IF Moves(s) THEN MoveCalls(s) ELSE ActionCall(s)
SpecPlain(s) ==
    IF Moves(s) THEN ExitCall(s) \o StateChange(s) \o EntryCall(s) ELSE <<>>
SpecIllFormed(s) ==
    fsmRows[s].guarded /\ ~fsmRows[s].acts /\ Moves(s) /\ Exits(s) /\ Enters(s)
SpecializationCalls(s, passes) ==
    HandleCall \o
    IF Stopped(s, passes) THEN <<>>
    ELSE IF fsmRows[s].guarded
         THEN IF fsmRows[s].acts THEN SpecGuardedAction(s) ELSE SpecGuarded(s)
         ELSE IF fsmRows[s].acts THEN SpecAction(s) ELSE SpecPlain(s)

(* tuple_fsm/ifconstexpr_dispatch: the branch of a row with neither guard  *)
(* nor action does not exit the source                                     *)
IfConstexprCalls(s, passes) ==
    HandleCall \o
    IF Stopped(s, passes) THEN <<>>
    ELSE (IF fsmRows[s].guarded \/ fsmRows[s].acts
          THEN When(Moves(s) /\ Exits(s), <<"exit", s>>) \o ActionCall(s)
          ELSE <<>>)
         \o (IF Moves(s) THEN StateChange(s) \o EntryCall(s) ELSE <<>>)

EngineCalls(e, s, passes) ==
    CASE e = "static" -> StaticCalls(s, passes)
      [] e = "animation" -> AnimationCalls(s, passes)
      [] e = "animation2" -> Animation2Calls(s, passes)
      [] e = "logging" -> LoggingCalls(s, passes)
      [] e = "table" -> TableCalls(s, passes)
      [] e = "specialization" -> SpecializationCalls(s, passes)
      [] e = "ifconstexpr" -> IfConstexprCalls(s, passes)

(* A library compiles a program; the two older ones need handle_event in   *)
(* every state, an entry of the table is one specialisation                *)
Compiles(e) ==
    /\ e \in {"specialization", "ifconstexpr"} => fsmHooks.handles
    /\ e = "specialization" => \A s \in FsmStates : ~SpecIllFormed(s)
    /\ e = "table" => \A s \in FsmStates : ~AmbiguousEntry(s)

-----------------------------------------------------------------------------
FsmInit ==
    /\ fsmRows = <<>> /\ fsmHooks = [exits |-> {}, enters |-> {}, handles |-> FALSE, logs |-> FALSE]
    /\ fsmAt = [e \in Engines |-> "A"]
    /\ fsmLast = [e \in Engines |-> [ran |-> FALSE, from |-> "A", passes |-> FALSE, calls |-> <<>>]]
    /\ fsmOpen = [e \in Engines |-> {}]

(* The machine is defined; set_initial_state(A) enters no state *)
DefineFsm ==
    /\ fsmRows = <<>>
    /\ fsmRows' \in [FsmStates -> FsmRow]
    /\ fsmHooks' \in [exits : SUBSET FsmStates, enters : SUBSET FsmStates,
                      handles : BOOLEAN, logs : BOOLEAN]
    /\ UNCHANGED <<fsmAt, fsmLast, fsmOpen>>

AfterCall(open, c) ==
    CASE c[1] = "entry" -> open \cup {c[2]}
      [] c[1] = "exit" -> open \ {c[2]}
      [] OTHER -> open

Dispatch(passes) ==
    LET called(e) == EngineCalls(e, fsmAt[e], passes)
        went(e) == SelectSeq(called(e), LAMBDA c : c[1] = "change")
    IN  /\ fsmRows # <<>>
        /\ fsmLast' = [e \in Engines |->
              IF ~Compiles(e) THEN fsmLast[e]
              ELSE [ran |-> TRUE, from |-> fsmAt[e], passes |-> passes, calls |-> called(e)]]
        /\ fsmAt' = [e \in Engines |->
              IF Compiles(e) /\ went(e) # <<>> THEN went(e)[1][2] ELSE fsmAt[e]]
        /\ fsmOpen' = [e \in Engines |->
              IF Compiles(e) THEN FoldLeft(AfterCall, fsmOpen[e], called(e)) ELSE {}]
        /\ UNCHANGED <<fsmRows, fsmHooks>>

FsmNext == DefineFsm \/ \E passes \in BOOLEAN : Dispatch(passes)

-----------------------------------------------------------------------------
FsmTypeOK ==
    /\ fsmRows = <<>> \/ fsmRows \in [FsmStates -> FsmRow]
    /\ fsmAt \in [Engines -> FsmStates]
    /\ fsmOpen \in [Engines -> SUBSET FsmStates]

IsLog(c) == c[1] = "log"
CallsOf(calls) == SelectSeq(calls, LAMBDA c : ~IsLog(c))
LogOf(calls) == SelectSeq(calls, IsLog)

(* Every library makes the calls in the documented order, except for the   *)
(* rows its own comments do not mention: specialization_dispatch drops a   *)
(* guarded transition into a state with an entry from one without an exit, *)
(* ifconstexpr_dispatch leaves a state by a plain row without its exit.    *)
EnginesKeepTheOrder ==
    fsmRows # <<>> =>
    \A e \in Engines :
        LET last == fsmLast[e]
            s == last.from
            row == fsmRows[s]
            expected == UmlCalls(s, last.passes)
        IN  last.ran =>
            CallsOf(last.calls) =
              IF e = "specialization" /\ Moves(s) /\ row.guarded /\ ~row.acts
                 /\ ~Exits(s) /\ Enters(s)
              THEN HandleCall
              ELSE IF e = "ifconstexpr" /\ ~row.guarded /\ ~row.acts
              THEN SelectSeq(expected, LAMBDA c : c[1] # "exit")
              ELSE expected

(* A state that was entered is exited before another is: after any events, *)
(* no state with an exit but the current one is still open, except in      *)
(* ifconstexpr_dispatch when a plain row leads out of it.                  *)
OneStateIsOpen ==
    fsmRows # <<>> =>
    \A e \in Engines : \A s \in (fsmOpen[e] \cap fsmHooks.exits) \ {fsmAt[e]} :
        e = "ifconstexpr" /\ Moves(s) /\ ~fsmRows[s].guarded /\ ~fsmRows[s].acts

(* The log of the two libraries that write one is the history of what was  *)
(* called: the event, the answer of the guard, then every exit, action,    *)
(* change and entry that took place and no other, in their order.          *)
LogIsTheHistory ==
    fsmRows # <<>> /\ fsmHooks.logs =>
    \A e \in {"logging", "table"} :
        \E last \in {fsmLast[e]} :
        LET row == fsmRows[last.from]
            made == SelectSeq(last.calls, LAMBDA c : ~IsLog(c) /\ c # <<"handle">>)
            told == [i \in DOMAIN LogOf(last.calls) |-> LogOf(last.calls)[i][2]]
        IN  last.ran =>
            told = <<<<"event", last.from>>>>
                   \o When(row.guarded, <<"guard", Answer(last.passes)>>) \o made

(* What is about to be called is in the log when the call is made - a call *)
(* that does not return can be found there -, a change when it was made.   *)
LogIsNeverLate ==
    fsmRows # <<>> /\ fsmHooks.logs =>
    \A e \in {"logging", "table"} : \A i \in DOMAIN fsmLast[e].calls :
        \E c \in {fsmLast[e].calls[i]} :
        /\ c[1] \in {"exit", "action", "entry"} => fsmLast[e].calls[i - 1] = <<"log", c>>
        /\ c[1] = "change" => fsmLast[e].calls[i + 1] = <<"log", c>>

FsmEnginesOK == EnginesKeepTheOrder /\ OneStateIsOpen /\ LogIsTheHistory /\ LogIsNeverLate
=============================================================================
