----------------------------- MODULE Observers -----------------------------
(***************************************************************************)
(* Who is told of what: the dispatchers of Metaprogramming/event_interface *)
(* post an event to a list of listener types, the subjects of the observer *)
(* patterns notify what registered with them, the formatted texts of       *)
(* flyweight_1 ask their flags or their ranges.                            *)
(***************************************************************************)
EXTENDS Naturals, SequencesExt

CONSTANTS ListenerTypes,    \* types of listeners: [handles, returns, byValue]
          Observers,        \* objects that may register
          RegisterMax,      \* bound: the registrations with a subject
          TextLength        \* of the formatted text

VARIABLES posted,       \* the last event, and what each dispatcher called
          alive,        \* the observers constructed, not destroyed
          gone,         \* the destroyed ones
          m_observers,  \* the subject that keeps pointers
          observers,    \* the subject that keeps weak pointers
          told,         \* history: what the last notify called
          registered,   \* history: the calls of register_observer, in order
          formatted     \* [caps: caps_, ranges: formatting_] and the calls

watchVars == <<posted, alive, gone, m_observers, observers, told, registered, formatted>>

-----------------------------------------------------------------------------
(* A call of a handler is the listener's place in the list and the title   *)
(* it sees; a handler that takes the event by value takes the title away   *)
(* when it is given an rvalue                                              *)
has_handler(listener, event) == event \in listener.handles

(* event_interface.cpp: a handler is found only if it returns void; the    *)
(* four post_impl pass the event on as an lvalue                           *)
has_void_handler(listener, event) ==
    has_handler(listener, event) /\ listener.returns = "void"
HasTail(ls) == Len(ls) # 1
RECURSIVE PostImpl(_, _, _)
PostImpl(ls, event, i) ==
    (IF has_void_handler(Head(ls), event) THEN <<<<i, "title">>>> ELSE <<>>)
    \o IF HasTail(ls) THEN PostImpl(Tail(ls), event, i + 1) ELSE <<>>
PostByTails(ls, event) == PostImpl(ls, event, 1)

(* event_interface2.cpp: if constexpr on front, then pop_front *)
PostByFronts(ls, event) ==
    LET found == SelectSeq([i \in DOMAIN ls |-> i], LAMBDA i : has_handler(ls[i], event))
    IN  [k \in DOMAIN found |-> <<found[k], "title">>]

(* event_interface3.cpp and the two folds forward the event to every       *)
(* handler                                                                 *)
\* Mutant: the event is moved into the handlers whatever was posted.
AlwaysMoved(listener, rvalue) == listener.byValue
TakesTitle(listener, rvalue) == rvalue /\ listener.byValue
PostForwarded(ls, event, rvalue) ==
    FoldLeft(LAMBDA a, i : IF has_handler(ls[i], event)
                           THEN [calls |-> Append(a.calls, <<i, a.title>>),
                                 title |-> IF TakesTitle(ls[i], rvalue) THEN "moved" ELSE a.title]
                           ELSE a,
             [calls |-> <<>>, title |-> "title"], [i \in DOMAIN ls |-> i]).calls

PostByPacks(ls, event, rvalue) == PostForwarded(ls, event, rvalue)
PostByFold(ls, event, rvalue) == PostForwarded(ls, event, rvalue)
PostByDeducedFold(ls, event, rvalue) == PostForwarded(ls, event, rvalue)

Events == {"begin", "comics"}
PostEvent(ls, event, rvalue) ==
    /\ ls # <<>>
    /\ posted' = [listeners |-> ls, event |-> event, rvalue |-> rvalue,
                  calls |-> [tails |-> PostByTails(ls, event), fronts |-> PostByFronts(ls, event),
                             packs |-> PostByPacks(ls, event, rvalue),
                             fold |-> PostByFold(ls, event, rvalue),
                             deduced |-> PostByDeducedFold(ls, event, rvalue)]]
    /\ UNCHANGED <<alive, gone, m_observers, observers, told, registered, formatted>>

-----------------------------------------------------------------------------
(* observer_patter_buildin.cpp and Behavioral/observer.cpp keep pointers   *)
(* and erase the first of an observer; observer_pattern.cpp keeps weak     *)
(* pointers and erases none, whatever it prints                            *)
register_observer(o) ==
    /\ o \in alive /\ Len(registered) < RegisterMax
    /\ m_observers' = Append(m_observers, o) /\ observers' = Append(observers, o)
    /\ registered' = Append(registered, o)
    /\ UNCHANGED <<posted, alive, gone, told, formatted>>

erase_observer(o) ==
    /\ o \in alive /\ Contains(m_observers, o)
    /\ m_observers' = RemoveFirst(m_observers, o)
    /\ UNCHANGED <<posted, alive, gone, observers, told, registered, formatted>>

NewObserver(o) ==
    /\ o \notin alive \cup gone /\ alive' = alive \cup {o}
    /\ UNCHANGED <<posted, gone, m_observers, observers, told, registered, formatted>>

(* A scope that registered an observer erases it before it ends *)
Registrations(o) == Len(SelectSeq(registered, LAMBDA r : r = o))
Kept(o) == Len(SelectSeq(m_observers, LAMBDA r : r = o))
LeaveScope(o) ==
    /\ o \in alive /\ (Registrations(o) > 0 => Kept(o) < Registrations(o))
    /\ alive' = alive \ {o} /\ gone' = gone \cup {o}
    /\ UNCHANGED <<posted, m_observers, observers, told, registered, formatted>>

notify_observers ==
    /\ ToSet(m_observers) \subseteq alive     \* else undefined
    /\ told' = [pointers |-> m_observers, locked |-> SelectSeq(observers, LAMBDA o : o \in alive),
                expired |-> Len(SelectSeq(observers, LAMBDA o : o \notin alive)),
                of |-> registered, living |-> alive]
    /\ UNCHANGED <<posted, alive, gone, m_observers, observers, registered, formatted>>

-----------------------------------------------------------------------------
(* capitalize fills caps_ up to its end; get_range adds a range, which     *)
(* covers its end too                                                      *)
Places == 0..TextLength - 1
capitalize(start, end) ==
    /\ start <= end /\ formatted.calls < 2
    /\ formatted' = [calls |-> formatted.calls + 1,
                caps |-> [p \in Places |-> formatted.caps[p] \/ (start <= p /\ p < end)],
                ranges |-> Append(formatted.ranges, <<start, end>>)]
    /\ UNCHANGED <<posted, alive, gone, m_observers, observers, told, registered>>
covers(range, position) == range[1] <= position /\ position <= range[2]
Upper(p) == \E i \in DOMAIN formatted.ranges : covers(formatted.ranges[i], p)

-----------------------------------------------------------------------------
WatchInit ==
    /\ posted = <<>> /\ alive = {} /\ gone = {} /\ m_observers = <<>> /\ observers = <<>>
    /\ told = <<>> /\ registered = <<>>
    /\ formatted = [calls |-> 0, caps |-> [p \in Places |-> FALSE], ranges |-> <<>>]

\* Bound: a behaviour is one of the three programs.
Quiet == posted = <<>> /\ alive \cup gone = {} /\ formatted.calls = 0
WatchNext ==
    \/ Quiet /\ \E ls \in UNION {[1..n -> ListenerTypes] : n \in 1..3} :
           \E event \in Events, rvalue \in BOOLEAN : PostEvent(ls, event, rvalue)
    \/ /\ posted = <<>> /\ formatted.calls = 0
       /\ \/ \E o \in Observers :
                NewObserver(o) \/ register_observer(o) \/ erase_observer(o) \/ LeaveScope(o)
          \/ alive # {} /\ notify_observers
    \/ (Quiet \/ formatted.calls # 0) /\ \E start, end \in Places : capitalize(start, end)

-----------------------------------------------------------------------------
WatchTypeOK ==
    /\ alive \cup gone \subseteq Observers /\ alive \cap gone = {}
    /\ ToSet(m_observers) \subseteq Observers /\ ToSet(observers) \subseteq Observers
    /\ formatted.caps \in [Places -> BOOLEAN]

(* The five dispatchers call the listeners that handle the event, in the   *)
(* order of the list, but the first finds no handler that returns a value; *)
(* all show it as it was posted, but an rvalue that is forwarded is empty  *)
(* behind a handler that takes it by value.                                *)
DispatchersAgree ==
    posted # <<>> =>
    LET ls == posted.listeners
        places(calls) == [k \in DOMAIN calls |-> calls[k][1]]
        emptied(i) == posted.rvalue /\ \E j \in 1..i - 1 :
                          ls[j].byValue /\ posted.event \in ls[j].handles
    IN  /\ \A d \in {"packs", "fold", "deduced"} :
            /\ places(posted.calls[d]) = places(posted.calls.fronts)
            /\ \A k \in DOMAIN posted.calls[d] : \E call \in {posted.calls[d][k]} :
                call[2] = "moved" <=> emptied(call[1])
        /\ \A i \in DOMAIN ls :
            Contains(posted.calls.fronts, <<i, "title">>)
                # Contains(posted.calls.tails, <<i, "title">>) <=>
            posted.event \in ls[i].handles /\ ls[i].returns # "void"

(* A pointer of a destroyed observer is left in a subject only when it had *)
(* registered more than once: one call of erase takes one of them.         *)
OneEraseIsEnoughForOne ==
    \A o \in ToSet(m_observers) : o \in alive \/ Registrations(o) > 1

(* The subject with weak pointers calls those living, as often and in the  *)
(* order they registered, and meets every dead one at every notify: what   *)
(* it says it removes stays.  The subject with pointers calls no other.    *)
WeakSubjectCallsTheLiving ==
    told # <<>> =>
        /\ told.locked = SelectSeq(told.of, LAMBDA o : o \in told.living)
        /\ Len(told.locked) + told.expired = Len(told.of)
        /\ Len(told.pointers) <= Len(told.locked)
        /\ ToSet(told.pointers) \subseteq ToSet(told.locked)

(* The two texts print the same but for the last place of a range, which   *)
(* only the ranges of the second cover.                                    *)
TextsDifferInTheEnd ==
    \A p \in Places : Upper(p) # formatted.caps[p] =>
        Upper(p) /\ \E i \in DOMAIN formatted.ranges : formatted.ranges[i][2] = p

ObserversOK == DispatchersAgree /\ OneEraseIsEnoughForOne /\ WeakSubjectCallsTheLiving
               /\ TextsDifferInTheEnd
=============================================================================
