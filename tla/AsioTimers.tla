------------------------------ MODULE AsioTimers ------------------------------
(***************************************************************************)
(* Libraries/asio/timer and the multicast pair of server_client: a wait, a *)
(* handler that waits again up to a count, two timers on one strand        *)
(* with two threads that run the io_context, and a sender that sends a     *)
(* message a second to receivers.  The clock moves at any time; a timer    *)
(* that is due becomes ready, the one due first before the other, a thread *)
(* takes it, brings its handler to the strand, and some thread runs that.  *)
(* A datagram is on its way until it arrives, in any order, or never; that *)
(* the network makes two of one is left out.                               *)
(***************************************************************************)
EXTENDS Integers, Sequences, FiniteSets

CONSTANTS OneLimit,          \* 5, where one timer counts
          TwoLimit,          \* 10, where two do
          Max_Message_Count, \* 10
          Receivers

ASSUME TimersConstants ==
    OneLimit \in Nat /\ TwoLimit \in Nat /\ Max_Message_Count \in Nat \ {0}

VARIABLES kind,       \* the program that runs, "none" before
          clock,      \* seconds since the timers were made
          expiry,     \* of a timer that somebody waits for, else 0
          ready,      \* timers that are due, in the order the threads take them
          strand,     \* handlers bound to the strand, in order
          running,    \* what each thread does: the handler it brings to the strand, or
                      \* the one it runs and the count that read
          count_,
          fired,      \* how often print was called for a timer
          sender,     \* Sender: its operation, message_count_ and message_
          sentOut,    \* the messages of the sends that succeeded, in order
          inflight,   \* the messages on their way to each receiver
          received    \* the messages each receiver wrote

multicastVars == <<sender, sentOut, inflight, received>>
timersVars == <<kind, clock, expiry, ready, strand, running, count_, fired, multicastVars>>

Timers == {"timer1_", "timer2_"}
Runners == {"main", "t"}            \* the threads that may call run
Waits == {"wait", "async_wait"}     \* the programs that wait once
Limit == CASE kind \in Waits -> 0 [] kind = "one timer" -> OneLimit [] OTHER -> TwoLimit
HasRun == kind \in Waits \cup {"one timer", "two timers"}
Idle == [step |-> "idle", handler |-> "none", count |-> 0]
MayRun(th) == running[th] = Idle /\ (kind # "two timers" => th = "main")

-----------------------------------------------------------------------------
Tick ==     \* no bound on how late the threads are but that of the count
    /\ HasRun /\ clock <= Limit
    /\ clock' = clock + 1
    /\ UNCHANGED <<kind, expiry, ready, strand, running, count_, fired, multicastVars>>

Expire(t) ==
    /\ expiry[t] # 0 /\ expiry[t] <= clock
    /\ \A u \in Timers : expiry[u] # 0 => expiry[t] <= expiry[u]
    /\ expiry' = [expiry EXCEPT ![t] = 0]
    /\ ready' = Append(ready, t)
    /\ UNCHANGED <<kind, clock, strand, running, count_, fired, multicastVars>>

(* Two threads may each take a timer, and enter the strand in either order. *)
TakeReady(th) ==
    /\ ready # <<>> /\ MayRun(th)
    /\ running' = [running EXCEPT ![th] =
                      [step |-> "entering", handler |-> Head(ready), count |-> 0]]
    /\ ready' = Tail(ready)
    /\ UNCHANGED <<kind, clock, expiry, strand, count_, fired, multicastVars>>
EnterStrand(th) ==
    /\ running[th].step = "entering"
    /\ strand' = Append(strand, running[th].handler)
    /\ running' = [running EXCEPT ![th] = Idle]
    /\ UNCHANGED <<kind, clock, expiry, ready, count_, fired, multicastVars>>

Begin(th) ==
    /\ strand # <<>> /\ MayRun(th)
    /\ running' = [running EXCEPT ![th] =
                      [step |-> "print", handler |-> Head(strand), count |-> count_]]
    /\ fired' = [fired EXCEPT ![Head(strand)] = @ + 1]
    /\ strand' = Tail(strand)
    /\ UNCHANGED <<kind, clock, expiry, ready, count_, multicastVars>>

(* Mutant: the handlers are not bound to the strand. *)
BeginWithoutStrand(th) == Begin(th)

(* A thread runs the next handler; the strand lets no other run meanwhile. *)
StrandIsFree == \A th \in Runners : running[th].step # "print"
BeginPrint(th) == StrandIsFree /\ Begin(th)

(* The expiry is extended from the last expiry, not from now: it is the    *)
(* number of the waits made so far, and may be past already.               *)
EndPrint(th) ==
    LET t == running[th].handler
    IN  /\ running[th].step = "print"
        /\ IF running[th].count < Limit
           THEN /\ count_' = running[th].count + 1
                /\ expiry' = [expiry EXCEPT ![t] = fired[t] + 1]
           ELSE UNCHANGED <<count_, expiry>>
        /\ running' = [running EXCEPT ![th] = Idle]
        /\ UNCHANGED <<kind, clock, ready, strand, fired, multicastVars>>

-----------------------------------------------------------------------------
(* Sender: do_send counts and formats message_, whose handler, if all went *)
(* well and the count allows, waits a second                               *)
DoSend(s) == [op |-> "sending", count |-> s.count + 1, message |-> s.count + 1]

(* The datagram carries what message_ holds when it is sent.               *)
SendCompletes(failed) ==
    /\ sender.op = "sending"
    /\ sender' = [sender EXCEPT !.op = IF ~failed /\ sender.count < Max_Message_Count
                                       THEN "timeout" ELSE "ended"]
    /\ IF failed THEN UNCHANGED <<sentOut, inflight>>
       ELSE /\ sentOut' = Append(sentOut, sender.message)
            /\ inflight' = [r \in Receivers |-> inflight[r] \cup {sender.message}]
    /\ UNCHANGED <<kind, clock, expiry, ready, strand, running, count_, fired, received>>

(* Mutant: the next wait starts beside the send, not when it is over. *)
TimeoutBesideSend ==
    /\ sender.op \in {"sending", "timeout"} /\ sender.count < Max_Message_Count
    /\ sender' = DoSend(sender)
    /\ UNCHANGED <<kind, clock, expiry, ready, strand, running, count_, fired,
                   sentOut, inflight, received>>
TimeoutFires ==
    /\ sender.op = "timeout"
    /\ sender' = DoSend(sender)
    /\ UNCHANGED <<kind, clock, expiry, ready, strand, running, count_, fired,
                   sentOut, inflight, received>>

(* Receiver: what it has written, and the handler that writes a message    *)
(* and receives again                                                      *)
NewReceiver == <<>>
Deliver(r, m) ==
    /\ m \in inflight[r]
    /\ inflight' = [inflight EXCEPT ![r] = @ \ {m}]
    /\ received' = [received EXCEPT ![r] = Append(@, m)]
    /\ UNCHANGED <<kind, clock, expiry, ready, strand, running, count_, fired,
                   sender, sentOut>>

-----------------------------------------------------------------------------
TimersInit ==
    /\ kind = "none" /\ clock = 0 /\ ready = <<>> /\ strand = <<>> /\ count_ = 0
    /\ expiry = [t \in Timers |-> 0] /\ running = [th \in Runners |-> Idle]
    /\ fired = [t \in Timers |-> 0]
    /\ sender = [op |-> "off", count |-> 0, message |-> 0]
    /\ sentOut = <<>> /\ inflight = [r \in Receivers |-> {}]
    /\ received = [r \in Receivers |-> NewReceiver]
StartTimers(k, used) ==
    /\ kind = "none" /\ kind' = k
    /\ expiry' = [t \in Timers |-> IF t \in used THEN 1 ELSE 0]
    /\ UNCHANGED <<clock, ready, strand, running, count_, fired, multicastVars>>
StartBlockingWait == StartTimers("wait", {"timer1_"})
StartAsyncWait == StartTimers("async_wait", {"timer1_"})
StartSender ==
    /\ kind = "none" /\ kind' = "multicast" /\ sender' = DoSend(sender)
    /\ UNCHANGED <<clock, expiry, ready, strand, running, count_, fired,
                   sentOut, inflight, received>>

TimersNext ==
    \/ StartBlockingWait \/ StartAsyncWait \/ StartSender
    \/ StartTimers("one timer", {"timer1_"}) \/ StartTimers("two timers", Timers)
    \/ Tick \/ \E t \in Timers : Expire(t)
    \/ \E th \in Runners : TakeReady(th) \/ EnterStrand(th) \/ BeginPrint(th) \/ EndPrint(th)
    \/ \E failed \in BOOLEAN : SendCompletes(failed)
    \/ TimeoutFires
    \/ \E r \in Receivers : \E m \in inflight[r] : Deliver(r, m)

-----------------------------------------------------------------------------
TimersSpec == TimersInit /\ [][TimersNext]_timersVars

-----------------------------------------------------------------------------
Handlers == [step : {"idle", "entering", "print"}, handler : Timers \cup {"none"}, count : Nat]
Senders == [op : {"off", "sending", "timeout", "ended"}, count : Nat, message : Nat]

TimersTypeOK ==
    /\ kind \in Waits \cup {"none", "one timer", "two timers", "multicast"} /\ clock \in Nat
    /\ expiry \in [Timers -> Nat] /\ ready \in Seq(Timers) /\ strand \in Seq(Timers)
    /\ running \in [Runners -> Handlers] /\ count_ \in Nat /\ fired \in [Timers -> Nat]
    /\ sender \in Senders /\ sentOut \in Seq(Nat) /\ inflight \in [Receivers -> SUBSET Nat]
    /\ received \in [Receivers -> Seq(Nat)]

(* No count is lost however the threads take the handlers and in whatever  *)
(* order they enter the strand: every call of print that is over counted,  *)
(* up to the limit; and run returns - nobody waits, nothing is ready or at *)
(* the strand - with the count at its limit, after exactly one call of     *)
(* each timer that finds it there.                                         *)
CountsEveryExpiry ==
    HasRun =>
      LET over == fired["timer1_"] + fired["timer2_"]
                  - Cardinality({th \in Runners : running[th].step = "print"})
          used == IF kind # "two timers" THEN {"timer1_"} ELSE Timers
          nobody == /\ \A t \in Timers : expiry[t] = 0
                    /\ ready = <<>> /\ strand = <<>>
                    /\ \A th \in Runners : running[th] = Idle
      IN  /\ count_ = IF over <= Limit THEN over ELSE Limit
          /\ nobody => count_ = Limit /\ over = Limit + Cardinality(used)

(* A message is on its way when its successor is made only if its send is  *)
(* over: message_ is never overwritten under a send, so the messages that  *)
(* go out are 1, 2, 3 and so on, none left out and none twice.  A receiver *)
(* may miss some and see them in any order, but sees none twice and none   *)
(* that was not sent; and the sender ends only after its last message, or  *)
(* after a send that failed.                                               *)
EachMessageOnce ==
    /\ \A i \in DOMAIN sentOut : sentOut[i] = i
    /\ sender.count <= Max_Message_Count
    /\ CASE sender.op = "sending" -> sender.count = Len(sentOut) + 1
         [] sender.op = "ended" -> \/ sender.count = Len(sentOut) + 1
                                   \/ sender.count = Len(sentOut) /\ sender.count = Max_Message_Count
         [] OTHER -> sender.count = Len(sentOut)
    /\ \A r \in Receivers :
          \A i, j \in DOMAIN received[r] :
              /\ received[r][i] \in 1..Len(sentOut)
              /\ received[r][i] = received[r][j] => i = j

-----------------------------------------------------------------------------
(* The inductive invariant, in parts.                                      *)

Used == CASE kind = "two timers" -> Timers
          [] kind \in Waits \cup {"one timer"} -> {"timer1_"}
          [] OTHER -> {}
Queued(q, t) == \E i \in 1..Len(q) : q[i] = t
Distinct(q) == \A i, j \in 1..Len(q) : q[i] = q[j] => i = j
Waited(t) == expiry[t] # 0
InHands(t) == \E th \in Runners : running[th].handler = t
Runs(t) == \E th \in Runners : running[th].handler = t /\ running[th].step = "print"
Somewhere(t) == Waited(t) \/ Queued(ready, t) \/ Queued(strand, t) \/ InHands(t)
Finished(t) == t \in Used /\ ~Somewhere(t)
InCall(t) == IF Runs(t) THEN 1 ELSE 0           \* calls of print for t that are not over,
LastCall(t) == IF Finished(t) THEN 1 ELSE 0     \* and that found the count at its limit

\* A timer is waited for, ready, at the strand or a thread's: one at a time.
Alone(t) ==
    /\ Waited(t) => ~Queued(ready, t) /\ ~Queued(strand, t) /\ ~InHands(t)
    /\ Queued(ready, t) => ~Queued(strand, t) /\ ~InHands(t)
    /\ Queued(strand, t) => ~InHands(t)
OnePlace ==
    /\ \A t \in Timers : /\ Alone(t)
                         /\ Somewhere(t) => t \in Used
                         /\ Waited(t) => expiry[t] = fired[t] + 1
                         /\ t \notin Used => fired[t] = 0
    /\ Distinct(ready) /\ Distinct(strand)

\* A thread without a timer is idle; no two have the same; one handler runs.
OneEach ==
    /\ \A th \in Runners : /\ running[th].handler = "none" => running[th] = Idle
                           /\ running[th].step = "idle" => running[th] = Idle
    /\ \A th, other \in Runners :
          \/ th = other
          \/ /\ running[th].handler = running[other].handler => running[th] = Idle
             /\ running[th].step = "print" => running[other].step # "print"

\* What a handler read is still the count; every call that is over counted, but
\* for the last of each timer, which found the count at its limit.
CountIsCurrent ==
    /\ \A th \in Runners : running[th].step = "print" => running[th].count = count_
    /\ count_ <= Limit
    /\ \A t \in Timers : Finished(t) => count_ = Limit
    /\ fired["timer1_"] + fired["timer2_"]
       = count_ + InCall("timer1_") + InCall("timer2_")
         + LastCall("timer1_") + LastCall("timer2_")

\* What is on its way to a receiver was sent and is not yet written there.
OneMessageAtATime ==
    /\ kind # "multicast" => sender.op = "off"
    /\ sender.op = "off" => sender.count = 0
    /\ sender.op = "timeout" => sender.count < Max_Message_Count
    /\ sender.op = "sending" => sender.message = sender.count
    /\ \A r \in Receivers :
          /\ inflight[r] \subseteq 1..Len(sentOut)
          /\ \A i \in DOMAIN received[r] : received[r][i] \notin inflight[r]

TimersInv == OnePlace /\ OneEach /\ CountIsCurrent /\ OneMessageAtATime /\ EachMessageOnce

(* Through threads, strand, failing sends and datagrams that overtake each *)
(* other the counts and the messages are right; with what this follows     *)
(* from.                                                                   *)
AsioTimersOK == CountsEveryExpiry /\ EachMessageOnce /\ TimersInv
=============================================================================
