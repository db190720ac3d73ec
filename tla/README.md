# Verification of Always-be-learning

TLA+ models of the concurrent and distributed programs of this repository,
TLC configurations that check them on small instances, and proofs checked by
TLAPS.  The repository is a collection of independent learning projects in C++;
there is no single system.  The models cover the programs in which several
threads, processes or callbacks share state, each in a specification of its
own, and the libraries and small programs - containers, state machine
libraries, parsers, metaprograms, allocators, asio and socket examples,
widgets, patterns - side by side in one.

* [Inventory](#1-inventory): the parts, their state and what makes them correct
* [Modules](#2-modules): which module models what, and how
* [Runs](#3-runs): what each model-checking run shows, and its bounds
* [Fairness and deadlock](#4-fairness-and-deadlock)
* [Proofs](#5-proofs)
* [Disagreements](#6-where-the-code-and-its-comments-disagree) between comments and code
* [Abstractions and assumptions](#7-abstractions-and-assumptions), and what is only model-checked
* [Plan](#8-plan)

To repeat the checks: `tlc -workers 2 -config X.cfg M` for a run,
`tlapm M.tla` for the modules named `...Proofs`.

## 1. Inventory

### Modelled

| Component | State | Operations | Works with |
|---|---|---|---|
| `threadsafe_queue` (`Patterns/Active_object/threadsafe_queue.h`) | a `std::queue`, a mutex, a condition variable | `push`, `emplace`, `wait_and_pop`, `try_pop`, `empty`, copy, assignment | any number of threads |
| `Active`, `Active2`, `Active3`, `Backgrounder*` (`Patterns/Active_object`) | a queue of callbacks, a worker thread, `done_` | `create`, `send`, `run`, the destructor | the queue; the threads of `main.cpp`, which also read the vector the worker fills |
| olc `connection<T>` (`asio/olc/.../net_connection.h`) | a socket, `queue_out_`, `msg_temp_in_`, `msg_temp_out_`, handshake words, the owner's `queue_in_` | `connect_to_client/server`, `disconnect`, `send`, the handlers of header, body and validation in both directions | the peer's connection by TCP, the owner by `queue_in_`, the user's thread by posted tasks |
| olc server and client (`net_server.h`, `net_client.h`, `net_server.cpp`, `net_client.cpp`) | `connections_`, `queue_in_`, a context thread | accept, `update`, `on_message`, `message_all_clients`; `connect`, `send`, `disconnect` | one context thread and one user thread on each side |
| chat (`asio/chat`) | the room's `participants_` and `recent_msgs_`, per session and client `write_msgs_` and a message being read | accept, join, leave, deliver, the read and write handlers, `write`, `close` | one context per program, TCP between them, the user's lines by posted tasks |
| relay servers (`sockets/low_level/poll_server.cpp`, `selectserver.cpp`) | the descriptors that are watched (`pfds`; `master`, `read_fds`, `maxfd`), the position of the pass | poll/select, accept, recv, the sending loop, close | the clients by blocking sockets; SIGPIPE |

What is hard about them, and what makes each correct:

* **threadsafe_queue.**  Consumers sleep and are notified one at a time; a
  notification can be lost between the test of the queue and the sleep, woken
  consumers compete with newcomers and with `try_pop`, wakeups may be spurious.
  Correct: at most one thread in a critical section; no element is lost,
  duplicated or overtaken; no consumer sleeps while an element has nobody awake
  to take it.
* **Active objects.**  The worker ends only on a task that the destructor
  sends, so the destructor hangs if that task is lost and tasks are dropped if it
  overtakes one.  The owner reads the result vector without a lock before that.
  Correct: tasks run in the order they were accepted, all of them, before the
  destructor returns, and it returns.
* **olc networking.**  A handshake must come before any message although the
  user may send at once; sending is a chain of completion handlers that must not
  be started twice; the list of connections is used by two threads; either side
  may disappear between any two handlers.  Correct: the server listens only to
  validated clients; messages arrive whole, once, in order; a broadcast reaches
  the others and never its sender.
* **chat.**  `write_msgs_` is at the same time the queue and the flag "a write is
  in progress", tested in one handler and cleared in another; a newcomer gets a
  replay while new messages are delivered; a session is destroyed when the last
  handler that holds it has run, and its read and its write fail separately.
  Correct: there is one conversation, and every screen shows a gapless part of
  it; no queue stalls; sessions and clients end.
* **relay servers.**  A pass over a set of descriptors changes that set; `accept`
  reuses descriptors closed in the same pass; one message takes a loop of blocking
  sends, each of which can fail, block or kill the process.  Correct: what is
  watched is what is open; everyone is sent everything, in one order.

The libraries and small programs, one per module of `Programs`:

| Component | State | What can go wrong, and what is right |
|---|---|---|
| `HashMap` and `HashMapBucket` | an array of buckets, `count_`, `max_load_factor_`; a bucket's nodes and links | `count_` is kept by hand, a rehash moves every node: answers as a dictionary, every pair in its bucket, no node shared or lost |
| `BinaryTree` | nodes, parents, `root_` | erasure relinks up to four nodes, iterators climb by parents: answers as a dictionary, every node visited once, in order |
| `SingleLinkedList` | `first_`, `last_`, the links | `sort`, `unique`, `reverse`, `merge` relink in place: stable, nothing lost |
| `State_machines`: seven libraries, fifteen animations | a current state, its data, a log | the order of guard, exit, action and entry over any table; the programs agree |
| `State_machines/sml_fsm` | a state per region, nested machines | what each region sees, exceptions, the order of a handshake |
| `Parsers` (Punypy-parser, Punypy2, Calculator) | a stream, a token of lookahead or putback, symbol tables | errors in the middle of a look-ahead, recovery, the end of the text |
| `Metaprogramming` (typelist, tuple_algorithms, output_iterators, event_interface) | none, or what an adaptor has delivered | every algorithm is written two to five times: the versions agree |
| `Memory/tracking_allocation`, `Allocators/short_alloc` | a list of what is not deleted, an arena's pointer | a reset while blocks are in use, the last place of an array, blocks freed out of order |
| asio servers, clients, multicast, timers | an outstanding operation per session, one endpoint per UDP server, a count shared by two handlers | partial reads and writes, lost and late datagrams, failing operations; two threads and a strand |
| socket examples | the address that is tried, open descriptors, children | every call may fail; a child ends while the signal handler runs |
| `tsqueue` and assignment of `threadsafe_queue` | elements, two locks, sleepers | a wake that goes to the wrong sleeper, two locks taken at once |
| `Multithreading/Semaphore` | a handle, the name it owns | moves, destruction, a second owner of the name |
| snake, list widget, progress bar, button (`Libraries/qt5`) | positions and directions; rows, timers, connections | two keys between ticks; the row that becomes current; a slot connected twice |
| commands, mementos, chain, chat room, interpreter, observers (`DesignPatterns`, `Patterns/Observer`) | accounts and flags, a history, links, tokens, registrations | undo of what was refused, links added anywhere, an observer destroyed while registered |
| headers and bodies (`chat_message.hpp`, `net_message.h`, `float_serialization.cpp`) | the bytes on the wire | what is written is read again, at every boundary |

### Not modelled

| Component | Why |
|---|---|
| algorithm examples, `Patterns/CRTP`, `Iterator`, `Mixin`, `Misc`, creational and structural patterns | they call a library or show a class hierarchy once, print, and keep nothing |
| language features, the rest of the metaprogramming | compile-time demonstrations without an algorithm of their own |
| other chapters of the Qt examples, breakout, puff | widgets laid out once; breakout's key and paint handlers override nothing, so its game never starts; puff is the rounding of floating steps |
| `showip`, `select_demo`, `poll_example` | print one result and end |
| deferral, threads, logging and visitors of `sml.hpp` | vendored, and used by none of the programs |
| `MallocFreeAllocator` and its like | forward to `malloc`, keep nothing |
| utilities, testing, benchmarking | small headers without state |
| vendored and generated code | not this repository's |
| operations that do not compile or are undefined on every path | section 6 lists them; they are not called |

`PROJECT.json` lists all of them with their paths, and under `hazards` every
place where the modelled code is exposed, with the properties that watch it.

## 2. Modules

```
ThreadsafeQueue <--- QueueClients ---(implements)---> Fifo
       ^                  ^--- QueueProofs, Programs
       '--- ActiveObject <---- ActiveObjectProofs

OlcConnection <--- OlcNetworking <--- OlcProofs

Chat ---(implements)---> Conversation
  ^--- ChatProofs

Sockets <--- PollServer, SelectServer <--- RelayServers <--- RelayProofs

TextStream <--- PunyPy, Calculator <---------------.
FsmDispatch   Sml <--- AnimationMachines <---------+
HashMap, BinaryTree ---(implement)---> Dictionary  +--- Programs
LinkedList   TypeLists   TupleAlgorithms           |
Allocators   SocketExamples   QtWidgets            |
DesignPatterns   Observers  <----------------------+
NamedSemaphores <--- SemaphoreProofs  -------------+
SharedQueues <--- SharedQueueProofs  --------------+
AsioServers, AsioTimers <--- AsioProofs  ----------'
```

`A <--- B` means that B EXTENDS A.  An `MC...` module gives TLC the constants of
the module it is named after that a `.cfg` cannot write down.

### ThreadsafeQueue, QueueClients, Fifo

`queue`, `mtx` and `cv` are the three members: the elements, the holder of the
mutex, the set of threads blocked in `cv_.wait`.  `op[t]` says how far thread `t`
is in its operation and `val[t]` is the argument of its push or the result of its
pop.  An operation is cut where another thread can run:

| Action | Code |
|---|---|
| `CallPush`, `CallWaitAndPop`, `CallTryPop` | entering the member function |
| `Lock` | `lock_guard`, `unique_lock`, and the relock of `cv_.wait` |
| `Push` | push under the mutex, `notify_one`, unlock |
| `Wait` | the predicate is false: unlock and sleep, in one step |
| `WaitAndPop`, `TryPop` | move from the front, pop, unlock (or `false`) |
| `SpuriousWake` | `cv_.wait` may wake by itself |

`emplace` is `push`.  `QueueClients` closes the module with the most general
clients: every thread may call everything at any time.  It records the arguments
of the pushes in the order they were stored and the results of the pops in the
order they were returned; `ImplementsFifo` says that these two histories behave
as the abstract `Fifo`, which knows neither locks nor waiting.  It is one of the
programs of `Programs`; its initial states, steps and specification are called
`ClientsInit`, `ClientsNext` and `ClientsSpec`.

### ActiveObject

The queue, with the threads of `main.cpp` as its clients.  `Send` is `save_data`;
`PrintProgress`, `Destroy`, `Join` and `Joined` are the owner leaving the scope
of the `Backgrounder`; `Loop`, `Popped`, `Execute` and `Exit` are `run()`.  The
three `Active` classes differ in how an object is created, not in what it does,
and are one module.  `printProgress` reads `received_.size()` while the worker is
in `push_back`: while it is, the loop may end whatever was read.  There may be
several senders; as in the program, the object is destroyed by its owner after
the others are through with it.

### OlcConnection, OlcNetworking

A connection has two ends, `<<c, "server">>` and `<<c, "client">>`, each with its
socket, the read that is outstanding (`reading`), the writes that are outstanding
(`writes`: a sequence, because there can be more than one) and the members
`queue_out_`, `msg_temp_in_`, `msg_temp_out_`.  Each completion handler is an
action with its error branch (`WroteHeader`, `WroteBody`, `WroteValidation`,
`WriteFailed`, `CheckAnswer`, `Answer`, `ReadHeader`, `ReadBody`, `ReadFailed`);
`RunSend` and `RunClose` are the tasks posted by `send` and `disconnect`.
`wire[e]` holds the pieces of the protocol, a handshake word, a header or a
body, that `e` wrote and its peer has not read.  A header read where the stream has
something else leaves the reader out of step (`garbled`): from then on it takes
the bytes for messages nobody sent, or for none.

`OlcNetworking` adds the threads.  Each program has a context thread that runs
the handlers and a main thread: `PopFront` and `OnMessage` are the server's
`update`; `UserSend`, `UserReceive` and `Disconnect` are the client's loop;
`Destroyed` is the end of `disconnect`, the context stopped with whatever was
outstanding.  `Refused` is a connect that fails: the client learns it from a line
on its screen only, and its socket is as it was.  `Accept` takes what is in the
backlog, a client that has left it again included.  An impostor is a client that
answers the handshake wrongly.  The
constant `Patient` tells a user that sends whenever it likes from one that waits
until its last message is through: the code behaves for the second and not for
the first (section 6).

### Chat, Conversation

`Chat` has the ends `<<c, "session">>` and `<<c, "client">>`, which share
`do_read_header`, `do_read_body` and `do_write`.  An `async_write` is three steps:
its start, inside the handler that calls `do_write`; `Transfer`, the message
entering the socket, which waits while the socket is full; and `Wrote`, the
handler.  On the server `Accept` is `do_accept`'s handler with `start`, `join` and
the replay; `SessionReadBody` is `ChatRoom::deliver`; `SessionReadFailed` and
`SessionWriteFailed` are the error branches, with `leave`.  A session lives as long
as the room or an outstanding operation holds it (`Alive`), and its socket is open
as long as it lives.  On the client `TypeLine` and `EndInput` are the main thread,
`RunWrite` and `RunClose` the posted tasks, `RunReturns` is the return of
`context.run()`.

`Conversation` says what a room promises: one sequence of messages, from which a
member hears everything from the last `MaxRecent` before it joined, once and in
order.  `ImplementsConversation` is the refinement, with the history `said` (what
was given to `deliver`) as the conversation and `screen` as what was heard.

### Sockets, PollServer, SelectServer, RelayServers

`Sockets` is the kernel as the two servers see it: connections that are open, left
(FIN), reset, or broken (a send after which the next raises SIGPIPE), a backlog,
descriptors given out lowest first, sockets that hold `Window` messages.
`PollServer` and `SelectServer` are the two main loops step by step: one action per
system call and per turn of a loop.  `PollServer` has `pfds` with its `revents`, the
index of the pass, and buffer, length and index of the inner loop;
`SelectServer` has `master`, `read_fds`, `maxfd` and the same.

The pass of `poll_server` ends when its index *is* the size of `pfds`.  When the
last entry hangs up, the vector shrinks to that size, the index steps over it, and
the pass never ends: it reads, and deletes, entries behind the vector.  The model
follows it (`Astray`): an entry there may show any descriptor, ready or not, a
`recv` on what is no open socket fails, `del_from_pfds` takes the last entry away
all the same, and the access may end the server (`Crash`).  Section 6 has the
finding; what the server promises, it promises up to that point.  `RelayServers`
runs one of them with the clients; the promise to everyone is the same, so the
properties are stated once.

### Programs and its modules

`program` is chosen at the start and never changes; the step of a behaviour is a
step of that program, and the variables of the others stay as they began.  Each
module has its own variables, `...Init`, `...Next`, type invariant and one
property, a conjunction of the named ones described here.

**HashMap, Dictionary.**  `buckets` is the array of sequences of pairs,
`hashCount` is `count_`.  One action per member function; a copy or a move makes
two maps, and the program goes on with either.  `HomesAndKeys`: every pair is in
the bucket its key hashes to, no key twice.  `CountIsExact`: `size()` counts the
elements unless one of the calls that do not keep it was made (`skewed`).
`HashMapImplementsDictionary`: the calls and their answers are those of
`Dictionary`, a partial function.  The section on nodes models `HashMapBucket` by
itself: two buckets whose heads and nodes are linked by `next` in one heap, with
every operation that relinks.  `NodesAreTheSequences` shows that the sequences of
the map are what the links spell, that no node is in two buckets, and that none
leaks but through the move assignment, which frees nothing.

**BinaryTree.**  A node is known by its path from `root_`; a relinked child
moves with what is below it.  `IteratorsVisitAll`, `DescentAgreesWithScan`, and
`TreeActsAsDictionary` while no key is in two nodes.

**LinkedList.**  The sequence that the nodes spell, with tagged elements so that
equal ones can be told apart.  `SortIsStable`, `UniqueAndReverse`,
`MergeKeepsAlternating` (what `merge` keeps, exactly).

**FsmDispatch.**  One operator per library for what `dispatch_event` calls, over
any table: a row says whether it has a guard, an action and a next state, a state
which hooks it has, guards answer anything.  `EnginesKeepTheOrder` compares each
with the order its comment documents, `OneStateIsOpen` pairs entries and exits
over any sequence of events, `LogIsTheHistory` and `LogIsNeverLate` relate the
two logs to the calls.

**Sml, AnimationMachines.**  `Sml` has rows, regions, nested machines, hooks,
unexpected events and exceptions as `sml.hpp` processes them for these programs,
and the programs.  `AnimationMachines` drives fifteen writings of one machine
with the same events: ten show the same state and count
(`LimitedMachinesAgree`), in four the limit is out of reach
(`OthersNeverReachTheLimit`), one keeps an old count (`SecondKeepsACount`).

**TextStream, PunyPy, Calculator.**  The stream has a position and
`eofbit` and `failbit`; a lexeme is one value.  `PunyPy` is the scanner with one
token of lookahead, the parser, the analysis and the interpreter, and, in a part
of its own, the scanner of Punypy2 with a client that gets, peeks, puts back and
ignores; `Calculator` the grammar with
its putback and the recovery of `run`, a lone point, at which the read of a number
fails and gives 0, included.  The properties compare with definitions
that do not scan: a text by its lines (`ParsesLineByLine`, `BadTextIsNotRun`,
`DeclaredOnceMeansInOrder`), a statement by its last operator outside parentheses
(`CalcShowsTheMeaning`), the tokens by their places (`DeliversTheTokens`).
`TokenStringsAreKept` is about the union in the calculator's `Token`: after any
copies, moves and assignments a string is alive exactly in the tokens that are
names.

**TypeLists, TupleAlgorithms.**  Every algorithm and its alternatives as
functions on sequences, where a value of their own stands for "does not
compile"; the runs grow a list or tuple element by element.  They agree wherever
both compile, and agree with what they are for (`SortsAgainstTheOrder`,
`ErasesWhatItShould`, `FindThenApply`, `AdaptorsDeliver`).  The lists of
`list_operations_2.cpp`, `event_interface` and `value_lists.hpp` agree with
`typelist.hpp` (`OlderListsAgree`, `ValueListsLikeTypes`), the older tuples with
one another on `get` and the comparisons (`ComparisonsOrder`, `TakenInTurn`).

**Allocators.**  The three trackers with `num_allocs` and their arrays or
vectors, `reset` at any time; the arena with blocks on the heap when it is used
up.  `StatusShowsTheLeaks`: what is listed is what was allocated since the last
reset and is in use; `EndsOnlyThen`: when the tracker ends the program;
`ArenaBlocksAreApart`: blocks do not overlap, and no space is lost while blocks
are released last first.

**AsioServers, AsioTimers.**  A session is its outstanding operation and `data_`;
a connection holds what was written and not yet read, and either end may go at
any time.  `EchoesEverything`: through partial reads and writes the bytes come
back in order.  `SendsTheTimeOnce`; `AnswersWhoAsked`: the one `remote_endpoint_`
is enough because the server receives again only after it has sent.  The timers
are all five programs.  A timer that is due is `ready`; a thread takes it
(`TakeReady`) and brings its handler to the strand (`EnterStrand`), so that two
threads may enter in either order; a handler under way holds the count it has
read, so that two threads without the strand would lose one
(`CountsEveryExpiry`).  A datagram of the multicast sender is `inflight` until it
arrives, in any order, or never.  `EachMessageOnce`: what is sent is 1, 2, 3 and so
on, `message_` never overwritten under its send, and a receiver sees none twice.
`AsioServersOK` and `AsioTimersOK` add the invariants these follow from,
`AsioInv` and `TimersInv`.

**SharedQueues.**  Every operation of `tsqueue`, with the three waits in one
condition variable, and assignment between two `threadsafe_queue`s, which locks
both, and its move constructor.  `call` is the operation a thread is in and how far
it is; elements are numbered as they are pushed.  There are two ways a sleeper can
be passed over: an assignment notifies nobody, and `wait_for_data` uses up the
wake of an element it leaves.  `unheard` counts the elements of a queue for which
no wake is left, no more than the queue has, and starts again with what replaces or
clears them; `NoElementBesideASleeper` says that for every other element beside a
sleeper somebody is awake.  `UpdateFindsWhatItSaw`: the one thread that updates
pops what it checked for.  `NobodyHoldsAndWaits` is why two assignments cannot
block one another; `TakenOnce`: no element is taken twice.

**NamedSemaphores.**  Objects of one name in any number of processes; the
kernel's semaphores outlive the name.  `NothingTakenTwice`: a semaphore's
value is what was posted and not yet taken.  `OneSemaphorePerName`: a second one
comes into being only where an owner gave the name up.  `OneOwnerIsSafe`: with
one owner at most, never moved, the destructors do not end the program.

**SocketExamples.**  The search for an address with a failure at every call
(`OneDescriptor`), the forking server, whose `accept` may fail, with `SIGCHLD`
merged while the handler runs (`NoZombieIsForgotten`, `ConnectionsClose`), the datagram programs; and
what is written to the wire and read again at the boundaries: `HeadersAreRead`,
`PullsTheLastDatum`, `FloatsSurvive`.

**QtWidgets.**  Events of one loop in any order: the snake, in a part of its
own, and the widgets.  An element of `x_` that was never written is a
nondeterministic value.  `SnakeIsConnected`, `OnlyShortLoops`;
`ListIsWhatWasMeant`, `ButtonsMatchTheTimer`.

**DesignPatterns, Observers.**  The patterns that keep state over a sequence of
calls: `UndoRestores`, `DoneIsAPrefix`, `BalanceIsCurrent` of the commands on
accounts; `ActInOrder`, `RoomReadsInOrder`, `TokensAreTheText`;
`DispatchersAgree` (five dispatchers), `WeakSubjectCallsTheLiving`.

## 3. Runs

| Run | Instance | Distinct states | Shows |
|---|---|---|---|
| `active` | 2 senders of 2 tasks, `max` = 3 | 1,669 | order, completeness, `done_` last, the destructor returns; `IInv` |
| `olc` | a client and an impostor, 1 message each, hasty users | 1.3 million | `HandshakeFirst`, `NoEcho` |
| `olc_patient` | 1 client, 2 messages, patient | 2,912 | `TakenInOrder`, `PingAnswered` |
| `chat` | 2 users, 3 lines, 1 recent message, sockets of 1 message | 3.0 million | six invariants and the refinement of `Conversation` |
| `chat_live` | 2 users, 2 lines, one quits | 45,901 | lines reach everyone, clients and sessions end |
| `relay` | 3 clients, 2 talk, 2 close, both servers | 282,860 | what is watched is what is open, one order, who is left out, everyone is served |
| `programs` | 25 programs, small instances of each | 295,060 | a type invariant; of the queue `NoLostWakeup`, `QInv`, of which mutual exclusion is a part, and that it implements `Fifo`; `ContainersOK`, `StateMachinesOK`, `ParsersOK`, `LibrariesOK`; `SemaphoresOK`, `SharedQueuesOK`, `AsioServersOK`, `AsioTimersOK`; the map and the tree implement `Dictionary` |
| `olc_overlap`, `olc_refused`, `olc_stale_body`, `relay_missed`, `relay_strays` | as small as the case needs | | the disagreements of section 6 |

Why the bounds are enough to meet the interesting cases:

* *programs*, the queue: a third thread is what makes a woken waiter compete with a newcomer
  and with `try_pop`; two waiters and a producer are needed for `notify_one` to
  have a choice, and three values for an overtaking to show.  Each value is pushed
  at most once, so that elements can be told apart.
* *active*: two senders interleave; two tasks each show the order within a
  sender; `max` below the number of items is what the "extra case for empty item"
  of `main.cpp` does, and lets the scope end with tasks still queued.
* *olc*: a broadcast needs a sender and another connection, and an impostor that
  tries to be heard; two messages are needed for one write to overtake another, and
  a ping with a body before a message without one for the body to be stale.
* *chat*: with one recent message and three lines the replay drops something;
  with sockets of one message both directions can be full at once; two lines of
  one user overlap in `write_msgs_`; the second line of `bob` does not decode, after
  a first one that does.  `Max_Recent_Msgs` is 100 in the code; only whether it is
  reached matters.
* *relay*: three clients make a sender, a recipient that fails and one behind it,
  and a descriptor that is closed and given out again in the same pass.  `Size` 2
  tells a part of a message from the whole.
* *programs*, the others: three keys and one or two buckets collide and are spread again;
  `HashSizeMod` 4 makes `count_` wrap within reach; three nodes in two buckets are
  enough for an erasure in the middle and for a leak.  A tree of four nodes has a
  node with two children below another, the case in which erasure relinks most.
  Two elements of each key show that a sort is stable.  Every table of a machine
  is a choice per row, so one source and one target state are enough.  The
  statements and lines were chosen one per rule of each grammar and one per kind
  of error; two or three in sequence show the recovery.  `MaxTraces` 4 for 100 lets
  the array of the tracker fill; an arena of three units does.  One and two timers
  run to limits of 5 and 6 (the code has 5 and 10), a sender to 4 messages
  (10), which two receivers take in any order.  A window of one byte makes every write of the
  echo server partial.  Three objects of a name make two owners and one that is
  moved to; three users of a queue make two sleepers beside the one that pushes,
  the fewest for a wake to go to the wrong one.  `SnakeTicks` 11 is enough for a
  snake to eat five apples and bite itself.  Headers and floats are checked at the edges of their ranges.

Every property of a passing run is one that a plausible mistake in the code would
break: beside each mutated action the module says which mistake it is (a dropped
`notify_one`, a `pop_back` without the swap, a write started while one is in
progress, ...), and TLC finds the property violated with it.

## 4. Fairness and deadlock

* *active* (`FairSpec`): the owner, the worker and the thread that creates the
  object take their steps (weak fairness: they are ordinary threads).  A thread
  that competes for the mutex gets it in the end (strong fairness of `Lock`):
  the mutex is free again and again, and `std::mutex` wakes a blocked thread at
  every unlock.  Nothing is assumed of `SpuriousWake`, and nobody is forced to send.
* *olc_patient*: contexts run the handlers that are ready, main threads keep
  looping.  Nobody has to connect, send or disconnect.
* *chat_live*: each program's `io_context` is not idle while a handler is ready:
  weak fairness of the server's step and of each client's, *one* condition for a
  program, so the model may favour any of its handlers.  The users owe nothing.
* *relay*: the server's loop goes on, and a client reads what is sent to it.  The
  second is an assumption about the clients that the code needs: its sends block,
  so one client that never reads stops the server.  `EveryoneIsServed` excuses what
  the code cannot serve: a server that SIGPIPE ended, and one whose pass left the
  vector.

`CHECK_DEADLOCK FALSE` is set where a system may really come to rest: consumers
that all wait for a push that never comes (`programs`), clients that have all left,
or have nothing more to say under the bound (`olc*`, `chat*`), a server ended by
SIGPIPE or with nothing left to do (`relay*`), programs that have ended, texts
that are read to their end and machines in their last state (`programs`).
`programs` assumes no fairness: its properties are safety.  In `active` the
program ends in `Terminated`, and deadlock is checked: no thread waits for ever.

## 5. Proofs

`QueueProofs` proves for any finite set of threads and any set of values, of
`QueueClients`:

* `ExclusiveAccess`: `ClientsSpec => []MutualExclusion`
* `NoWakeupIsLost`: `ClientsSpec => []NoLostWakeup`
* `ElementsAreConserved`: what was pushed is what was popped followed by what is
  in the queue
* `QueueIsFifo`: `ClientsSpec => ImplementsFifo`, the queue implements `Fifo`

They follow from `QInv`.  `NoLostWakeup` alone is not inductive.  It counts the
elements against the threads that are awake for them, and to see that `Push` keeps
it one must know that a thread in `cv` is inside `wait_and_pop` (`Carried`), so that
`notify_one` adds one to the count; to see that a pop keeps it, that the thread in
its critical section is the one that holds the mutex (`MutualExclusion`).  The
lemmas `WakeupsByAlert`, `AlertGrows`, `AlertPlusOne`, `AlertMinusOne` state how
that number changes; then there is one lemma per operation (`CallStep`, `LockStep`,
`WaitStep`, `SpuriousStep`, `PushStep`, `TakeStep`, `PopStep`), and `QueueInductive`
puts them together.  The refinement uses `Conservation`: a pop takes the element
that `Fifo` hands out next because the queue is what remains of `pushed`.
Assumptions: `QueueConstants` (the two "no" values are not threads or elements) and
`ThreadsAreFinite`, for the cardinalities.

`ActiveObjectProofs` proves for any finite set of senders, any number of sends and
any `max` up to their total, of `ActiveObject`:

* `TypeCorrect`: `Spec => []TypeOK`
* `RunInOrder`: `Spec => []InOrder`, tasks run in the order they were accepted
* `DoneComesLast`: `Spec => []DoneIsLast`, `done_` is set after everything else
* `NothingIsLost`: `Spec => []NothingLost`, when the destructor has returned every
  task has run
* `WakeupsAreNotLost`: `Spec => []NoLostWakeup`, the queue's property with these
  clients

`IInv` is the inductive invariant: where each thread may be in the queue and with
what (`ThreadShape`, `SendShape`), that the worker has handled a prefix of the log
of pushes and the queue is the rest of it (`LogShape`), that the log holds exactly
what was accepted, in each sender's order (`PostedShape`), and that the
destructor's task ends the log (`DoneShape`).  `NothingLost` needs all of them: the
destructor returns because the worker left its loop, it left because `done_` was
set, `done_` was set by the last entry of the log, so the queue is empty and
everything before has run, and everything sent is in the log.

`OlcProofs` proves for any set of clients, impostors and messages, patient users
or not, of `OlcNetworking`:

* `OlcTypes`: `Spec => []OlcTypeOK`
* `Handshake`: `Spec => []HandshakeFirst`, only validated clients are listened to
* `NoClientHearsItself`: `Spec => []NoEcho`
* `InSendingOrder`: `Patient` implies `Spec => []TakenInOrder`

What makes `HandshakeFirst` hard is that a connection reads `header` and
`validation` with the same buffers while its user already writes.  `OlcInv` says
that a server end that reads messages is that of a validated client
(`reading`), that the right answer to the challenge is never on the wire of an
impostor, not even among what a stale header or a body out of step left there,
and that everything in `queue_in_` and `handled` came from such an end.  For
`NoEcho` it follows a client's id through all the places a message passes:
`posted`, `queue_out_`, `msg_temp_out_`, the wire, `msg_temp_in_`, `queue_in_`,
the user's screen.  In none of those on the way to `c` is `c` the body, and the
bodies on the way from `c` are no client's id at all, so that a bounced message
and a stale body are covered.

`InSendingOrder` is about the clients of patient users; the others may write two
messages at the same time, and their order is not kept (section 6).  `OrderInv`
compares the two ends of the stream.  The server's end is where its outstanding
read is (`First`) and at the message after those that arrived (`Number`).  Reading
`wire` from there piece by piece, always what is expected, as the messages were
sent, leads (`Leads`) to the place where the client goes on writing (`Writes`):
its answer to the word, the header or the body of the newest message, or nothing.
A handler at one end moves one of the two places by one piece, which is what
`LeadsOn` and `LeadsFurther` state.  `BodyToCome` ties `msg_temp_in_` to the
message whose header was read.  The property itself is not inductive even with the
queue: it says nothing of what is on the way.  Its assumption `Patient` is the
constant the run `olc_patient` sets.  `TakenInOrder` counts a client's messages in
`handled` (`CountFrom`); `CountNext` and `OneMore` state how that number grows.

`ChatProofs` proves for any users, lines, `MaxRecent` and windows, of `Chat`:

* `ChatTypes`: `Spec => []ChatTypeOK`
* `InOrder`, `WritesGoOn`, `Listening`, `Silenced`, `NewcomersAreGivenTheEnd`,
  `MissNothing`: `SpokenInOrder`, `NothingStalls`, `ParticipantsAreHeard`,
  `NothingAfterABadHeader`, `RecentIsTheEnd`, `ParticipantsMissNothing`
* `OneConversation`: `Spec => ImplementsConversation`

`ChatInv` is one invariant for all of them.  It says for each direction of each
connection where every message is: typed, posted, in the client's
`write_msgs_`, in its socket, being read, and then `said`; and from `said` on:
in the session's `write_msgs_`, in its socket, on the screen.  Each of these is
a run of consecutive places of what was typed, or of `said`, and each begins
where the one before it ends, so nothing is missing or twice.  To keep it, one
has to know that a write is outstanding while `write_msgs_` is not empty (the flag),
that a read is for the message at the front, and that a session
that has left is written nothing more.  The refinement maps a delivery to
`Say`, an acceptance to `Join` with the replay, and a message shown by a client
to `Hear` (lemmas `SayStep`, `JoinStep`, `HearStep`); all else stutters.

`RelayProofs` proves for any number of clients, of `RelayServers`:

* `RelayTypes`: `Spec => []RelayTypeOK`
* `Watching`: `Spec => []WatchesWhatIsOpen`
* `SentInOneOrder`: `Spec => []OneOrder`
* `NobodyElseIsLeftOut`: `Spec => []OnlyTheseAreLeftOut`

The last three of `poll_server` as long as no pass has left the vector, which
`Astray` says; `AstrayStep` shows that once it has, no step leads back, so the
invariant of the poll server need only be kept until then.  `OnlyTheseAreLeftOut`
exempts the entries at and behind the first one that `sendall` failed for (`cut`),
and nobody before it.

`RelayInv` has three parts.  `SocketInv` is about the kernel: a client waits to be
accepted or has one descriptor, the messages of a client are numbered as they
were sent, the first ones are received and the others in its inbox (`Numbered`), so
no message is received twice (`Distinct`), and what a client was sent is
ascending in `received` (`Ordered`).  `PollWatch` and `SelectWatch` are what is
watched; the swap of `del_from_pfds` is `Removed`, the count of `pfds` needs the
cardinality theorems.  `PollRelay` and `SelectCast` are the invariants of the loop
over `j`: from `j` on nobody has the message yet (`Lacks`), which is why sending
it keeps `Ordered`; before `j`, and before the cut, everybody has it in whole who
is still connected.  `at` comes to a descriptor of `read_fds` only while it is
still in `master`, since a pass closes nothing that is ahead of it.  There is one
lemma per system call and one per action.

`SemaphoreProofs` proves for any set of objects and any bounds, of
`NamedSemaphores`:

* `PostsAreTakenOnce`, `NameIsShared`, `OneOwnerNeverTerminates`:
  `NothingTakenTwice`, `OneSemaphorePerName`, `OneOwnerIsSafe`
* `SemaphoresCorrect`: `SemSpec => []SemaphoresOK`, the invariant of the run

The inductive invariant is `SemTypeOK` with `SemInv`.  `CountsAgree` is the first
property, with the semaphores that do not exist yet untouched, so that a new one
begins with nothing.  `UnlinksMatchCreations` compares the semaphores with the
unlinks: each but the linked one lost its name to one, and an unlink that finds no
name ends the program.  `TheOwner` says of the one owner that its name is still
linked, which is why its destructor finds it; `OwnersCounted` ties the count of
owners to the objects that were made (`OneMoreMade`, with the cardinality
theorems).  There is one lemma per call.

`SharedQueueProofs` proves for any set of users and any number of pushes, of
`SharedQueues`:

* `UpdatePopsInOrder`, `NoWakeIsLost`, `AssignmentsCannotBlock`, `EachIsTakenOnce`:
  `UpdateFindsWhatItSaw`, `NoElementBesideASleeper`, `NobodyHoldsAndWaits`, `TakenOnce`
* `SharedQueuesCorrect`: `SharedSpec => []SharedQueuesOK`

The inductive invariant is `SharedTypeOK` with `SharedInv`.  `CallsFit` says what
the threads may be doing by the use that is made of the queues; `SawOne`, that
what the updater saw is still there, which holds because the others only push;
`InPushOrder`, that the queue is the last of the numbers that were pushed;
`HoldersCopy`, that a mutex is held by a thread in the copy and by no other.
`NoElementBesideASleeper` compares the elements with the threads that are awake
for them and those counted in `unheard` (`Covered`): `WokenCount` states how their
number changes, and `AddKeeps` and `TakeKeeps` what that means when an element is
pushed or taken.  The lemmas about
sequences (`TakeOne`, `AddOne`: what a push and a pop at either end leave of
elements that are all different) come first.

`AsioProofs` proves for any finite set of clients and any bounds, of
`AsioServers`:

* `EchoIsComplete`, `TimeIsSentOnce`, `AnswersGoToWhoAsked`: `EchoesEverything`,
  `SendsTheTimeOnce`, `AnswersWhoAsked`
* `AsioServersCorrect`: `AsioSpec => []AsioServersOK`

`AsioInv` is about one connection at a time (`FitsItsServer`).  What was read, what
is under way to the client, what the session holds and what is under way to the
session are together what was sent; a read moves the border between the last
two, a write the one before (`CutSeq`), the client's read the first
(`HeadAndRest`), so the whole stays.  `SessionFits` says that only a session that
writes holds data: without that, a read would overwrite some.  `AcceptedOnce` keeps a
client from being given a second session, `ServesOneAtATime` is about the
synchronous server.  The lemma `OneConnection` says once that a step which
changes one connection leaves the others as they were; then there is a lemma per
handler.  For `AnswersWhoAsked` the requests of a client in the socket's queue
are counted (`WaitsIn`), and lemmas say what a datagram put in or taken out does
to that number.

and, for any limits and receivers, of `AsioTimers`:

* `EveryExpiryCounts`: `TimersSpec => []CountsEveryExpiry`
* `MessagesArriveOnce`: `TimersSpec => []EachMessageOnce`
* `TimersCorrect`: `TimersSpec => []AsioTimersOK`

`CountsEveryExpiry` is not inductive.  `OnePlace` says that a timer is waited for,
ready, at the strand or in a thread's hands, never two of these, and `OneEach` that
no two threads have the same and that one handler runs: that is what the strand
does.  Hence what a handler read is still the count
(`CountIsCurrent`), and the calls are those counted, those that run and the last
one of each timer, which found the count at its limit.  Neither needs the threads
to enter the strand in the order in which the timers were due, and they need not.
`EachMessageOnce` needs `OneMessageAtATime`: `message_` still holds the message of
the send that is under way, and what is on its way to a receiver was sent and is
not written there yet, so that it can be added whatever came before.

The constants are assumed to be what the `ASSUME` of each module says:
`SemConstants`, `SharedConstants`, `AsioConstants`, `TimersConstants` - finite sets
where something is counted, and natural numbers.

TLC checks `QInv`, `IInv`, `SemInv`, `SharedInv`, `AsioInv` and `TimersInv` in the
runs `active` and `programs`; the invariants of the other three were
checked as invariants of `olc`, `chat` and `relay` before they were proved, and
now that they are proved the runs keep to the properties.

## 6. Where the code and its comments disagree

Five runs end in a counterexample, each against a sentence of the repository.

* `olc_overlap`: `net_connection.h:129` wants `write_header` to be triggered only
  if the context is not already writing.  The test is `queue_out_.empty()`, but
  `write_header` *pops* the message it writes (line 191), so the queue is empty
  during a write.  After the handshake, the `send` of a second message starts a
  second `async_write` on the socket and overwrites `msg_temp_out_` under the first.
* `olc_refused`: `net_connection.h:299` refuses a connection because the "client
  responded with incorrect data".  A client is `is_connected` from the start of
  `async_connect`; a message it sends before the handshake is over is written first
  and read in place of the answer, and an honest client is refused.
* `olc_stale_body`: `queue_in_` "holds all messages that have been received"
  (`net_connection.h:338`).  `read_header` does not clear the body of
  `msg_temp_in_` for a message that has none, so it arrives with the body of the one
  before.
* `relay_missed`: `poll_server.cpp:190` says "send to everyone".  `sendall` stores
  what it could send in `nbytes`, and the loop goes on with that for the next
  recipients.
* `relay_strays`: `poll_server.cpp:139` says "Run through the existing collections
  looking for data".  The loop tests `i != pfds.size()` (line 140).  When the last
  entry hangs up, line 183 makes `pfds` as short as `i` is, `++i` steps over the size
  and the pass goes on behind the vector.  An only client that leaves is enough.

Seen while reading, not run as a violation.  Where the code is modelled, the
model does what the code does, and the property names the exception.

In the networking programs:

* `selectserver.cpp:159` loops to `j != maxfd`, so the connection with the highest
  descriptor is never sent anything; `OnlyTheseAreLeftOut` states it as the exact
  exception, and would fail with a further one.
* `net_server.h:102` erases a client that is not connected from `connections_` only
  after `client.reset()`, so the null pointer is what it looks for; no program calls
  `message_client`.
* `net_server.h:181` is documented as the validated connections; they are in it
  from their acceptance on, so a broadcast can reach one that is not validated yet.
* In chat, a header that does not decode ends the reads of a session but not its
  membership, so the session of such a client is kept until a write to it fails;
  `ParticipantsAreHeard` and `SessionsEnd` name the exception.

* `tsqueue`: `wait_for_data` can consume the wake of a `wait_pop`
  (`NoElementBesideASleeper`).  `>>` of a message does not remove what it read
  (`PullsTheLastDatum`); `decode_header` of chat lets lengths over
  `max_body_length` and trailing non-digits through (`HeadersAreRead`).
* `threadsafe_queue`: assignment notifies nobody, move assignment copies, the copy
  constructor does not compile when it is used.
* The asynchronous UDP servers end quietly after one receive error; their clients
  wait for ever for a lost datagram; `udp_daytime_future.cpp:34` says "May throw" of
  a `wait()` that never throws the error of the send.  `simple_asio.cpp` returns
  from `main` with a joinable thread when the socket cannot be opened.
* `dgram_talker.cpp` sends to port 3490, the listener is on 4950.
  `hello_server.cpp:129` formats the function `std::strerror` itself.
* `float_serialization.cpp`: a negative float that vanishes comes back as -0, and
  the whole part is taken modulo 2^15.

In the containers:

* `HashMap`: `operator[]` does not count a new key; a construction from a range
  counts duplicates, and a copy of either aborts; the copy with an allocator has the
  count and no elements; `erase(first, last)` advances a freed node and counts
  twice; `clear` of the map and of a bucket leaves a dangling pointer; `rehash(0)`
  divides by zero; `end()` reads one bucket past the array; `count(key)` returns
  the size; emplace, swap and the hinted calls do not compile.  Move assignment
  of a bucket leaks its nodes.
* `SingleLinkedList`: `merge` links only the first node of each run; a copy of an
  empty list aborts; `SingleLinkedList(0, v)` does not end.
* `BinaryTree`: `insert` on an empty tree aborts, `insert_or_assign` and
  `try_emplace` write through the address of a parameter; `insert` compares whole
  pairs; `upper_bound` of an absent key advances `end()`; the post-order traversal
  visits nothing, and the recursive in- and post-order ones call the pre-order one;
  `clear` leaves `root_`; `erase(first, last)` does not end.

In the state machines and parsers:

* `specialization_dispatch` drops a guarded transition into a state with an entry
  from one without an exit; `ifconstexpr_dispatch` skips the exit on rows without
  guard and action; in `transition_table` an entry with a guard alone is ambiguous,
  and a guard or action that cannot be called with the machine is dropped.
  `tuple_fsm/first` does not compile.
* `naive_fsm/second.cpp` resets the wrong counter on a stop in Paused.  The limit
  row of the sml animations and of `transition_table` is never reached.
* PunyPy: an identifier or an indentation at the very end makes the scanner read an
  indeterminate character; a lone last token is dropped; a line of spaces after a
  function makes the next line a part of it; declarations all take effect in the
  analysis; its errors do not stop the interpreter.  Punypy2: punctuation that
  begins a line is an invalid token; `ignore` of an absent token does not end.
* Calculator: `%` takes the whole rest of the term, where the grammar of the opening
  comment has a primary; an error at a `;` swallows the next statement; a second bad
  character in a statement ends the program.  A lone point is a number that cannot
  be read: its value is 0, and the stream stays failed (`CalcGet`).

In the small programs:

* Typelist and tuples: some of each pair of implementations have no empty list or
  tuple; `insertion_sort` is not stable; `most_derived_first` is no permutation
  when the most derived type is repeated; `tuple_fetch` does not compile.  `==` of
  the older tuples does not compile with the longer tuple on the left; of their
  `Get`s only that of `basic_tuple.h` moves from an rvalue; the front or back of an
  empty list in `list_operations_2.cpp` is the list itself.
* The tracker in an array ends the program at the 100th allocation since the last
  reset, however few blocks are in use; so does a delete of a block from before it.
* Observers: the subject with weak pointers prints "Removing an expired observer"
  and removes none; a dispatcher that forwards an rvalue leaves it empty for the
  next listener; `event_interface.cpp` finds only handlers that return nothing.
* Snake: two keys between two ticks turn it back into itself, and it collides
  only with dots after the fourth.  The list widget renames a null item when the
  list is empty.
* Semaphore: a second owner of a name, or the destructor of a moved-from owner,
  ends the program; `sem_close` is never called.
* Commands: the commands of `command_3.cpp` undo in the order of the call and without
  flags; undo twice undoes twice.  A deposit after an undo in `memento.cpp` is
  appended behind the undone changes.  `interpreter_1.cpp` drops a number at the end
  of its text.

## 7. Abstractions and assumptions

* `create()` returns its local object by value while the thread holds a reference
  to it; the models assume that the copy is elided (NRVO), as the compilers in use
  do.  The destructor of `Active2` and `Active3` runs after the derived class's
  members are gone; as in `main.cpp`, the results are outside of the object.
* olc: a small write enters the socket when it is started, so only its handler is
  a later step; a message is its id and its body, a body one of a few values.
  `tsqueue` is a sequence with atomic operations; its locking is that of
  `threadsafe_queue`.  The server's broadcast runs in one step of the main thread.
  The data race between that loop and `push_back` to `connections_` on the
  context thread is listed as a hazard and not modelled.
* chat: one room stands for the list of servers, which share a thread and nothing
  else.  A message is transferred in one step.  A read may fail although data is
  still buffered (a reset), and after `close` no buffered read completes.
* relay servers: what one `recv` returns is one message.  `accept` may fail and the
  pass goes on.  The listener has the lowest descriptor, as it is opened first.
  `FD_SETSIZE` is not reached.
* Containers and allocators: an allocation does not fail; a value is its key and
  one of two contents.  A call whose behaviour is undefined in a state is not made
  in that state.
* Parsers: a lexeme is one value and the formatting of output is left out; the
  calculator's doubles are rationals.
* asio servers: a datagram may be lost or late, and is not duplicated; those of
  the multicast sender overtake each other.  A handler
  runs in one step, but for `print` of the two timers; so do the synchronous calls
  between two waits.  An accept that fails ends the
  synchronous server with an exception (`tcp_daytime_server.cpp:28`), so it takes
  no further step; the others drop the connection, one whose client is gone, and
  accept again (`TcpAcceptError`).
* Qt: slots run to their end in one loop, dialogs are modal; a list whose current
  item is taken makes the next one current, or else the one before.
* Bounds named in the modules: `MaxSends`, `MaxLines`, `MaxTotal`, `Window`,
  `Quitters`, `Closers`, `Talkers`, `Undecodable`, `Sends`.

Only model-checked, not proved:

* every liveness property (`DestructorReturns`, `EveryTaskRuns`, `PingAnswered`,
  `LinesReachEveryone`, `ClientExits`, `SessionsEnd`, `EveryoneIsServed`): liveness
  under fairness is out of the proof system's reach here;
* the other modules of `Programs` (`ContainersOK`, `StateMachinesOK`, `ParsersOK`,
  `LibrariesOK`) and the refinements of `Dictionary`.  What a recursive definition
  computes for every input is out of reach, and most of the parsers, containers
  and metaprograms are such definitions: the elements of the hash map and their
  number are folds over the buckets, the order of the tree a recursion over its
  paths.

## 8. Plan

Done: the queue and the active objects with their proofs, olc networking, chat,
the relay servers; the containers, state machines, parsers, metaprograms and small
programs of `Programs`.  All safety properties of the five concurrent systems are
proved, and those of the semaphores, the shared queues, the asio servers and the
timers.  Left, in this order:

1. `WeakSubjectCallsTheLiving` and the forking server's `NoZombieIsForgotten`, whose
   operators do not recurse.
2. Liveness of the asio servers: a client that keeps reading gets everything.

Runs are kept few: each asks a question of its own, and small components share a
run through a variable that chooses between them, as `program` does in
`RelayServers` and `Programs`.
