------------------------------ MODULE Programs ------------------------------
(***************************************************************************)
(* The containers, state machine libraries, parsers, metaprograms and the  *)
(* smaller programs of the repository side by side: a behaviour is a run   *)
(* of one of them, chosen at the start; the others stay as they began.     *)
(* Each has its own threads, handlers, processes or callers, in its module.*)
(***************************************************************************)
EXTENDS HashMap, LinkedList, BinaryTree, FsmDispatch, AnimationMachines,
        PunyPy, Calculator, TypeLists, TupleAlgorithms,
        NamedSemaphores, SharedQueues, Allocators, AsioServers, AsioTimers, SocketExamples,
        QtWidgets, DesignPatterns, Observers, QueueClients

VARIABLE program        \* which one runs

programVars == <<program, hashVars, bucketVars, listVars, treeVars, fsmVars, smlVars, animVars,
                 punyVars, scanVars, calcVars, typeList, tupleVars, semVars, sharedVars, allocVars,
                 asioVars, timersVars, exampleVars, snakeVars, qtVars,
                 bankVars, patternVars, wireVars, watchVars, clientsVars>>

ProgramNames == {"hash_map", "buckets", "linked_list", "binary_tree", "fsm", "sml", "animation",
                 "punypy", "punypy2", "calculator", "type_lists", "tuples",
                 "semaphores", "shared_queues", "allocators", "asio_servers", "asio_timers",
                 "socket_examples", "snake", "qt_widgets", "bank_commands",
                 "design_patterns", "wire_formats", "observers", "threadsafe_queue"}

ProgramsInit ==
    /\ program \in ProgramNames
    /\ HashInit /\ BucketsInit /\ ListInit /\ TreeInit
    /\ FsmInit /\ SmlInit /\ AnimInit
    /\ PunyInit /\ ScanInit /\ CalcInit /\ TypesInit /\ TuplesInit
    /\ SemInit /\ SharedInit
    /\ AllocInit /\ AsioInit /\ TimersInit /\ SocketExInit
    /\ SnakeInit /\ QtInit /\ BankInit /\ PatternsInit
    /\ WireInit /\ WatchInit /\ ClientsInit

ProgramsNext ==
    /\ UNCHANGED program
    /\ IF program = "hash_map" THEN HashNext ELSE UNCHANGED hashVars
    /\ IF program = "buckets" THEN BucketsNext ELSE UNCHANGED bucketVars
    /\ IF program = "linked_list" THEN ListNext ELSE UNCHANGED listVars
    /\ IF program = "binary_tree" THEN TreeNext ELSE UNCHANGED treeVars
    /\ IF program = "fsm" THEN FsmNext ELSE UNCHANGED fsmVars
    /\ IF program = "sml" THEN SmlNext ELSE UNCHANGED smlVars
    /\ IF program = "animation" THEN AnimNext ELSE UNCHANGED animVars
    /\ IF program = "punypy" THEN PunyNext ELSE UNCHANGED punyVars
    /\ IF program = "punypy2" THEN ScanNext ELSE UNCHANGED scanVars
    /\ IF program = "calculator" THEN CalcNext ELSE UNCHANGED calcVars
    /\ IF program = "type_lists" THEN TypesNext ELSE UNCHANGED typeList
    /\ IF program = "tuples" THEN TuplesNext ELSE UNCHANGED tupleVars
    /\ IF program = "semaphores" THEN SemNext ELSE UNCHANGED semVars
    /\ IF program = "shared_queues" THEN SharedNext ELSE UNCHANGED sharedVars
    /\ IF program = "allocators" THEN AllocNext ELSE UNCHANGED allocVars
    /\ IF program = "asio_servers" THEN AsioNext ELSE UNCHANGED asioVars
    /\ IF program = "asio_timers" THEN TimersNext ELSE UNCHANGED timersVars
    /\ IF program = "socket_examples" THEN SocketExNext ELSE UNCHANGED exampleVars
    /\ IF program = "snake" THEN SnakeNext ELSE UNCHANGED snakeVars
    /\ IF program = "qt_widgets" THEN QtNext ELSE UNCHANGED qtVars
    /\ IF program = "bank_commands" THEN BankNext ELSE UNCHANGED bankVars
    /\ IF program = "design_patterns" THEN PatternsNext ELSE UNCHANGED patternVars
    /\ IF program = "wire_formats" THEN WireNext ELSE UNCHANGED wireVars
    /\ IF program = "observers" THEN WatchNext ELSE UNCHANGED watchVars
    /\ IF program = "threadsafe_queue" THEN ClientsNext ELSE UNCHANGED clientsVars

ProgramsSpec == ProgramsInit /\ [][ProgramsNext]_programVars

-----------------------------------------------------------------------------
ProgramsTypeOK ==
    /\ program \in ProgramNames
    /\ HashTypeOK /\ BucketsTypeOK /\ ListTypeOK /\ TreeTypeOK
    /\ FsmTypeOK /\ SmlTypeOK /\ AnimTypeOK
    /\ PunyTypeOK /\ ScanTypeOK /\ CalcTypeOK /\ TypesTypeOK
    /\ TuplesTypeOK /\ SemTypeOK /\ SharedTypeOK /\ AllocTypeOK /\ AsioTypeOK /\ TimersTypeOK
    /\ SocketExTypeOK /\ SnakeTypeOK /\ QtTypeOK
    /\ BankTypeOK /\ PatternsTypeOK /\ WireTypeOK
    /\ WatchTypeOK

(* The containers keep what their layout promises: the place of every hash *)
(* map element and the count, the chains of its buckets, the order and the *)
(* reach of the tree's iterators, what the list's algorithms make of it.   *)
ContainersOK ==
    /\ program = "hash_map" => HomesAndKeys /\ CountIsExact
    /\ program = "buckets" => NodesAreTheSequences
    /\ program = "linked_list" => ListAlgorithms
    /\ program = "binary_tree" => IteratorsVisitAll /\ DescentAgreesWithScan

(* The map and the tree answer every call as a dictionary does. *)
ContainersAreDictionaries == HashMapImplementsDictionary /\ TreeActsAsDictionary

(* The state machines make the calls their comments document, in order;    *)
(* the sml programs keep their regions and nested machines apart; the      *)
(* animation programs agree with each other.                               *)
StateMachinesOK ==
    /\ program = "fsm" => FsmEnginesOK
    /\ program = "sml" => SmlProgramsOK
    /\ program = "animation" => AnimationsOK

(* Through one token of lookahead or putback, errors and recoveries, the   *)
(* parsers make of a text what its lines or statements mean.               *)
ParsersOK ==
    /\ program = "punypy" => PunyPyOK
    /\ program = "punypy2" => PunyScannerOK
    /\ program = "calculator" => CalculatorOK

(* The libraries and small programs whose alternatives must agree and      *)
(* whose objects must stay consistent over any sequence of their calls.    *)
LibrariesOK ==
    /\ program = "type_lists" => TypeListsOK
    /\ program = "tuples" => TuplesOK
    /\ program = "allocators" => AllocatorsOK
    /\ program = "socket_examples" => SocketExamplesOK
    /\ program = "snake" => SnakeOK
    /\ program = "qt_widgets" => QtWidgetsOK
    /\ program = "bank_commands" => BankCommandsOK
    /\ program = "design_patterns" => DesignPatternsOK
    /\ program = "wire_formats" => WireFormatsOK
    /\ program = "observers" => ObserversOK
=============================================================================
