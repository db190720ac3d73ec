----------------------------- MODULE QtWidgets -----------------------------
(* Widgets of the Qt examples (Libraries/qt5/zetcode) whose slots keep      *)
(* state: the list of Ch10_Widgets/listwidget.cpp, the progress bar of      *)
(* Ch10_Widgets/progressbar.cpp, and the button that Ch9_EventsSignals/     *)
(* disconnect.cpp connects and disconnects.  Every slot runs to its end in  *)
(* the event loop, the input dialogs are modal, a disabled button is not    *)
(* clicked.  Qt's own widgets are external: a list whose current item is    *)
(* taken makes the next one current, or else the one before; a slot         *)
(* connected twice is called twice, and one disconnect() ends both.         *)
(* Bounds: ListMost items, Texts that a user types, MaxProgress stands for  *)
(* Max_Value, QtEvents events.                                              *)
EXTENDS Integers, Sequences, SequencesExt, FiniteSets

CONSTANTS Texts, ListMost, MaxProgress, QtEvents

VARIABLES window, lw, currentRow, meant, selected, crashed,
          progress, pbar, active, btnStart, btnStop,
          checked, connections, clicked, qtEvents

listWidgetVars == <<lw, currentRow, meant, selected, crashed>>
progressVars == <<progress, pbar, active, btnStart, btnStop>>
connectVars == <<checked, connections, clicked>>
qtVars == <<window, lw, currentRow, meant, selected, crashed, progress, pbar,
            active, btnStart, btnStop, checked, connections, clicked, qtEvents>>

QtInit ==
    /\ window = "none" /\ qtEvents = 0
    /\ lw = <<>> /\ currentRow = -1 /\ meant = <<>> /\ selected = "" /\ crashed = FALSE
    /\ progress = 0 /\ pbar = 0 /\ active = FALSE /\ btnStart = TRUE /\ btnStop = TRUE
    /\ checked = FALSE /\ connections = 0 /\ clicked = TRUE

-----------------------------------------------------------------------------
(* The list.  meant is what the user's calls make of the rows, selected the *)
(* text of the row the user works on.                                       *)
CreateList ==
    /\ window = "none" /\ window' = "list"
    /\ lw' = <<"The Omen", "Fargo">> /\ meant' = lw'
    /\ UNCHANGED <<currentRow, selected, crashed, progressVars, connectVars>>

CurrentAfterTake(row, count) == IF row < count - 1 THEN row ELSE row - 1

SelectRow ==
    \E row \in 0 .. Len(lw) - 1 :
        /\ currentRow' = row /\ selected' = lw[row + 1]
        /\ UNCHANGED <<lw, meant, crashed>>

AddItem ==
    /\ Len(lw) < ListMost
    /\ \E text \in Texts :
        /\ lw' = Append(lw, text) /\ currentRow' = Len(lw') - 1
        /\ meant' = Append(meant, text) /\ selected' = text
    /\ UNCHANGED crashed

(* takeItem(row), then insertItem(row, text): the rows from row on move up. *)
Renamed(items, row, text) == InsertAt(RemoveAt(items, row + 1), row + 1, text)

\* Mutant: the row is taken from the list after its item was taken out.
RenamedLate(items, row, text) ==
    InsertAt(RemoveAt(items, row + 1), CurrentAfterTake(row, Len(items)) + 1, text)

(* currentItem() is null when no row is current: its text is read all the   *)
(* same.                                                                    *)
RenameItem ==
    IF currentRow = -1
    THEN crashed' = TRUE /\ UNCHANGED <<lw, currentRow, meant, selected>>
    ELSE \E text \in Texts :
            /\ lw' = Renamed(lw, currentRow, text)
            /\ meant' = [meant EXCEPT ![currentRow + 1] = text]
            /\ selected' = text
            /\ UNCHANGED <<currentRow, crashed>>

RemoveItem ==
    /\ currentRow # -1
    /\ lw' = RemoveAt(lw, currentRow + 1)
    /\ currentRow' = CurrentAfterTake(currentRow, Len(lw))
    /\ meant' = RemoveAt(meant, currentRow + 1)
    /\ selected' = IF meant' = <<>> THEN ""
                   ELSE IF currentRow + 1 <= Len(meant') THEN meant'[currentRow + 1]
                   ELSE meant'[Len(meant')]
    /\ UNCHANGED crashed

ClearItems ==
    /\ lw # <<>>
    /\ lw' = <<>> /\ currentRow' = -1 /\ meant' = <<>> /\ selected' = ""
    /\ UNCHANGED crashed

ListStep ==
    /\ window = "list" /\ ~crashed
    /\ SelectRow \/ AddItem \/ RenameItem \/ RemoveItem \/ ClearItems
    /\ UNCHANGED <<window, progressVars, connectVars>>

-----------------------------------------------------------------------------
(* The progress bar.                                                        *)
CreateProgress ==
    /\ window = "none" /\ window' = "progress"
    /\ UNCHANGED <<listWidgetVars, progressVars, connectVars>>

UpdateBar ==
    /\ active
    /\ progress' = progress + 1
    /\ IF progress' <= MaxProgress
       THEN pbar' = progress' /\ UNCHANGED <<active, btnStart, btnStop>>
       ELSE active' = FALSE /\ btnStart' = TRUE /\ btnStop' = FALSE /\ UNCHANGED pbar

StartMyTimer ==
    /\ btnStart
    /\ IF progress >= MaxProgress THEN progress' = 0 /\ pbar' = 0
       ELSE UNCHANGED <<progress, pbar>>
    /\ IF active THEN UNCHANGED <<active, btnStart, btnStop>>
       ELSE active' = TRUE /\ btnStart' = FALSE /\ btnStop' = TRUE

StopMyTimer ==
    /\ btnStop
    /\ IF active THEN btnStart' = TRUE /\ btnStop' = FALSE /\ active' = FALSE
       ELSE UNCHANGED <<active, btnStart, btnStop>>
    /\ UNCHANGED <<progress, pbar>>

ProgressStep ==
    /\ window = "progress"
    /\ UpdateBar \/ StartMyTimer \/ StopMyTimer
    /\ UNCHANGED <<window, listWidgetVars, connectVars>>

-----------------------------------------------------------------------------
(* The button and the box that connects it.  The box is checked before its  *)
(* own signal is connected, so that the constructor connects the button     *)
(* once.  clicked says whether the last click printed as the box told.      *)
CreateDisconnect ==
    /\ window = "none" /\ window' = "disconnect"
    /\ checked' = TRUE /\ connections' = 1
    /\ UNCHANGED <<clicked, listWidgetVars, progressVars>>

OnCheck ==
    /\ checked' = ~checked
    /\ connections' = IF checked' THEN connections + 1 ELSE 0
    /\ UNCHANGED clicked

OnClick ==
    /\ clicked' = (connections = (IF checked THEN 1 ELSE 0))
    /\ UNCHANGED <<checked, connections>>

DisconnectStep ==
    /\ window = "disconnect"
    /\ OnCheck \/ OnClick
    /\ UNCHANGED <<window, listWidgetVars, progressVars>>

QtNext ==
    /\ qtEvents < QtEvents /\ qtEvents' = qtEvents + 1
    /\ \/ CreateList \/ CreateProgress \/ CreateDisconnect
       \/ ListStep \/ ProgressStep \/ DisconnectStep

-----------------------------------------------------------------------------
QtTypeOK ==
    /\ window \in {"none", "list", "progress", "disconnect"}
    /\ Len(lw) <= ListMost /\ currentRow \in -1 .. ListMost /\ qtEvents \in 0 .. QtEvents
    /\ progress \in 0 .. MaxProgress + 1 /\ pbar \in 0 .. MaxProgress
    /\ {active, btnStart, btnStop, checked, clicked, crashed} \subseteq BOOLEAN
    /\ connections \in 0 .. 1

(* However rows are added, renamed and removed, the list holds what the     *)
(* user made of it, and its current row is the one the user works on: a     *)
(* rename of the last row, and a removal of it, included.                   *)
ListIsWhatWasMeant ==
    /\ lw = meant
    /\ currentRow < Len(lw)
    /\ currentRow # -1 => lw[currentRow + 1] = selected
    /\ currentRow = -1 => selected = ""

(* The buttons offer what the timer allows: once started, exactly one of    *)
(* them is enabled, Stop while the timer runs; the bar shows the progress,  *)
(* and a timer that stops by itself has filled it.                          *)
ButtonsMatchTheTimer ==
    /\ active => ~btnStart /\ btnStop
    /\ ~active => btnStart /\ (btnStop => progress = 0)
    /\ pbar = IF progress > MaxProgress THEN MaxProgress ELSE progress
    /\ active => progress <= MaxProgress

(* A click prints once while the box is checked, and not at all while it is *)
(* not, however often it was checked and unchecked.                         *)
ClicksPrintOnce == clicked

QtWidgetsOK == ListIsWhatWasMeant /\ ButtonsMatchTheTimer /\ ClicksPrintOnce

-----------------------------------------------------------------------------
(* The snake game of the Qt examples (Libraries/qt5/zetcode/Ch13_Snake).    *)
(* One cell stands for Dot_Size_ pixels.  Ticks of the timer and key        *)
(* presses are events of one loop, in any order; several keys may be        *)
(* pressed between two ticks.  An element of x_ and y_ is unwritten until   *)
(* move() writes it, and what reading it gives is not determined.           *)
(* Bounds: SnakeTicks timer events, SnakeKeys key presses and SnakeDots     *)
(* dots; the board is SnakeBoard cells wide, and the apple of a snake of n  *)
(* dots falls on SnakeApples[n].                                            *)

CONSTANTS SnakeBoard, SnakeApples, SnakeTicks, SnakeKeys, SnakeDots

VARIABLES dots, body, apple, directions, inGame, ticks, keys, snakeStarted

snakeVars == <<dots, body, apple, directions, inGame, ticks, keys,
               snakeStarted>>

Unwritten == <<>>

(* Rand_Pos_ is one less than the width of the board. *)
AppleCells(n) == SnakeApples[n] \cap ((0 .. SnakeBoard - 2) \X (0 .. SnakeBoard - 2))

Step == [left |-> <<-1, 0>>, right |-> <<1, 0>>, up |-> <<0, -1>>, down |-> <<0, 1>>]

Opposite == [left |-> "right", right |-> "left", up |-> "down", down |-> "up"]

(* The flags that a key resets: those of the other axis. *)
Across == [left |-> {"up", "down"}, right |-> {"up", "down"},
           up |-> {"left", "right"}, down |-> {"left", "right"}]

SnakeInit ==
    /\ dots = 3 /\ inGame = TRUE /\ directions = {"right"} /\ ticks = 0 /\ keys = 0
    /\ body = [z \in 0 .. SnakeDots |-> IF z < 3 THEN <<5 - z, 5>> ELSE Unwritten]
    /\ apple = Unwritten /\ snakeStarted = FALSE

InitGame ==
    /\ ~snakeStarted /\ snakeStarted' = TRUE
    /\ apple' \in AppleCells(dots)
    /\ UNCHANGED <<dots, body, directions, inGame, ticks, keys>>

KeyPressEvent(key) ==
    /\ snakeStarted /\ keys < SnakeKeys /\ keys' = keys + 1
    /\ Opposite[key] \notin directions
    /\ directions' = (directions \ Across[key]) \cup {key}
    /\ UNCHANGED <<dots, body, apple, inGame, ticks, snakeStarted>>

CheckApple ==
    IF body[0] = apple
    THEN dots' = dots + 1 /\ apple' \in AppleCells(dots')
    ELSE UNCHANGED <<dots, apple>>

OnBoard(cell) == cell[1] \in 0 .. SnakeBoard - 1 /\ cell[2] \in 0 .. SnakeBoard - 1

(* What check_collision() finds at the n dots: the elements from the fifth  *)
(* on, the one behind the last dot included.                                *)
Collision(n) ==
    IF ~OnBoard(body[0]) \/ \E z \in 5 .. n : body[z] = body[0] THEN {TRUE}
    ELSE IF \E z \in 5 .. n : body[z] = Unwritten THEN BOOLEAN ELSE {FALSE}

\* Mutant: the elements five and six are not compared.
CollisionLate(n) ==
    IF ~OnBoard(body[0]) \/ \E z \in 7 .. n : body[z] = body[0] THEN {TRUE}
    ELSE IF \E z \in 7 .. n : body[z] = Unwritten THEN BOOLEAN ELSE {FALSE}

CheckCollision(n) == \E hit \in Collision(n) : inGame' = ~hit

Move(n) ==
    \E flag \in directions :
        body' = [z \in 0 .. SnakeDots |->
                    IF z = 0 THEN <<body[0][1] + Step[flag][1], body[0][2] + Step[flag][2]>>
                    ELSE IF z <= n THEN body[z - 1] ELSE body[z]]

TimerEvent ==
    /\ snakeStarted /\ inGame /\ ticks < SnakeTicks
    /\ ticks' = ticks + 1
    /\ body[0] = apple => dots < SnakeDots
    /\ CheckApple
    /\ CheckCollision(dots')
    /\ Move(dots')
    /\ UNCHANGED <<directions, keys, snakeStarted>>

SnakeNext ==
    \/ InitGame \/ TimerEvent
    \/ \E key \in DOMAIN Step : KeyPressEvent(key)

-----------------------------------------------------------------------------
SnakeTypeOK ==
    /\ dots \in 3 .. SnakeDots /\ ticks \in 0 .. SnakeTicks /\ keys \in 0 .. SnakeKeys
    /\ directions \subseteq DOMAIN Step /\ inGame \in BOOLEAN /\ snakeStarted \in BOOLEAN
    /\ apple \in {Unwritten} \cup AppleCells(dots)
    /\ DOMAIN body = 0 .. SnakeDots

(* Whatever keys were pressed between two ticks, exactly one direction flag *)
(* is up: move() shifts the head along one axis, by one cell.               *)
OneDirection == Cardinality(directions) = 1

Near(a, b) == <<a[1] - b[1], a[2] - b[2]>> \in {Step[d] : d \in DOMAIN Step}

(* The dots that do_draw draws were all written, and each lies next to the  *)
(* one before it: also those that an apple added, and after a reversal.     *)
SnakeIsConnected ==
    \A z \in 0 .. dots - 1 :
        /\ body[z] # Unwritten
        /\ z > 0 => Near(body[z], body[z - 1])

(* While the game runs, every dot behind the head is on the board, and two  *)
(* dots share a cell only if at most four apart: the collisions are checked *)
(* before the move, and for the elements after the fourth alone.            *)
OnlyShortLoops ==
    inGame => \A i \in 1 .. dots - 1 :
        /\ OnBoard(body[i])
        /\ \A j \in i + 5 .. dots - 1 : body[i] # body[j]

SnakeOK == OneDirection /\ SnakeIsConnected /\ OnlyShortLoops
=============================================================================
