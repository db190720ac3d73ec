--------------------------- MODULE DesignPatterns ---------------------------
(* Three programs of DesignPatterns/Behavioral: the chain of modifiers of a *)
(* creature (chain_of_resp_2.cpp), the chat room that mediates between      *)
(* people (mediator_1.cpp), and the lexer and parser of the interpreter     *)
(* (interpreter_1.cpp).  The first step chooses the program.                *)
(* Bounds: every modifier is added once, every person joins once (the       *)
(* program does neither twice), PatternOps operations, texts of at most     *)
(* TextMost characters.                                                     *)
EXTENDS Integers, Sequences, SequencesExt, FiniteSetsExt

CONSTANTS Modifiers,    \* the modifiers that can be added, by name
          ModifierKind, \* what each of them does: "double", "increase", "none"
          People, PersonName, Characters, TextMost, PatternOps

ASSUME ModifierKinds ==
    \A m \in Modifiers : ModifierKind[m] \in {"double", "increase", "none"}

VARIABLES pattern, next, added, creature, handled, room, chatLog, spoken, lexed, parsed, patternOps

chainVars == <<next, added, creature, handled>>
roomVars == <<room, chatLog, spoken>>
lexVars == <<lexed, parsed>>
patternVars == <<pattern, next, added, creature, handled, room, chatLog, spoken, lexed,
                 parsed, patternOps>>

Chained == Modifiers \cup {"root"}

NewCreature == [attack |-> 1, defence |-> 1]

PatternsInit ==
    /\ pattern = "none" /\ patternOps = 0
    /\ next = [m \in Chained |-> "nil"] /\ added = <<>>
    /\ creature = NewCreature /\ handled = -1
    /\ room = <<>> /\ chatLog = [p \in People |-> <<>>] /\ spoken = <<>>
    /\ lexed = [text |-> <<>>, tokens |-> <<>>] /\ parsed = "none"

StartPattern ==
    /\ pattern = "none" /\ pattern' \in {"chain", "room", "interpreter"}
    /\ UNCHANGED <<chainVars, roomVars, lexVars>>

-----------------------------------------------------------------------------
(* The chain of modifiers.                                                  *)
RECURSIVE EndOfChain(_, _)
EndOfChain(links, m) == IF links[m] = "nil" THEN m ELSE EndOfChain(links, links[m])

(* add() walks from the modifier it is called on to the end of its chain.   *)
AddModifier ==
    \E cm \in Modifiers \ Range(added), m \in {"root"} \cup Range(added) :
        /\ next' = [next EXCEPT ![EndOfChain(next, m)] = cm]
        /\ added' = Append(added, cm)
        /\ UNCHANGED <<creature, handled>>

\* Mutant: the new modifier is linked behind the one that add() was called on.
AddBehind ==
    \E cm \in Modifiers \ Range(added), m \in {"root"} \cup Range(added) :
        /\ next' = [next EXCEPT ![m] = cm, ![cm] = next[m]]
        /\ added' = Append(added, cm)
        /\ UNCHANGED <<creature, handled>>

Modified(kind, c) ==
    IF kind = "double" THEN [c EXCEPT !.attack = 2 * @]
    ELSE IF kind = "increase" /\ c.attack <= 2 THEN [c EXCEPT !.defence = @ + 1]
    ELSE c

(* handle(): each modifier acts and passes on, the one without bonuses does *)
(* neither.                                                                 *)
RECURSIVE Handle(_, _)
Handle(m, c) ==
    IF m = "nil" THEN c
    ELSE IF m # "root" /\ ModifierKind[m] = "none" THEN c
    ELSE Handle(next[m], IF m = "root" THEN c ELSE Modified(ModifierKind[m], c))

HandleCreature ==
    /\ handled = -1 /\ handled' = Len(added)
    /\ creature' = Handle("root", creature)
    /\ UNCHANGED <<next, added>>

ChainStep ==
    /\ pattern = "chain"
    /\ AddModifier \/ HandleCreature
    /\ UNCHANGED <<pattern, roomVars, lexVars>>

-----------------------------------------------------------------------------
(* The chat room.  A message is its origin's name and its number among all  *)
(* that were spoken; spoken also holds who was in the room.                 *)
Broadcast(origin, message, logs) ==
    [p \in People |-> IF p \in Range(room) /\ PersonName[p] # origin
                      THEN Append(logs[p], message) ELSE logs[p]]

Speak(origin, to) ==
    [origin |-> origin, to |-> to, number |-> Len(spoken) + 1, present |-> Range(room)]

Join(p) ==
    /\ p \notin Range(room)
    /\ spoken' = Append(spoken, Speak("room", "all"))
    /\ chatLog' = Broadcast("room", Len(spoken) + 1, chatLog)
    /\ room' = Append(room, p)

Say(p) ==
    /\ p \in Range(room)
    /\ spoken' = Append(spoken, Speak(PersonName[p], "all"))
    /\ chatLog' = Broadcast(PersonName[p], Len(spoken) + 1, chatLog)
    /\ UNCHANGED room

(* message(): to the first person of that name, if there is one.            *)
Message(p, who) ==
    /\ p \in Range(room)
    /\ spoken' = Append(spoken, Speak(PersonName[p], who))
    /\ chatLog' = [q \in People |->
            IF \E i \in DOMAIN room : /\ room[i] = q /\ PersonName[q] = who
                                     /\ \A j \in 1 .. i - 1 : PersonName[room[j]] # who
            THEN Append(chatLog[q], Len(spoken) + 1) ELSE chatLog[q]]
    /\ UNCHANGED room

RoomStep ==
    /\ pattern = "room"
    /\ \E p \in People :
        \/ Join(p) \/ Say(p)
        \/ \E who \in {PersonName[q] : q \in People} : Message(p, who)
    /\ UNCHANGED <<pattern, chainVars, lexVars>>

-----------------------------------------------------------------------------
(* The interpreter.  A token is its text; what is neither a sign nor a      *)
(* digit begins a number all the same.                                      *)
Signs == {"+", "-", "(", ")"}

Digits == {"1", "2"}

EndOfNumber(text, i) ==
    Max({j \in i .. Len(text) : \A k \in i + 1 .. j : text[k] \in Digits})

(* lex() from character i: a number is pushed when a character after it     *)
(* shows its end.                                                           *)
RECURSIVE Lex(_, _)
Lex(i, text) ==
    IF i > Len(text) THEN <<>>
    ELSE IF text[i] \in Signs THEN <<<<text[i]>>>> \o Lex(i + 1, text)
    ELSE IF EndOfNumber(text, i) = Len(text) THEN <<>>
    ELSE <<SubSeq(text, i, EndOfNumber(text, i))>> \o Lex(EndOfNumber(text, i) + 1, text)

\* Mutant: the character that ends a number is taken with it.
RECURSIVE LexPast(_, _)
LexPast(i, text) ==
    IF i > Len(text) THEN <<>>
    ELSE IF text[i] \in Signs THEN <<<<text[i]>>>> \o LexPast(i + 1, text)
    ELSE IF EndOfNumber(text, i) = Len(text) THEN <<>>
    ELSE <<SubSeq(text, i, EndOfNumber(text, i))>> \o LexPast(EndOfNumber(text, i) + 2, text)

(* The tokens between a parenthesis at the front and the first that closes. *)
Inside(tokens) ==
    LET closing == {j \in 1 .. Len(tokens) : tokens[j] = <<")">>}
    IN  SubSeq(tokens, 2, IF closing = {} THEN Len(tokens) ELSE Min(closing) - 1)

(* parse() returns within its loop, after the first token: an operation     *)
(* whose right side is null, and whose left side is null unless the token   *)
(* is a number or opens a parenthesis.  No token at all leaves the function *)
(* without a result; lexical_cast throws for a number that is none.         *)
RECURSIVE Parse(_)
Parse(tokens) ==
    IF tokens = <<>> THEN "undefined"
    ELSE IF tokens[1] = <<"(">>
         THEN IF Parse(Inside(tokens)) \in {"undefined", "throws"}
              THEN Parse(Inside(tokens)) ELSE "half an operation"
    ELSE IF tokens[1][1] \in Signs \cup Digits THEN "half an operation" ELSE "throws"

ReadText ==
    \E c \in Characters :
        /\ Len(lexed.text) < TextMost
        /\ lexed' = [text |-> Append(lexed.text, c), tokens |-> Lex(1, Append(lexed.text, c))]
        /\ parsed' = Parse(Lex(1, Append(lexed.text, c)))

LexStep ==
    /\ pattern = "interpreter"
    /\ ReadText
    /\ UNCHANGED <<pattern, chainVars, roomVars>>

PatternsNext ==
    /\ patternOps < PatternOps /\ patternOps' = patternOps + 1
    /\ StartPattern \/ ChainStep \/ RoomStep \/ LexStep

-----------------------------------------------------------------------------
PatternsTypeOK ==
    /\ pattern \in {"none", "chain", "room", "interpreter"}
    /\ next \in [Chained -> Chained \cup {"nil"}] /\ Range(added) \subseteq Modifiers
    /\ Range(room) \subseteq People /\ patternOps \in 0 .. PatternOps
    /\ \A p \in People : \A i \in DOMAIN chatLog[p] : chatLog[p][i] \in DOMAIN spoken
    /\ handled \in -1 .. Len(added)
    /\ parsed \in {"none", "undefined", "throws", "half an operation"}

(* Wherever in the chain add() was called, the modifiers act in the order   *)
(* they were added in: the attack is doubled by those before the one that   *)
(* grants no bonus, the defence grows where the attack was at most two.     *)
ActInOrder ==
    LET stops == {i \in 1 .. handled : ModifierKind[added[i]] = "none"}
        acted == IF stops = {} THEN 1 .. handled ELSE 1 .. Min(stops) - 1
        doubles(i) == Cardinality({j \in acted : j <= i /\ ModifierKind[added[j]] = "double"})
    IN  handled >= 0 =>
            creature = [attack |-> 2 ^ doubles(handled),
                        defence |-> 1 + Cardinality({i \in acted :
                            ModifierKind[added[i]] = "increase" /\ doubles(i) <= 1})]

(* Nobody reads what goes to others or, sent to all, what somebody of the   *)
(* same name says; whoever is in the room reads everything else that was    *)
(* said to all, once and in the order it was said, and a private message    *)
(* reaches one person of that name exactly if there is one.                 *)
RoomReadsInOrder ==
    /\ \A p \in People :
        SelectSeq(chatLog[p], LAMBDA n : spoken[n].to = "all") =
        SelectSeq([n \in DOMAIN spoken |-> n],
                  LAMBDA n : /\ spoken[n].to = "all" /\ p \in spoken[n].present
                             /\ spoken[n].origin # PersonName[p])
    /\ \A n \in DOMAIN spoken : spoken[n].to # "all" =>
        LET readers == {p \in People : Contains(chatLog[p], n)}
        IN  /\ Cardinality(readers) = IF \E p \in spoken[n].present :
                                            PersonName[p] = spoken[n].to THEN 1 ELSE 0
            /\ \A p \in readers : PersonName[p] = spoken[n].to

(* The tokens are the text cut into pieces, nothing lost and nothing twice, *)
(* but for a number at its very end, which gives no token.                  *)
TokensAreTheText ==
    LET kept == FlattenSeq(lexed.tokens)
        rest == SubSeq(lexed.text, Len(kept) + 1, Len(lexed.text))
    IN  /\ lexed.text = kept \o rest
        /\ rest # <<>> => /\ rest[1] \notin Signs
                          /\ \A i \in 2 .. Len(rest) : rest[i] \in Digits
        /\ \A i \in 2 .. Len(lexed.tokens) :
              lexed.tokens[i - 1][1] \in Signs \/ lexed.tokens[i][1] \notin Digits

DesignPatternsOK == ActInOrder /\ RoomReadsInOrder /\ TokensAreTheText

-----------------------------------------------------------------------------
(* The bank accounts of DesignPatterns/Behavioral: commands with an undo    *)
(* (command_3.cpp), composites of them that remember which succeeded        *)
(* (command_composite.cpp) and an account that keeps its history            *)
(* (memento.cpp).  The first step chooses the program and its commands;     *)
(* calls, undos and direct deposits and withdrawals then come in any order. *)
(* Bounds: Amounts, in hundreds, and BankOps operations.                    *)

CONSTANTS Accounts, Amounts, BankOps

VARIABLES bank, commands, balances, succeeded, before, lastOp, refused,
          balance, changes, current, branched, bankOps

compositeVars == <<commands, balances, succeeded, before, lastOp, refused>>
historyVars == <<balance, changes, current, branched>>
bankVars == <<bank, commands, balances, succeeded, before, lastOp, refused,
              balance, changes, current, branched, bankOps>>

OverdraftLimit == -5

Command == [account : Accounts, action : {"deposit", "withdraw"}, amount : Amounts]

NewAccounts == [a \in Accounts |-> 0]
NotYetCalled == <<FALSE, FALSE>>    \* succeeded of the two commands

BankInit ==
    /\ bank = "none" /\ bankOps = 0
    /\ commands = <<>> /\ balances = NewAccounts /\ succeeded = <<>>
    /\ before = balances /\ lastOp = "none" /\ refused = FALSE
    /\ balance = 1 /\ changes = <<1>> /\ current = 0 /\ branched = FALSE

Transfers == {<<[account |-> f, action |-> "withdraw", amount |-> n],
                [account |-> t, action |-> "deposit", amount |-> n]>> :
                    f \in Accounts, t \in Accounts, n \in Amounts}

StartCommands ==
    /\ bank = "none" /\ bank' \in {"commands", "composite", "dependent"}
    /\ commands' \in Transfers \cup {<<c, d>> : c \in Command, d \in Command}
    /\ succeeded' = NotYetCalled
    /\ UNCHANGED <<balances, before, lastOp, refused, historyVars>>

StartHistory ==
    /\ bank = "none" /\ bank' = "history"
    /\ UNCHANGED <<compositeVars, historyVars>>

-----------------------------------------------------------------------------
(* The account: what a deposit or a withdrawal leaves, and whether it was   *)
(* done.                                                                    *)
Done(action, amount, held) == action = "deposit" \/ held - amount >= OverdraftLimit

Held(action, amount, held) ==
    IF action = "deposit" THEN held + amount
    ELSE IF held - amount >= OverdraftLimit THEN held - amount ELSE held

Reverses(action) == IF action = "deposit" THEN "withdraw" ELSE "deposit"

Apply(c, action, held) == [held EXCEPT ![c.account] = Held(action, c.amount, @)]

(* One command of a composite: what it leaves, and the flag it sets.        *)
CallOne(acc, c) ==
    [held |-> Apply(c, c.action, acc.held),
     flags |-> Append(acc.flags, Done(c.action, c.amount, acc.held[c.account]))]

CallEach(cmds, held) == FoldLeft(CallOne, [held |-> held, flags |-> <<>>], cmds)

(* The dependent composite calls no command after one that failed.          *)
CallDependent(cmds, held) ==
    FoldLeft(LAMBDA acc, c : IF FALSE \in {acc.flags[i] : i \in DOMAIN acc.flags}
                             THEN [acc EXCEPT !.flags = Append(@, FALSE)]
                             ELSE CallOne(acc, c),
             [held |-> held, flags |-> <<>>], cmds)

CallAll(cmds, held) ==
    IF bank = "dependent" THEN CallDependent(cmds, held) ELSE CallEach(cmds, held)

(* One command of a composite is undone if it succeeded.                    *)
UndoOne(c, flag, held) == IF flag THEN Apply(c, Reverses(c.action), held) ELSE held

\* Mutant: undo goes over the commands that succeeded in the order of the call.
UndoForwards(cmds, flags, held) ==
    FoldLeft(LAMBDA acc, i : UndoOne(cmds[i], flags[i], acc),
             held, [i \in 1 .. Len(cmds) |-> i])

(* The composites undo backwards, the commands of command_3, which keep no  *)
(* flags, all of them in the order of the call.                             *)
UndoBackwards(cmds, flags, held) ==
    FoldRight(LAMBDA i, acc : UndoOne(cmds[i], flags[i], acc),
              [i \in 1 .. Len(cmds) |-> i], held)

UndoEach(cmds, held) == FoldLeft(LAMBDA acc, c : UndoOne(c, TRUE, acc), held, cmds)

UndoAll(cmds, flags, held) ==
    IF bank = "commands" THEN UndoEach(cmds, held) ELSE UndoBackwards(cmds, flags, held)

(* Whether an undo of command_3 meets a withdrawal that the account refuses. *)
Refusal(flags, held) ==
    LET states == [i \in 0 .. Len(commands) |->
            FoldLeft(LAMBDA acc, c : Apply(c, Reverses(c.action), acc),
                     held, SubSeq(commands, 1, i))]
    IN  \/ \E i \in 1 .. Len(flags) : ~flags[i]
        \/ \E i \in 1 .. Len(commands) :
               ~Done(Reverses(commands[i].action), commands[i].amount,
                     states[i - 1][commands[i].account])

CallCommands ==
    \E r \in {CallAll(commands, balances)} :
        /\ before' = balances /\ lastOp' = "call"
        /\ balances' = r.held /\ succeeded' = r.flags
        /\ refused' = Refusal(r.flags, r.held)
        /\ UNCHANGED commands

Undo ==
    /\ balances' = UndoAll(commands, succeeded, balances)
    /\ lastOp' = IF lastOp = "call" THEN "undo" ELSE "other"
    /\ UNCHANGED <<commands, succeeded, before, refused>>

Direct ==
    /\ lastOp # "call"
    /\ \E c \in Command : balances' = Apply(c, c.action, balances)
    /\ lastOp' = "other"
    /\ UNCHANGED <<commands, succeeded, before, refused>>

CompositeStep ==
    /\ bank \notin {"none", "history"}
    /\ CallCommands \/ Undo \/ Direct
    /\ UNCHANGED <<bank, historyVars>>

-----------------------------------------------------------------------------
(* The account with a history.  branched says that a deposit came after an  *)
(* undo: it is appended behind the changes that were undone, and current_   *)
(* then counts one of those.                                                *)
Deposit ==
    /\ \E amount \in Amounts :
        /\ balance' = balance + amount
        /\ changes' = Append(changes, balance')
    /\ current' = current + 1
    /\ branched' = (current + 1 < Len(changes))

RestoreChange ==
    \E i \in 1 .. Len(changes) :
        /\ balance' = changes[i]
        /\ changes' = Append(changes, changes[i])
        /\ current' = Len(changes') - 1 /\ branched' = FALSE

UndoChange ==
    /\ current > 0
    /\ current' = current - 1 /\ balance' = changes[current' + 1]
    /\ branched' = FALSE /\ UNCHANGED changes

RedoChange ==
    /\ current + 1 < Len(changes)
    /\ current' = current + 1 /\ balance' = changes[current' + 1]
    /\ branched' = FALSE /\ UNCHANGED changes

HistoryStep ==
    /\ bank = "history"
    /\ Deposit \/ RestoreChange \/ UndoChange \/ RedoChange
    /\ UNCHANGED <<bank, compositeVars>>

BankNext ==
    /\ bankOps < BankOps /\ bankOps' = bankOps + 1
    /\ StartCommands \/ StartHistory \/ CompositeStep \/ HistoryStep

-----------------------------------------------------------------------------
BankTypeOK ==
    /\ bank \in {"none", "commands", "composite", "dependent", "history"}
    /\ \A i \in 1 .. Len(commands) : commands[i] \in Command
    /\ balances \in [Accounts -> Int] /\ before \in [Accounts -> Int]
    /\ \A i \in 1 .. Len(succeeded) : succeeded[i] \in BOOLEAN
    /\ lastOp \in {"none", "call", "undo", "other"} /\ refused \in BOOLEAN
    /\ balance \in Int /\ current \in 0 .. Len(changes) - 1
    /\ branched \in BOOLEAN /\ bankOps \in 0 .. BankOps

(* An undo right after a call restores every account, whichever commands    *)
(* the call could do and whatever happened before it; the commands of       *)
(* command_3, which keep no flags, do so when no withdrawal was refused.    *)
UndoRestores ==
    lastOp = "undo" /\ (bank = "commands" => ~refused) => balances = before

(* What a dependent composite did is a prefix of its commands: a transfer   *)
(* that could not withdraw does not deposit.                                *)
DoneIsAPrefix ==
    bank = "dependent" =>
        \A i, j \in 1 .. Len(succeeded) : i < j /\ succeeded[j] => succeeded[i]

TotalOf(held) == LET sum[S \in SUBSET Accounts] ==
                         IF S = {} THEN 0
                         ELSE LET a == CHOOSE x \in S : TRUE IN held[a] + sum[S \ {a}]
                 IN  sum[Accounts]

(* A transfer moves money or does nothing: the call leaves the sum of the   *)
(* accounts, and no account is ever below the limit.                        *)
TransfersKeepTheSum ==
    /\ bank = "dependent" /\ commands \in Transfers /\ lastOp = "call" =>
           TotalOf(balances) = TotalOf(before)
    /\ \A a \in Accounts : balances[a] >= OverdraftLimit

(* The balance is the one that the current change holds, so that undo and   *)
(* redo walk along what was there, except right after a deposit that        *)
(* followed an undo.                                                        *)
BalanceIsCurrent == branched \/ balance = changes[current + 1]

BankCommandsOK ==
    UndoRestores /\ DoneIsAPrefix /\ TransfersKeepTheSum /\ BalanceIsCurrent
=============================================================================
