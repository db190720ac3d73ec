----------------------------- MODULE Calculator -----------------------------
(***************************************************************************)
(* Parsers/Calculator: statements read from a token stream with one token  *)
(* of putback, evaluated as they are parsed.  run catches what a statement *)
(* throws and skips to the next ';'.  Values are rationals <<n, d>>, d > 0 *)
(* (the code has doubles).                                                 *)
(***************************************************************************)
EXTENDS TextStream, Integers, TLC

CONSTANTS CalcStatements,   \* what a text is made of: [text, kind], see CalcAnswers
          CalcMax           \* bound: statements of a text

VARIABLES calcText,     \* the statements of the text
          tokens,       \* ts_: the stream, full_ and buffer_
          varmap,       \* varmap_
          calcOut,      \* the results shown
          calcPhase     \* what run does

calcVars == <<calcText, tokens, varmap, calcOut, calcPhase>>

CalcNames == {"a", "b", "e", "Pi"}
CalcNumbers == [n \in {"2", "3", "4", "7"} |->
    CASE n = "2" -> 2 [] n = "3" -> 3 [] n = "4" -> 4 [] n = "7" -> 7]
CalcChars == {"(", ")", "+", "-", "*", "/", "%", "=", ";"}

Ratio(n, d) == IF d < 0 THEN <<-n, -d>> ELSE <<n, d>>
Plus(p, q) == Ratio(p[1] * q[2] + q[1] * p[2], p[2] * q[2])
Negated(p) == <<-p[1], p[2]>>
Times(p, q) == Ratio(p[1] * q[1], p[2] * q[2])
Over(p, q) == Ratio(p[1] * q[2], p[2] * q[1])
Truncated(p) == IF p[1] < 0 THEN -((-p[1]) \div p[2]) ELSE p[1] \div p[2]   \* static_cast<int>
Remainder(i, j) ==      \* of the sign of i
    LET abs(x) == IF x < 0 THEN -x ELSE x
        r == abs(i) % abs(j)
    IN  <<IF i < 0 THEN -r ELSE r, 1>>
Same(p, q) == p[1] * q[2] = q[1] * p[2]

(* A call returns, throws, or reads an indeterminate char *)
Yields(s, v) == [s |-> s, v |-> v, err |-> "none"]
Fails(s, err) == [s |-> s, v |-> 0, err |-> err]
AndThen(r, F(_, _)) == IF r.err = "none" THEN F(r.s, r.v) ELSE r

-----------------------------------------------------------------------------
(* A Token holds a double or a string in a union, by its kind; the string  *)
(* is built and destroyed by hand, and by ~Token for a Name.  holds is the *)
(* member that is alive.                                                   *)
MemberOf(k) == CASE k = "Number" -> "value_" [] k = "Name" -> "name_" [] OTHER -> "nothing"
NewToken(k) ==      \* a kind alone leaves 0 in value_
    [kind |-> k, holds |-> IF k = "Name" THEN "name_" ELSE "value_"]
CopyUnion(k, old) == IF MemberOf(k) = "nothing" THEN old ELSE MemberOf(k)
MoveUnion(k, old) == IF MemberOf(k) = "nothing" THEN old ELSE MemberOf(k)
CopiedToken(t) == [kind |-> t.kind, holds |-> CopyUnion(t.kind, "nothing")]
MovedToken(t) == [kind |-> t.kind, holds |-> MoveUnion(t.kind, "nothing")]
BothNames(t, rhs) == t.kind = "Name" /\ rhs.kind = "Name"     \* the strings are assigned
AssignToken(t, rhs) ==
    LET destroyed == IF t.kind = "Name" /\ rhs.kind # "Name" THEN "nothing" ELSE t.holds
    IN  [kind |-> rhs.kind,
         holds |-> IF BothNames(t, rhs) THEN t.holds ELSE CopyUnion(rhs.kind, destroyed)]
MoveAssignToken(t, rhs) ==
    LET destroyed == IF t.kind = "Name" /\ rhs.kind # "Name" THEN "nothing" ELSE t.holds
    IN  [kind |-> rhs.kind,
         holds |-> IF BothNames(t, rhs) THEN t.holds ELSE MoveUnion(rhs.kind, destroyed)]

-----------------------------------------------------------------------------
(* VariableMap *)
DefineVariable(s, vars, name, d) ==
    IF name \in DOMAIN vars THEN Fails(s, "Redefinition")
    ELSE Yields(s, [value |-> d, vars |-> (name :> d) @@ vars])
GetVariable(s, vars, name) ==
    IF name \in DOMAIN vars THEN Yields(s, vars[name]) ELSE Fails(s, "Undefined variable")

-----------------------------------------------------------------------------
(* TokenStream::get: at the end of the text ch is read without having been *)
(* assigned.                                                               *)
CalcGet(ts) ==
    LET in == ts.in
        start == SelectInSubSeq(in.text, in.pos, Len(in.text), LAMBDA c : ~IsSpace(c))
        ch == in.text[start]
        read == [in EXCEPT !.pos = start + 1]
        keep(s) == [ts EXCEPT !.in = s]
    IN  CASE ts.full -> Yields([ts EXCEPT !.full = FALSE], ts.buffer)
          [] ~ts.full /\ (~Good(in) \/ start = 0) -> Fails(ts, "indeterminate")
          [] ~ts.full /\ Good(in) /\ start > 0 ->
                CASE ch \in CalcChars -> Yields(keep(read), <<ch, "">>)
                  [] ch \in DOMAIN CalcNumbers ->
                        Yields(keep(GetNumber([in EXCEPT !.pos = start])), <<"number", ch>>)
                  [] ch = "." ->      \* alone: 0 and the failbit
                        Yields(keep([read EXCEPT !.fail = TRUE]), <<"number", ch>>)
                  [] ch \in {"let", "quit"} -> Yields(keep(EndOfWord(read)), <<ch, "">>)
                  [] ch \in CalcNames -> Yields(keep(EndOfWord(read)), <<"name", ch>>)
                  [] OTHER -> Fails(keep(read), "Bad Token")

CalcPutback(ts, tok) ==
    IF ts.full THEN Fails(ts, "logic_error")
    ELSE Yields([ts EXCEPT !.full = TRUE, !.buffer = tok], tok)

(* ignore(Print) *)
RECURSIVE SkipToPrint(_)
SkipToPrint(ts) ==
    AndThen(CalcGet(ts), LAMBDA s, tok : IF tok[1] = ";" THEN Yields(s, tok) ELSE SkipToPrint(s))
\* Mutant: the buffer is emptied without a look at what it holds
IgnoreFromTheStream(ts) == SkipToPrint([ts EXCEPT !.full = FALSE])
CalcIgnore(ts) ==
    IF ts.full /\ ts.buffer[1] = ";" THEN Yields([ts EXCEPT !.full = FALSE], ts.buffer)
    ELSE SkipToPrint([ts EXCEPT !.full = FALSE])

-----------------------------------------------------------------------------
(* The grammar, with the variables vars *)
RECURSIVE CalcExpression(_, _), Sum(_, _, _), Term(_, _), Product(_, _, _), Primary(_, _)

CalcExpression(ts, vars) == AndThen(Term(ts, vars), LAMBDA s, left : Sum(s, left, vars))
Sum(ts, left, vars) ==
    AndThen(CalcGet(ts), LAMBDA s, tok :
        CASE tok[1] = "+" -> AndThen(Term(s, vars), LAMBDA t, d : Sum(t, Plus(left, d), vars))
          [] tok[1] = "-" -> AndThen(Term(s, vars),
                              LAMBDA t, d : Sum(t, Plus(left, Negated(d)), vars))
          [] OTHER -> AndThen(CalcPutback(s, tok), LAMBDA t, any : Yields(t, left)))

Term(ts, vars) == AndThen(Primary(ts, vars), LAMBDA s, left : Product(s, left, vars))
(* What stands to the right of a % is a whole term *)
Product(ts, left, vars) ==
    AndThen(CalcGet(ts), LAMBDA s, tok :
        CASE tok[1] = "*" -> AndThen(Primary(s, vars),
                                     LAMBDA t, d : Product(t, Times(left, d), vars))
          [] tok[1] = "/" ->
                AndThen(Primary(s, vars), LAMBDA t, d :
                    IF d[1] = 0 THEN Fails(t, "divide by zero")
                     ELSE Product(t, Over(left, d), vars))
          [] tok[1] = "%" ->
                AndThen(Term(s, vars), LAMBDA t, d :
                    IF Truncated(d) = 0 THEN Fails(t, "divide by zero")
                    ELSE Product(t, Remainder(Truncated(left), Truncated(d)), vars))
          [] OTHER -> AndThen(CalcPutback(s, tok), LAMBDA t, any : Yields(t, left)))

Primary(ts, vars) ==
    AndThen(CalcGet(ts), LAMBDA s, tok :
        CASE tok[1] = "(" ->
                AndThen(CalcExpression(s, vars), LAMBDA t, d :
                    AndThen(CalcGet(t), LAMBDA u, close :
                        IF close[1] = ")" THEN Yields(u, d) ELSE Fails(u, "')' expected")))
          [] tok[1] = "number" -> Yields(s, <<IF tok[2] = "." THEN 0 ELSE CalcNumbers[tok[2]], 1>>)
          [] tok[1] = "name" -> GetVariable(s, vars, tok[2])
          [] tok[1] = "-" -> AndThen(Primary(s, vars), LAMBDA t, d : Yields(t, Negated(d)))
          [] tok[1] = "+" -> Primary(s, vars)
          [] OTHER -> Fails(s, "primary expected"))

(* The value and the variables after it; the expression comes first and    *)
(* then the insertion that fails for a name that is there.                 *)
CalcDeclaration(ts, vars) ==
    AndThen(CalcGet(ts), LAMBDA s, tok :
        IF tok[1] # "name" THEN Fails(s, "Name expected")
        ELSE AndThen(CalcGet(s), LAMBDA t, eq :
             IF eq[1] # "=" THEN Fails(t, "= missing")
             ELSE AndThen(CalcExpression(t, vars),
                          LAMBDA u, d : DefineVariable(u, vars, tok[2], d))))

Statement(ts, vars) ==
    AndThen(CalcGet(ts), LAMBDA s, tok :
        IF tok[1] = "let" THEN CalcDeclaration(s, vars)
        ELSE AndThen(CalcPutback(s, tok), LAMBDA t, any :
             AndThen(CalcExpression(t, vars),
                      LAMBDA u, d : Yields(u, [value |-> d, vars |-> vars]))))

RECURSIVE FirstToken(_)     \* of a statement: what comes after any ';'
FirstToken(ts) ==
    AndThen(CalcGet(ts), LAMBDA s, tok : IF tok[1] = ";" THEN FirstToken(s) ELSE Yields(s, tok))

-----------------------------------------------------------------------------
Predefined == [x \in {"Pi", "e"} |-> IF x = "Pi" THEN <<22, 7>> ELSE <<19, 7>>]

NewTokenStream(text) == [in |-> OpenText(text), full |-> FALSE, buffer |-> <<"", "">>]

CalcInit ==
    /\ calcText = <<>> /\ tokens = NewTokenStream(<<>>)
    /\ varmap = Predefined /\ calcOut = <<>> /\ calcPhase = "start"

(* A text is statements, each with its ';'; then quit, nothing, or a       *)
(* statement and one more token without a ';'.                             *)
Unfinished == [kind |-> "unfinished", text |-> <<"2", " ", "3">>]
CalcLexemes(st) == IF st = Unfinished THEN st.text ELSE st.text \o <<";", " ">>
CalcStart ==
    /\ calcPhase = "start"
    /\ \E n \in 1..CalcMax : \E sts \in [1..n -> CalcStatements], quit, more \in BOOLEAN :
          /\ quit => ~more
          /\ calcText' = IF more THEN Append(sts, Unfinished) ELSE sts
          /\ tokens' = [tokens EXCEPT !.in = OpenText(
                FlattenSeq([i \in DOMAIN calcText' |-> CalcLexemes(calcText'[i])])
                    \o (IF quit THEN <<"quit", "nl">> ELSE <<>>))]
    /\ calcPhase' = "run"
    /\ UNCHANGED <<varmap, calcOut>>

(* One turn of the loop of run: a statement, and the handler of what it    *)
(* throws.  What the handler itself throws ends the program.               *)
Turn(ts, vars) ==
    AndThen(FirstToken(ts), LAMBDA s, tok :
        IF tok[1] = "quit" THEN Fails(s, "quit")
        ELSE AndThen(CalcPutback(s, tok), LAMBDA t, any : Statement(t, vars)))
Recovered(ts) ==        \* the handler, and what its own exception does
    LET s == CalcIgnore(ts)
    IN  [tokens |-> s.s, phase |-> CASE s.err = "none" -> "run"
                                     [] s.err = "indeterminate" -> "undefined"
                                     [] OTHER -> "exit 1"]
CalcTurn ==
    /\ calcPhase = "run" /\ Good(tokens.in)
    /\ \E r \in {Turn(tokens, varmap)} :
          IF r.err \in {"none", "quit", "indeterminate"}
          THEN /\ tokens' = r.s
               /\ calcPhase' = CASE r.err = "none" -> "run" [] r.err = "quit" -> "quit"
                                 [] r.err = "indeterminate" -> "undefined"
               /\ varmap' = IF r.err = "none" THEN r.v.vars ELSE varmap
               /\ calcOut' = IF r.err = "none" THEN Append(calcOut, r.v.value) ELSE calcOut
          ELSE \E h \in {Recovered(r.s)} :
               /\ tokens' = h.tokens /\ calcPhase' = h.phase
               /\ UNCHANGED <<varmap, calcOut>>
    /\ UNCHANGED calcText

CalcEnd ==      \* while(ts_)
    /\ calcPhase = "run" /\ ~Good(tokens.in) /\ calcPhase' = "exit 0"
    /\ UNCHANGED <<calcText, tokens, varmap, calcOut>>

CalcNext == CalcStart \/ CalcTurn \/ CalcEnd

-----------------------------------------------------------------------------
CalcTypeOK ==
    /\ calcPhase \in {"start", "run", "quit", "undefined", "exit 0", "exit 1"}
    /\ DOMAIN varmap \subseteq CalcNames
    /\ \A x \in DOMAIN varmap : varmap[x][1] \in Int /\ varmap[x][2] \in Nat \ {0}

(* A statement by its last operator outside parentheses: the grammar of    *)
(* the opening comment without its tokens, except that the first % of a    *)
(* term has all the rest of the term to its right, not a primary.          *)
Depth(t, i) ==
    Cardinality({j \in 1..i : t[j] = "("}) - Cardinality({j \in 1..(i - 1) : t[j] = ")"})
Binary(t, ops) ==
    {i \in 2..Len(t) : /\ t[i] \in ops /\ Depth(t, i) = 0
                       /\ t[i - 1] \in DOMAIN CalcNumbers \cup CalcNames \cup {")"}}
LastOf(s) == CHOOSE i \in s : \A j \in s : j <= i
FirstOf(s) == CHOOSE i \in s : \A j \in s : i <= j
RECURSIVE Meaning(_, _)      \* <<>> without one
Meaning(t, vars) ==
    LET sums == Binary(t, {"+", "-"})
        products == Binary(t, {"*", "/", "%"})
        modulos == Binary(t, {"%"})
        i == IF sums # {} THEN LastOf(sums)
             ELSE IF modulos # {} THEN FirstOf(modulos) ELSE LastOf(products)
        l == Meaning(SubSeq(t, 1, i - 1), vars)
        r == Meaning(SubSeq(t, i + 1, Len(t)), vars)
        unary == Meaning(Tail(t), vars)
    IN  CASE sums # {} \/ products # {} ->
                IF l = <<>> \/ r = <<>> THEN <<>>
                ELSE (CASE t[i] = "+" -> Plus(l, r)
                        [] t[i] = "-" -> Plus(l, Negated(r))
                        [] t[i] = "*" -> Times(l, r)
                        [] t[i] = "/" -> IF r[1] = 0 THEN <<>> ELSE Over(l, r)
                        [] t[i] = "%" -> IF Truncated(r) = 0 THEN <<>>
                                         ELSE Remainder(Truncated(l), Truncated(r)))
          [] OTHER ->
                CASE t[1] = "+" -> unary
                  [] t[1] = "-" -> IF unary = <<>> THEN <<>> ELSE Negated(unary)
                  [] t[1] = "(" -> Meaning(SubSeq(t, 2, Len(t) - 1), vars)
                  [] t[1] \in DOMAIN CalcNumbers -> <<CalcNumbers[t[1]], 1>>
                  [] t[1] \in CalcNames -> IF t[1] \in DOMAIN vars THEN vars[t[1]] ELSE <<>>

(* The program statement by statement: a "value" is shown if it has a      *)
(* meaning, a "let" also defines its name if that is new; an "incomplete"  *)
(* statement takes the ';' for a part of itself, and the handler skips the *)
(* next statement too; a second bad character, in an "unreadable" one,     *)
(* ends the program; a "lone point" leaves a stream that is read no more.  *)
CalcAnswers ==
    LET step(acc, st) ==
            LET letting == st.kind = "let"
                v == Meaning(CASE letting -> SubSeq(st.text, 5, Len(st.text))
                               [] st = Unfinished -> <<Head(st.text)>>
                               [] OTHER -> st.text, acc.vars)
                shown == v # <<>> /\ (letting => st.text[3] \notin DOMAIN acc.vars)
            IN  IF acc.ended \/ acc.lost THEN acc
                ELSE IF st.kind = "lone point" THEN [acc EXCEPT !.lost = TRUE]
                ELSE IF acc.skip
                THEN [acc EXCEPT !.skip = FALSE,
                                 !.ended = (st.kind \in {"bad character", "unreadable"})]
                ELSE CASE st.kind = "incomplete" -> [acc EXCEPT !.skip = TRUE]
                       [] st.kind = "bad character" -> acc
                       [] st.kind = "unreadable" -> [acc EXCEPT !.ended = TRUE]
                       [] OTHER -> IF ~shown THEN acc
                                   ELSE [acc EXCEPT !.out = Append(@, v),
                                          !.vars = IF letting THEN (st.text[3] :> v) @@ @ ELSE @]
    IN  FoldLeft(step, [out |-> <<>>, vars |-> Predefined,
                        skip |-> FALSE, ended |-> FALSE, lost |-> FALSE], calcText)

(* At the end of its text the calculator has shown the value the grammar   *)
(* gives each statement, through errors, redefinitions and skipped         *)
(* statements, and its variables hold no half-made declaration.            *)
CalcShowsTheMeaning ==
    calcPhase \in {"quit", "undefined", "exit 0", "exit 1"} =>
    /\ Len(calcOut) = Len(CalcAnswers.out)
    /\ \A i \in DOMAIN calcOut : Same(calcOut[i], CalcAnswers.out[i])
    /\ varmap = CalcAnswers.vars
    /\ (calcPhase = "exit 1") <=> CalcAnswers.ended

(* The one token of putback is enough: between statements only the token   *)
(* that ended the last one is in the buffer.                               *)
OnePutbackIsEnough ==
    calcPhase = "run" /\ tokens.full => tokens.buffer[1] = ";" \/ ~Good(tokens.in)

(* However tokens are made of each other - copied, moved and assigned over *)
(* tokens of any kind, themselves included -, a string is alive in a token *)
(* exactly when its kind is Name: none is lost, destroyed twice or read    *)
(* after its end; and a Number has its double.                             *)
TokenKinds == {"Number", "Name", "Print", "Quit"}
MadeFrom(ts) ==
    ts \cup {CopiedToken(t) : t \in ts} \cup {MovedToken(t) : t \in ts}
       \cup {AssignToken(t, u) : t \in ts, u \in ts}
       \cup {MoveAssignToken(t, u) : t \in ts, u \in ts}
TokensMade == MadeFrom(MadeFrom(MadeFrom({NewToken(k) : k \in TokenKinds})))
TokenStringsAreKept ==
    \A t \in TokensMade :
        /\ t.holds = "name_" <=> t.kind = "Name"
        /\ t.kind = "Number" => t.holds = "value_"

CalculatorOK == TokenStringsAreKept /\ CalcShowsTheMeaning /\ OnePutbackIsEnough
=============================================================================
