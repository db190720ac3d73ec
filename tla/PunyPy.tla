------------------------------- MODULE PunyPy -------------------------------
(***************************************************************************)
(* Parsers/Punypy-parser: a scanner with one token of lookahead, a         *)
(* recursive descent parser, an analysis that fills a PunyPyWorld, and an  *)
(* interpreter.  main parses the whole text into productions, analyses     *)
(* them in order and interprets them in order.                             *)
(***************************************************************************)
EXTENDS TextStream, TLC

CONSTANTS PunyLines,    \* lines a text is made of: [text, proper, prod]
          PunyMax       \* bound: lines of a text

VARIABLES punyLines,    \* the lines of the text
          scanner,      \* the stream, full_ and buffer_
          prods,        \* productions
          world,        \* variables_ and functions_
          at,           \* the production that is next
          punyPhase,    \* what main does
          analysed,     \* history: no exception came out of the analysis
          printed       \* what the buildin print was called with

punyVars == <<punyLines, scanner, prods, world, at, punyPhase, analysed, printed>>

Words == {"def", "f", "g", "x", "y", "print"}
ValueOf == [n \in {"1", "2", "3"} |-> CASE n = "1" -> 1 [] n = "2" -> 2 [] n = "3" -> 3]
Chars == {"(", ")", "+", "-", ":", ",", "="}
Token(kind, val) == [kind |-> kind, val |-> val]

(* A call returns a value, throws, or reads an indeterminate char *)
Returns(s, v) == [s |-> s, v |-> v, err |-> "none"]
Throws(s, err) == [s |-> s, v |-> <<>>, err |-> err]
Then(r, F(_, _)) == IF r.err = "none" THEN F(r.s, r.v) ELSE r
Expected(r, kind) ==
    IF r.err = "none" /\ r.v.kind # kind THEN Throws(r.s, "Bad_token") ELSE r

-----------------------------------------------------------------------------
(* Scanner::get without a buffered token.  After an identifier or an       *)
(* indentation at the very end the stream has failed without its eofbit,   *)
(* and ch is read without having been assigned.                            *)
RECURSIVE Scan(_)
AfterNewlines(t) ==
    IF ~Good(t) THEN Returns(t, Token("Eof", ""))
    ELSE IF IsSpace(CharOf(t))
    THEN Returns(StreamPutback(GetWhile(t, Spaces)), Token("Indent", ""))
    ELSE Scan(StreamPutback(t))
AfterSpaces(s, other) ==    \* other: the next character that is no space
    Scan(IF other = 0 THEN [s EXCEPT !.pos = Len(s.text) + 1, !.eof = TRUE]
         ELSE [s EXCEPT !.pos = other])
Switch(in, s, ch) ==
    CASE ch \in Chars -> Returns(s, Token(ch, ""))
      [] ch \in DOMAIN ValueOf -> Returns(GetNumber(in), Token("Int", ch))
      [] ch = "nl" -> AfterNewlines(GetWhile(s, {"nl"}))
      [] ch \in Words ->
            Returns(EndOfWord(s), IF ch = "def" THEN Token("Def", "") ELSE Token("Name", ch))
      [] ch = " " ->
            AfterSpaces(s, SelectInSubSeq(s.text, s.pos, Len(s.text), LAMBDA c : c # " "))
      [] OTHER -> Throws(s, "Invalid Token")
Got(in, s) ==
    CASE s.eof -> Returns(s, Token("Eof", ""))
      [] ~s.eof /\ s.fail -> Throws(s, "indeterminate")
      [] Good(s) -> Switch(in, s, CharOf(s))
Scan(in) == Got(in, StreamGet(in))

InScanner(sc, r) == [r EXCEPT !.s = [sc EXCEPT !.in = r.s]]
Get(sc) ==
    IF sc.full THEN Returns([sc EXCEPT !.full = FALSE], sc.buffer)
    ELSE InScanner(sc, Scan(sc.in))
Peek(sc) ==
    Then(Get(sc), LAMBDA s, tok : Returns([s EXCEPT !.full = TRUE, !.buffer = tok], tok))
Ignore(sc) == [sc EXCEPT !.full = FALSE]    \* ignore(kind) of the token that was peeked

-----------------------------------------------------------------------------
(* The productions, and the parser that makes them *)
IntProd(n) == <<"int", n>>
VarProd(x) == <<"var", x>>
PlusProd(lhs, rhs) == <<"plus", lhs, rhs>>
CallProd(f, params) == <<"call", f, params>>
DeclProd(x, e) == <<"decl", x, e>>
DefProd(f, params, body) == <<"def", f, params, body>>
EofProd == <<"eof">>

RECURSIVE Expression(_), Operand(_, _)
Operand(sc, left) ==     \* expression(name), plus
    Then(Peek(sc), LAMBDA s, tok :
        IF tok.kind # "+" THEN Returns(s, left)
        ELSE Then(Expression(Ignore(s)), LAMBDA t, right : Returns(t, PlusProd(left, right))))
Expression(sc) ==
    Then(Get(sc), LAMBDA s, tok :
        CASE tok.kind = "Name" -> Operand(s, VarProd(tok.val))
          [] tok.kind = "Int" -> Operand(s, IntProd(tok.val))
          [] OTHER -> Throws(s, "Bad_token"))

RECURSIVE Parameter(_, _)
Parameter(sc, params) ==
    Then(Expression(sc), LAMBDA s, e :
        Then(Peek(s), LAMBDA t, tok :
            CASE tok.kind = "," -> Parameter(Ignore(t), Append(params, e))
              [] tok.kind = ")" -> Returns(t, Append(params, e))
              [] OTHER -> Throws(t, "Bad_token")))
Parameters(sc) ==
    Then(Peek(sc), LAMBDA s, tok : IF tok.kind = ")" THEN Returns(s, <<>>) ELSE Parameter(s, <<>>))

FunctionCall(sc, name) ==
    Then(Expected(Get(sc), "("), LAMBDA s, anys :
        Then(Parameters(s), LAMBDA t, params :
            Then(Expected(Get(t), ")"), LAMBDA u, anyu : Returns(u, CallProd(name, params)))))

Declaration(sc, name) ==
    Then(Expected(Get(sc), "="), LAMBDA s, anys :
        Then(Expression(s), LAMBDA t, e : Returns(t, DeclProd(name, e))))

RECURSIVE Body(_, _)
BodyProduction(sc) ==
    Then(Peek(sc), LAMBDA s, tok :
        CASE tok.kind = "Int" -> Expression(s)
          [] tok.kind = "Name" ->
                Then(Peek(Ignore(s)), LAMBDA t, next :
                    IF next.kind = "(" THEN FunctionCall(t, tok.val)
                    ELSE Operand(t, VarProd(tok.val)))
          [] OTHER -> Throws(s, "Bad_token"))
Body(sc, body) ==
    Then(BodyProduction(sc), LAMBDA s, p :
        Then(Peek(s), LAMBDA t, tok :
            IF tok.kind = "Indent" THEN Body(Ignore(t), Append(body, p))
            ELSE Returns(t, Append(body, p))))
FunctionBody(sc) == Then(Expected(Get(sc), "Indent"), LAMBDA s, anys : Body(s, <<>>))

Header(sc) ==       \* up to the parameters
    Then(Expected(Get(sc), "Name"), LAMBDA s, name :
        Then(Expected(Get(s), "("), LAMBDA t, anyt :
            Then(Parameters(t), LAMBDA u, params :
                Returns(u, <<name.val, params>>))))
FunctionDef(sc) ==
    Then(Header(sc), LAMBDA s, head :
        Then(Expected(Get(s), ")"), LAMBDA t, anyt :
            Then(Expected(Get(t), ":"), LAMBDA u, anyu :
                Then(FunctionBody(u),
                     LAMBDA v, body : Returns(v, DefProd(head[1], head[2], body))))))

Root(sc) ==
    Then(Peek(sc), LAMBDA s, tok :
        CASE tok.kind = "Def" -> FunctionDef(Ignore(s))
          [] tok.kind = "Name" ->
                Then(Peek(Ignore(s)), LAMBDA t, next :
                    IF next.kind = "(" THEN FunctionCall(t, tok.val) ELSE Declaration(t, tok.val))
          [] tok.kind = "Eof" -> Returns(s, EofProd)
          [] OTHER -> Throws(s, "Bad_token"))

-----------------------------------------------------------------------------
(* PunyPyWorld and the productions' analyze and interpret *)

SetVar(w, x, v) == [w EXCEPT !.vars = (x :> v) @@ @]
Holding(w, x) == x \in DOMAIN w.vars
Buildins == {"print"}

RECURSIVE Sound(_, _)     \* analyze without an exception, of what leaves the world as it is
Sound(p, w) ==
    CASE p[1] \in {"int", "eof"} -> TRUE
      [] p[1] = "var" -> Holding(w, p[2])
      [] p[1] = "plus" -> Sound(p[2], w) /\ Sound(p[3], w)
      [] p[1] = "call" ->
            /\ \A i \in DOMAIN p[3] : Sound(p[3][i], w)
            /\ \/ p[2] \in Buildins
               \/ p[2] \in DOMAIN w.funcs /\ Len(w.funcs[p[2]][3]) = Len(p[3])

(* A declaration needs the literal value of an Int_prod; the parameters of *)
(* a function are no variables of its body here.                           *)
Analyses(p, w) ==
    CASE p[1] = "decl" -> Sound(p[3], w) /\ p[3][1] = "int"
      [] p[1] = "def" -> (\A i \in DOMAIN p[4] : Sound(p[4][i], w)) /\ p[2] \notin DOMAIN w.funcs
      [] OTHER -> Sound(p, w)
Analyse(p, w) ==
    CASE p[1] = "decl" -> SetVar(w, p[2], ValueOf[p[3][2]])
      [] p[1] = "def" -> [w EXCEPT !.funcs = (p[2] :> p) @@ @]
      [] OTHER -> w

(* interpret: the value, what was printed, and how it ended *)
Gives(v, out) == [v |-> v, out |-> out, err |-> "none"]
After(r, F(_)) ==
    IF r.err # "none" THEN r
    ELSE LET q == F(r.v) IN [q EXCEPT !.out = r.out \o @]

RECURSIVE Interpret(_, _), ValuesOf(_, _), Run(_, _, _), SetParameters(_, _, _)
ValuesOf(es, w) ==
    IF es = <<>> THEN Gives(<<>>, <<>>)
    ELSE After(Interpret(Head(es), w), LAMBDA v :
            After(ValuesOf(Tail(es), w), LAMBDA vs : Gives(<<v>> \o vs, <<>>)))
Run(body, w, res) ==
    IF body = <<>> THEN Gives(res, <<>>)
    ELSE After(Interpret(Head(body), w), LAMBDA v : Run(Tail(body), w, v))
SetParameters(w, params, vs) ==      \* fp->name() of a parameter that is no variable throws
    IF params = <<>> \/ vs = <<>> THEN Gives(w, <<>>)
    ELSE IF Head(params)[1] # "var" THEN [Gives(w, <<>>) EXCEPT !.err = "Bad_production"]
    ELSE SetParameters(SetVar(w, Head(params)[2], Head(vs)), Tail(params), Tail(vs))
Interpret(p, w) ==
    CASE p[1] = "int" -> Gives(ValueOf[p[2]], <<>>)
      [] p[1] = "var" -> Gives(IF Holding(w, p[2]) THEN w.vars[p[2]] ELSE 0, <<>>)
      [] p[1] = "plus" ->
            After(Interpret(p[2], w), LAMBDA a :
                After(Interpret(p[3], w), LAMBDA b : Gives(a + b, <<>>)))
      [] p[1] = "decl" -> Interpret(p[3], w)
      [] p[1] \in {"def", "eof"} -> Gives(0, <<>>)
      [] p[1] = "call" /\ p[2] \in Buildins ->
            After(ValuesOf(p[3], w), LAMBDA vs : Gives(0, <<vs>>))
      [] p[1] = "call" /\ p[2] \notin Buildins ->
            After(ValuesOf(p[3], w), LAMBDA vs :
                IF p[2] \notin DOMAIN w.funcs THEN [Gives(0, <<>>) EXCEPT !.err = "null function"]
                ELSE After(SetParameters(w, w.funcs[p[2]][3], vs), LAMBDA local :
                        Run(w.funcs[p[2]][4], local, 0)))

-----------------------------------------------------------------------------
(* main *)
EmptyWorld == [vars |-> <<>>, funcs |-> <<>>]
NewScanner(text) == [in |-> OpenText(text), full |-> FALSE, buffer |-> Token("Int", "")]

PunyInit ==
    /\ punyLines = <<>>
    /\ scanner = NewScanner(<<>>)
    /\ prods = <<>> /\ world = EmptyWorld /\ at = 1
    /\ punyPhase = "start" /\ analysed = TRUE /\ printed = <<>>

TextOf(lines, ended) ==
    FlattenSeq([i \in DOMAIN lines |->
        lines[i].text \o (IF i < Len(lines) \/ ended THEN <<"nl">> ELSE <<>>)])
PunyStart ==
    /\ punyPhase = "start"
    /\ punyLines' \in UNION {[1..n -> PunyLines] : n \in 1..PunyMax}
    /\ \E ended \in BOOLEAN : scanner' = NewScanner(TextOf(punyLines', ended))
    /\ punyPhase' = "parse"
    /\ UNCHANGED <<prods, world, at, analysed, printed>>

(* parser.root() is called outside the try block: what it throws ends the program *)
PunyParse ==
    /\ punyPhase = "parse"
    /\ \E r \in {Root(scanner)} :
          /\ scanner' = r.s
          /\ punyPhase' = CASE r.err = "indeterminate" -> "undefined"
                            [] r.err \notin {"none", "indeterminate"} -> "terminated"
                            [] r.err = "none" -> IF Good(r.s.in) THEN "parse" ELSE "analyse"
          /\ prods' = IF r.err = "none" THEN Append(prods, r.v) ELSE prods
    /\ UNCHANGED <<punyLines, world, at, analysed, printed>>

(* An exception ends the analysis and the interpreter starts all the same *)
PunyAnalyse ==
    LET fine == at <= Len(prods) /\ Analyses(prods[at], world)
    IN  /\ punyPhase = "analyse"
        /\ IF fine THEN /\ world' = Analyse(prods[at], world) /\ at' = at + 1
                        /\ UNCHANGED <<punyPhase, analysed>>
           ELSE /\ punyPhase' = "interpret" /\ at' = 1 /\ UNCHANGED world
                /\ analysed' = (at > Len(prods))
        /\ UNCHANGED <<punyLines, scanner, prods, printed>>

PunyInterpret ==
    /\ punyPhase = "interpret"
    /\ IF at > Len(prods) THEN punyPhase' = "done" /\ UNCHANGED <<at, printed>>
       ELSE \E r \in {Interpret(prods[at], world)} :
            /\ printed' = printed \o r.out /\ at' = at + 1
            /\ punyPhase' = CASE r.err = "none" -> "interpret"
                              [] r.err = "Bad_production" -> "failed"
                              [] r.err = "null function" -> "undefined"
    /\ UNCHANGED <<punyLines, scanner, prods, world, analysed>>

PunyNext == PunyStart \/ PunyParse \/ PunyAnalyse \/ PunyInterpret

-----------------------------------------------------------------------------
PunyTypeOK ==
    /\ punyPhase \in {"start", "parse", "analyse", "interpret", "done", "failed",
                      "terminated", "undefined"}
    /\ world.vars \in [DOMAIN world.vars -> Nat] /\ DOMAIN world.vars \subseteq Words
    /\ at \in 1..(Len(prods) + 1)

Blank(i) == \A n \in DOMAIN punyLines[i].text : IsSpace(punyLines[i].text[n])
Parsed == SelectSeq(prods, LAMBDA p : p # EofProd)

(* A newline is no token and a statement ends where the next cannot be a   *)
(* part of it; still, every line of a text of proper lines becomes its     *)
(* production, in order and once.                                          *)
ParsesLineByLine ==
    (\A i \in DOMAIN punyLines : punyLines[i].proper)
    /\ punyPhase \in {"analyse", "interpret", "done"}
        => Parsed = [i \in DOMAIN punyLines |-> punyLines[i].prod]

Is(i, what) == punyLines[i].proper /\ punyLines[i].prod[1] = what
ABlankFollowsADef == \E i \in 1..(Len(punyLines) - 1) : Is(i, "def") /\ Blank(i + 1)

(* No part of a text with an improper line is run, but for one token at    *)
(* the very end, which is dropped without a word.  A line of nothing but   *)
(* spaces is improper with proper lines before and after it.               *)
BadTextIsNotRun ==
    punyPhase \in {"analyse", "interpret", "done", "failed"} /\ ~ABlankFollowsADef =>
    \A i \in DOMAIN punyLines :
        \/ punyLines[i].proper
        \/ i = Len(punyLines) /\ Len(punyLines[i].text) = 1
        \/ (\A j \in 1..i : Blank(j)) \/ (\A j \in i..Len(punyLines) : Blank(j))

(* Between a function and a call such a line makes the call the last       *)
(* statement of the function.                                              *)
BlankLineJoins ==
    punyPhase \in {"analyse", "interpret", "done", "failed"} /\ Len(punyLines) = 3 /\ Is(1, "def")
    /\ Blank(2) /\ Is(3, "call")
        => Parsed = <<[punyLines[1].prod EXCEPT ![4] = Append(@, punyLines[3].prod)]>>

(* A program that passes the analysis calls no function that is not there; *)
(* it can still fail at a function that has a parameter which is no        *)
(* variable.                                                               *)
AnalysisIsEnough ==
    /\ punyPhase = "undefined" /\ prods # <<>> /\ at > 1 => ~analysed
    /\ punyPhase = "failed" /\ analysed =>
          \E f \in DOMAIN world.funcs : \E i \in DOMAIN world.funcs[f][3] :
              world.funcs[f][3][i][1] # "var"

(* What the program would print in Python, where a declaration takes       *)
(* effect when it is reached                                               *)
InOrder ==
    LET step(acc, p) == IF p[1] \in {"decl", "def"} THEN [acc EXCEPT !.w = Analyse(p, acc.w)]
                        ELSE [acc EXCEPT !.out = @ \o Interpret(p, acc.w).out]
    IN  FoldLeft(step, [w |-> [vars |-> <<>>, funcs |-> <<>>], out |-> <<>>], prods).out

(* The declarations are all made before anything is interpreted, with the  *)
(* last one of a name in force throughout; a program that declares each    *)
(* name once prints what it would if they were made in their turn.         *)
DeclaredOnceMeansInOrder ==
    punyPhase = "done" /\ analysed
    /\ (\A i, j \in DOMAIN prods : prods[i][1] = "decl" /\ prods[j][1] = "decl" /\ i # j
                                    => prods[i][2] # prods[j][2])
        => printed = InOrder

PunyPyOK ==
    /\ ParsesLineByLine /\ BadTextIsNotRun /\ BlankLineJoins
    /\ AnalysisIsEnough /\ DeclaredOnceMeansInOrder

-----------------------------------------------------------------------------
(***************************************************************************)
(* The scanner of Parsers/Punypy2, whose client may get, peek, put back    *)
(* and ignore tokens.                                                      *)
(***************************************************************************)

CONSTANT ScanTexts      \* the texts

VARIABLES scanner2,     \* the stream, full_ and buffer_
          taken,        \* history: the tokens the client got and has not put back
          scanPhase     \* "start", "on", or how a call ended the program

scanVars == <<scanner2, taken, scanPhase>>

ScanWords == {"def", "f", "x"}
ScanDigits == {"1", "2"}
ScanChars == {"(", ")", "+", "-", ":", ",", "="}
Kind(k, v) == <<k, v>>
Eof == Kind("eof_token", 0)

-----------------------------------------------------------------------------
(* Scanner::get without a buffered token: [in, tok], where tok is <<>> if  *)
(* the text has no token there.  What follows a newline and is no space    *)
(* goes to the default case, which knows no punctuation.                   *)
RECURSIVE Scan2(_)
Found(in, tok) == [in |-> in, tok |-> tok]
AfterSpaces2(t) == IF ~Good(t) THEN Found(t, Eof) ELSE Scan2(StreamPutback(t))
ScanDefault(s, ch) ==
    CASE ch \in ScanDigits -> Scan2(StreamPutback(s))
      [] ch \in ScanWords ->
            Found(EndOfWord(s), IF ch = "def" THEN Kind("def", 0) ELSE Kind("name", ch))
      [] ch = " " -> AfterSpaces2(GetWhile(s, {" "}))
      [] OTHER -> Found(s, <<>>)
Indented(from, u) ==
    Found(StreamPutback(u), Kind("indent", (IF Good(u) THEN u.pos - 1 ELSE u.pos) - from + 1))
AfterNewlines2(t) ==
    CASE ~Good(t) -> Found(t, Eof)
      [] Good(t) /\ CharOf(t) = " " -> Indented(t.pos, GetWhile(t, {" "}))
      [] OTHER -> ScanDefault(t, CharOf(t))
Got2(in, s) ==
    CASE ~Good(s) -> Found(s, Eof)
      [] Good(s) /\ CharOf(s) \in ScanChars -> Found(s, Kind(CharOf(s), 0))
      [] Good(s) /\ CharOf(s) \in ScanDigits -> Found(GetNumber(in), Kind("integer", CharOf(s)))
      [] Good(s) /\ CharOf(s) = "nl" -> AfterNewlines2(GetWhile(s, {"nl"}))
      [] OTHER -> ScanDefault(s, CharOf(s))
Scan2(in) == Got2(in, StreamGet(in))

-----------------------------------------------------------------------------
ScanInit ==
    /\ scanner2 = [in |-> OpenText(<<>>), full |-> FALSE, buffer |-> Kind("lparen", 0)]
    /\ taken = <<>> /\ scanPhase = "start"

ScanStart ==        \* the constructor
    /\ scanPhase = "start" /\ scanPhase' = "on"
    /\ \E text \in ScanTexts : scanner2' = [scanner2 EXCEPT !.in = OpenText(text)]
    /\ UNCHANGED taken

Buffered == scanner2.full
InvalidToken(in) ==
    /\ scanPhase' = "Invalid Token" /\ UNCHANGED taken
    /\ scanner2' = [scanner2 EXCEPT !.in = in]

ScanGet ==
    /\ scanPhase = "on" /\ Eof \notin ToSet(taken)
    /\ IF Buffered
       THEN /\ scanner2' = [scanner2 EXCEPT !.full = FALSE]
            /\ taken' = Append(taken, scanner2.buffer) /\ UNCHANGED scanPhase
       ELSE \E r \in {Scan2(scanner2.in)} :
            IF r.tok = <<>> THEN InvalidToken(r.in)
            ELSE /\ scanner2' = [scanner2 EXCEPT !.in = r.in]
                 /\ taken' = Append(taken, r.tok) /\ UNCHANGED scanPhase

ScanPeek ==
    /\ scanPhase = "on" /\ ~Buffered
    /\ \E r \in {Scan2(scanner2.in)} :
          IF r.tok = <<>> THEN InvalidToken(r.in)
          ELSE /\ scanner2' = [in |-> r.in, full |-> TRUE, buffer |-> r.tok]
               /\ UNCHANGED <<taken, scanPhase>>

(* putback(t) expects an empty buffer; the client returns its last token *)
ScanPutback ==
    /\ scanPhase = "on" /\ ~Buffered /\ taken # <<>> /\ taken[Len(taken)][1] # "up to"
    /\ scanner2' = [scanner2 EXCEPT !.full = TRUE, !.buffer = taken[Len(taken)]]
    /\ taken' = SubSeq(taken, 1, Len(taken) - 1) /\ UNCHANGED scanPhase

(* ignore(t): a buffered token that is not t is dropped and the search     *)
(* starts at the next one; without a t in the text it never ends, since    *)
(* get returns eof_token for ever.                                         *)
RECURSIVE Search(_, _)
Searched(r, tok) ==
    CASE r.tok = tok -> [r EXCEPT !.tok = "found"]
      [] r.tok = <<>> -> [r EXCEPT !.tok = "Invalid Token"]
      [] r.tok = Eof /\ tok # Eof -> [r EXCEPT !.tok = "for ever"]
      [] OTHER -> Search(r.in, tok)
Search(in, tok) == Searched(Scan2(in), tok)
ScanIgnore(tok) ==
    /\ scanPhase = "on"
    /\ IF Buffered /\ scanner2.buffer = tok
       THEN scanner2' = [scanner2 EXCEPT !.full = FALSE] /\ UNCHANGED scanPhase
       ELSE \E r \in {Search(scanner2.in, tok)} :
            /\ scanner2' = [scanner2 EXCEPT !.full = FALSE, !.in = r.in]
            /\ scanPhase' = IF r.tok = "found" THEN "on" ELSE r.tok
    /\ taken' = Append(taken, <<"up to", tok>>)

ScanNext ==
    \/ ScanStart \/ ScanGet \/ ScanPeek \/ ScanPutback
    \/ /\ \A i \in DOMAIN taken : taken[i][1] # "up to"      \* bound: one ignore
       /\ \E tok \in {Kind(")", 0), Kind("name", "x")} : ScanIgnore(tok)

-----------------------------------------------------------------------------
ScanTypeOK ==
    /\ scanPhase \in {"start", "on", "Invalid Token", "for ever"}
    /\ scanner2.in.pos \in 1..(Len(scanner2.in.text) + 1) /\ scanner2.full \in BOOLEAN

(* The token that starts at the place i of the text, <<>> if none does.    *)
(* The last spaces of a text are an indent if they begin a line.           *)
TokenAt(text, i) ==
    LET beginsLine == i > 1 /\ text[i - 1] = "nl"
        run == SelectInSubSeq(text, i, Len(text), LAMBDA c : c # " ")
    IN  CASE text[i] = "def" -> Kind("def", 0)
          [] text[i] \in ScanWords \ {"def"} -> Kind("name", text[i])
          [] text[i] \in ScanDigits -> Kind("integer", text[i])
          [] text[i] \in ScanChars -> IF beginsLine THEN <<"invalid", 0>> ELSE Kind(text[i], 0)
          [] text[i] = " " /\ beginsLine ->
                Kind("indent", (IF run = 0 THEN Len(text) + 1 ELSE run) - i)
          [] OTHER -> <<>>
TokensOf(text) ==
    SelectSeq([i \in DOMAIN text |-> TokenAt(text, i)], LAMBDA tok : tok # <<>>) \o <<Eof>>

(* However gets, peeks and putbacks are mixed, the client has the tokens   *)
(* of the text in their order, none lost and none twice, up to a token the *)
(* scanner finds invalid: one that stands first on its line.               *)
DeliversTheTokens ==
    (\A i \in DOMAIN taken : taken[i][1] # "up to") =>
    /\ IsPrefix(taken, TokensOf(scanner2.in.text))
    /\ scanPhase = "Invalid Token" =>
          TokensOf(scanner2.in.text)[Len(taken) + 1] = <<"invalid", 0>>

(* An ignore of a token that the text has no more searches for ever, or    *)
(* stops at an invalid one; otherwise it goes on right after the token.    *)
IgnoreFinds ==
    LET i == SelectInSeq(taken, LAMBDA tok : tok[1] = "up to")
        all == TokensOf(scanner2.in.text)
        rest == SubSeq(all, i, Len(all))
        found == SelectInSeq(rest, LAMBDA tok : tok = taken[i][2])
        after == IF found = 0 THEN <<>> ELSE SubSeq(rest, found + 1, Len(rest))
    IN  i > 0 =>
        /\ scanPhase = "for ever" => found = 0
        /\ scanPhase = "on" => found > 0
        /\ IsPrefix(SubSeq(taken, i + 1, Len(taken)), after)

PunyScannerOK == DeliversTheTokens /\ IgnoreFinds
=============================================================================
