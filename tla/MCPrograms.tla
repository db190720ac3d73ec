----------------------------- MODULE MCPrograms -----------------------------
EXTENDS Programs

MCHashRanges == {<<>>, << <<0, 1>>, <<2, 1>> >>, << <<1, 1>>, <<1, 0>>, <<2, 0>> >>}
MCListArgs == {<<>>, << <<1, 2>>, <<3, 2>> >>, << <<1, 2>>, <<2, 2>> >>, << <<2, 1>>, <<1, 2>> >>}
MCTreePairs == {<<1, 1>>, <<2, 1>>, <<2, 2>>, <<3, 1>>}
MCTreeRanges == {<<>>, << <<1, 1>> >>, << <<3, 1>>, <<1, 1>>, <<2, 1>> >>,
                 << <<2, 1>>, <<2, 2>>, <<2, 1>>, <<1, 1>> >>}

Line(text, prod) == [text |-> text, proper |-> TRUE, prod |-> prod]
Bad(text) == [text |-> text, proper |-> FALSE, prod |-> <<>>]
One == IntProd("1")
X == VarProd("x")
MCPunyLines == {
    Line(<<"x", " ", "=", " ", "1">>, DeclProd("x", One)),
    Line(<<"x", "=", "2">>, DeclProd("x", IntProd("2"))),
    Line(<<"y", "=", "x">>, DeclProd("y", X)),
    Line(<<"print", "(", "x", "+", "3", ",", "1", ")">>,
         CallProd("print", <<PlusProd(X, IntProd("3")), One>>)),
    Line(<<"def", " ", "f", "(", ")", ":", "nl", " ", "print", "(", "x", ")",
           "nl", " ", " ", "x", "+", "1">>,
         DefProd("f", <<>>, <<CallProd("print", <<X>>), PlusProd(X, One)>>)),
    Line(<<"f", "(", ")">>, CallProd("f", <<>>)),
    Line(<<"def", " ", "g", "(", "y", ")", ":", "nl", " ", "3", "nl", " ", "f", "(", ")", " ">>,
         DefProd("g", <<VarProd("y")>>, <<IntProd("3"), CallProd("f", <<>>)>>)),
    Line(<<"def", " ", "g", "(", "1", ")", ":", "nl", " ", "2">>,
         DefProd("g", <<One>>, <<IntProd("2")>>)),
    Line(<<"g", "(", "2", ")">>, CallProd("g", <<IntProd("2")>>)),
    Bad(<<"f", "(", "1", ",", ")">>), Bad(<<"1">>), Bad(<<" ", "nl">>), Bad(<<"x", "=", "?">>)}

MCScanTexts == {
    <<"def", " ", "f", "(", "x", ")", ":", "nl", " ", " ", "x", "+", "1", " ">>,
    <<" ", "x", "=", "2", "nl", "nl", "f", "(", "1", ",", "x", ")", "nl">>,
    <<"x", "nl", " ", "nl", "2", "nl", "(", "x", ")">>,
    <<"f", "(", ")", "nl", " ", " ">>, <<"-", "1">>, <<>>}

MCTypes == {"char", "int", "base", "derived", "leaf"}
MCSizeOfType ==
    [t \in MCTypes |-> CASE t = "char" -> 1 [] t \in {"int", "base"} -> 4 [] OTHER -> 8]
MCParent ==
    [t \in MCTypes |-> CASE t = "derived" -> "base" [] t = "leaf" -> "derived" [] OTHER -> t]

Stmt(k, text) == [kind |-> k, text |-> text]
MCCalcStatements == {
    Stmt("value", <<"2", "-", "3", "*", "-", "4", "-", "7">>),
    Stmt("value", <<"(", "7", "-", "2", ")", "/", "2", "/", "3">>),
    Stmt("value", <<"7", "*", "3", "%", "4", "*", "2">>),
    Stmt("value", <<"7", "%", "4", "%", "2">>),
    Stmt("value", <<"a", "+", "e">>),
    Stmt("value", <<"2", "/", "(", "a", "-", "a", ")">>),
    Stmt("let", <<"let", " ", "a", "=", "7", "/", "2">>),
    Stmt("let", <<"let", " ", "b", "=", "b">>),
    Stmt("incomplete", <<"(", "2">>),
    Stmt("incomplete", <<"let">>),
    Stmt("bad character", <<"2", "+", "?">>),
    Stmt("unreadable", <<"?", "2", "?">>),
    Stmt("lone point", <<"2", "+", ".">>)}

\* The first apple lies under the snake's head; the others along its way up,
\* or beside it.
AppleFalls == [n \in 3 .. 8 |-> {<<5, 8 - n>>} \cup IF n \in {3, 4} THEN {<<4, 4>>} ELSE {}]

\* Two of the chain's modifiers double; two people are called John.
Kinds == [m \in Modifiers |-> IF m = "none" THEN "none"
                              ELSE IF m = "r2" THEN "increase" ELSE "double"]

Names == [p \in People |-> IF p = "john2" THEN "John" ELSE p]

Listener(handles, returns, byValue) ==
    [handles |-> handles, returns |-> returns, byValue |-> byValue]
MCListeners == {Listener({}, "void", FALSE), Listener({"begin", "comics"}, "void", FALSE),
                Listener({"comics"}, "void", TRUE), Listener({"comics"}, "int", FALSE),
                Listener({"begin"}, "int", TRUE)}
=============================================================================
