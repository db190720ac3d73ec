----------------------------- MODULE TextStream -----------------------------
(***************************************************************************)
(* The std::istream that the parsers read: a text of lexemes - a word, a   *)
(* number or a single character - with the place of the next one and the   *)
(* eofbit and failbit.  A read from a stream that is not good fails and    *)
(* leaves its argument as it was.                                          *)
(***************************************************************************)
EXTENDS Naturals, SequencesExt

OpenText(text) == [text |-> text, pos |-> 1, eof |-> FALSE, fail |-> FALSE]
Good(s) == ~s.eof /\ ~s.fail
Exhausted(s) == s.pos > Len(s.text)

StreamGet(s) ==
    IF ~Good(s) THEN [s EXCEPT !.fail = TRUE]
    ELSE IF Exhausted(s) THEN [s EXCEPT !.eof = TRUE, !.fail = TRUE]
    ELSE [s EXCEPT !.pos = @ + 1]
CharOf(s) == s.text[s.pos - 1]     \* what a get that succeeded assigned

(* putback clears the eofbit first; a stream that failed stays so *)
StreamPutback(s) ==
    IF s.fail THEN [s EXCEPT !.eof = FALSE] ELSE [s EXCEPT !.eof = FALSE, !.pos = @ - 1]

Spaces == {" ", "nl"}
IsSpace(c) == c \in Spaces

(* while(get(ch) && ch is one of set): up to the first character that is not *)
GetWhile(s, set) ==
    LET stop == SelectInSubSeq(s.text, s.pos, Len(s.text), LAMBDA c : c \notin set)
    IN  IF ~Good(s) THEN StreamGet(s)
        ELSE IF stop = 0 THEN StreamGet([s EXCEPT !.pos = Len(s.text) + 1])
        ELSE [s EXCEPT !.pos = stop + 1]

(* source >> val of a number that starts here looks one character beyond it *)
GetNumber(s) ==
    LET read == [s EXCEPT !.pos = @ + 1]
    IN  IF Exhausted(read) THEN [read EXCEPT !.eof = TRUE] ELSE read

(* The rest of a word is read up to a character that is put back *)
EndOfWord(s) == StreamPutback(StreamGet(s))

=============================================================================
