------------------------------ MODULE Brackets ------------------------------
(***************************************************************************)
(* How cpplint.py finds the other end of a bracket, over several lines,    *)
(* without knowing which "<" and ">" are brackets.  A line is a sequence   *)
(* of characters; "operator" stands for the word.                          *)
(***************************************************************************)
EXTENDS Integers, Sequences, FiniteSets, SequencesExt

Openers == {"(", "[", "{"}
Closers == {")", "]", "}"}
Closing == [b \in Openers |-> CASE b = "(" -> ")" [] b = "[" -> "]" [] b = "{" -> "}"]

(* The stack without the angle brackets on top: they were operators. *)
DropTop(stack, angle) ==
  LET others == {i \in DOMAIN stack : stack[i] # angle}
  IN SubSeq(stack, 1, IF others = {} THEN 0 ELSE Max(others))

Prefix(line, i) == SubSeq(line, 1, i - 1)
EndsInOperator(line) == LET word == DropTop(line, " ") IN word # << >> /\ Last(word) = "operator"
Follows(line, i, c) == i > 1 /\ line[i - 1] = c

(* The state of a search along a line: over when its last bracket is closed, *)
(* at being the place found or 0, or given up.  A search that begins at a    *)
(* "<" or ">" it takes for an operator goes on with an empty stack.          *)
Search(stack) == [stack |-> stack, at |-> 0, over |-> FALSE, skip |-> 0]
GivenUp == [Search(<< >>) EXCEPT !.over = TRUE]
Push(s, c) == [s EXCEPT !.stack = Append(@, c)]
Pop(s, found) ==
  IF Len(s.stack) = 1 THEN [GivenUp EXCEPT !.at = found] ELSE [s EXCEPT !.stack = Front(@)]

(* A mutant: the "<" pending at a closing bracket are kept. *)
CloseKeeping(s, i, angle, partner) ==
  IF s.stack # << >> /\ Last(s.stack) = partner THEN Pop(s, i) ELSE GivenUp

Close(s, i, angle, partner) ==
  LET left == DropTop(s.stack, angle)
  IN IF left # << >> /\ Last(left) = partner THEN Pop([s EXCEPT !.stack = left], i) ELSE GivenUp

(* A statement ends: the angle brackets pending were operators. *)
Semicolon(s, angle) ==
  LET left == DropTop(s.stack, angle) IN IF left = << >> THEN GivenUp ELSE [s EXCEPT !.stack = left]

FindEndOfExpressionInLine(line, startpos, stack) ==
  LET Step(s, i) ==
        LET c == line[i]
            top == IF s.stack = << >> THEN "" ELSE Last(s.stack)
        IN CASE s.over -> s
             [] c \in Openers -> Push(s, c)
             [] c = "<" /\ Follows(line, i, "<") -> IF top = "<" THEN Pop(s, 0) ELSE s
             [] c = "<" /\ ~Follows(line, i, "<") ->
                  IF EndsInOperator(Prefix(line, i)) THEN s ELSE Push(s, "<")
             [] c \in Closers -> Close(s, i, "<", CHOOSE b \in Openers : Closing[b] = c)
             [] c = ">" ->
                  IF /\ top = "<" /\ ~Follows(line, i, "-")
                     /\ ~(i > 1 /\ EndsInOperator(Prefix(line, i - 1)))
                  THEN Pop(s, i) ELSE s
             [] c = ";" -> Semicolon(s, "<")
             [] OTHER -> s
  IN FoldLeft(Step, Search(stack),
              [k \in 1 .. Len(line) + 1 - startpos |-> startpos + k - 1])

NotFound == [line |-> 0, at |-> 0]

(* The bracket that closes the one at pos. *)
CloseExpression(lines, linenum, pos) ==
  LET line == lines[linenum]
      Next(s, n) ==
        IF s.stack = << >> THEN s ELSE FindEndOfExpressionInLine(lines[n], 1, s.stack) @@ [line |-> n]
      last == FoldLeft(Next, FindEndOfExpressionInLine(line, pos, << >>) @@ [line |-> linenum],
                       [k \in 1 .. Len(lines) - linenum |-> linenum + k])
  IN IF \/ line[pos] \notin Openers \cup {"<"}
        \/ line[pos] = "<" /\ pos < Len(line) /\ line[pos + 1] \in {"<", "="}
        \/ last.at = 0
     THEN NotFound ELSE [line |-> last.line, at |-> last.at]

-----------------------------------------------------------------------------
(* Backward; skip is the character an arrow, a ">=" or a shift includes.    *)

GreaterOrEqual(line, i) ==
  i > 1 /\ i + 2 <= Len(line) /\ SubSeq(line, i - 1, i + 2) = <<" ", ">", "=", " ">>

FindStartOfExpressionInLine(line, endpos, stack) ==
  LET Step(s, i) ==
        LET c == line[i]
            top == IF s.stack = << >> THEN "" ELSE Last(s.stack)
        IN CASE s.over \/ i = s.skip -> s
             [] c \in Closers -> Push(s, c)
             [] c = ">" ->
                  IF /\ i > 1
                     /\ Follows(line, i, "-") \/ GreaterOrEqual(line, i) \/ EndsInOperator(Prefix(line, i))
                  THEN [s EXCEPT !.skip = i - 1] ELSE Push(s, ">")
             [] c = "<" ->
                  IF Follows(line, i, "<") THEN [s EXCEPT !.skip = i - 1]
                  ELSE IF top = ">" THEN Pop(s, i) ELSE s
             [] c \in Openers -> Close(s, i, ">", Closing[c])
             [] c = ";" -> Semicolon(s, ">")
             [] OTHER -> s
  IN FoldLeft(Step, Search(stack), [k \in 1 .. endpos |-> endpos + 1 - k])

(* The bracket that opens the one at pos. *)
ReverseCloseExpression(lines, linenum, pos) ==
  LET Next(s, n) ==
        IF s.stack = << >> THEN s
        ELSE FindStartOfExpressionInLine(lines[n], Len(lines[n]), s.stack) @@ [line |-> n]
      last == FoldLeft(Next, FindStartOfExpressionInLine(lines[linenum], pos, << >>) @@ [line |-> linenum],
                       [k \in 1 .. linenum - 1 |-> linenum - k])
  IN IF lines[linenum][pos] \notin Closers \cup {">"} \/ last.at = 0
     THEN NotFound ELSE [line |-> last.line, at |-> last.at]

(* Where the text inside the bracket at start ends, or 0. *)
_GetTextInside(text, start) ==
  LET Step(s, i) ==
        IF s.over THEN s
        ELSE CASE text[i] = Last(s.stack) -> Pop(s, i)
               [] text[i] \in Closers /\ text[i] # Last(s.stack) -> GivenUp
               [] text[i] \in Openers -> Push(s, Closing[text[i]])
               [] OTHER -> s
  IN FoldLeft(Step, Search(<<Closing[text[start]]>>),
              [k \in 1 .. Len(text) - start |-> start + k]).at
=============================================================================
