------------------------------ MODULE LintText ------------------------------
(***************************************************************************)
(* What cpplint.py makes of the text of a file before it is checked: the   *)
(* comments over several lines are blanked, then CleansedLines goes line   *)
(* by line through raw strings (the one state that outlives a line),       *)
(* strings and comments.  A line is a sequence of characters without white *)
(* space, which none of this depends on but at the ends of a line.  "w"    *)
(* stands for a letter, "1" for a digit, and "#" for #include.             *)
(***************************************************************************)
EXTENDS Brackets

CONSTANT Kinds   (* of texts: [length, pieces, alphabet]; a line is so many pieces *)

VARIABLES
  file,       (* the lines as read                                           *)
  commented,  (* RemoveMultiLineComments has not run yet                     *)
  raw_lines,
  delimiter,  (* of the raw string the next line begins in, or << >>         *)
  lines,      (* without comments                                            *)
  elided      (* without comments and strings                                *)

vars == <<file, commented, raw_lines, delimiter, lines, elided>>

Quote == "\""
Apostrophe == "'"
Backslash == "\\"
Letters == {"w", "1", "R", "operator"}

Init ==
  /\ \E kind \in Kinds :
       \E text \in [1 .. kind.length -> [1 .. kind.pieces -> kind.alphabet]] :
         file = [n \in DOMAIN text |-> FlattenSeq(text[n])]
  /\ commented = TRUE /\ raw_lines = file
  /\ delimiter = << >> /\ lines = << >> /\ elided = << >>

-----------------------------------------------------------------------------
(* Positions. *)
At(line, i, word) == i + Len(word) - 1 <= Len(line) /\ SubSeq(line, i, i + Len(word) - 1) = word
From(line, i) == SubSeq(line, i, Len(line))

(* The first place of word from i on, or 0. *)
Find(line, word, i) ==
  LET places == {k \in i .. Len(line) : At(line, k, word)} IN IF places = {} THEN 0 ELSE Min(places)

Replace(line, word, by) ==
  LET from[i \in 1 .. Len(line) + 1] ==
        LET k == Find(line, word, i) IN
        IF k = 0 THEN From(line, i) ELSE SubSeq(line, i, k - 1) \o by \o from[k + Len(word)]
  IN from[1]
HowOften(line, word) == Len(line) - Len(Replace(line, word, Tail(word)))

(* Comments over several lines. *)
BeginsComment(line) == At(line, 1, <<"/", "*">>) /\ Find(line, <<"*", "/">>, 3) = 0

RemoveMultiLineComments(text) ==
  LET from[i \in 1 .. Len(text) + 1] ==
        LET begin == {k \in i .. Len(text) : BeginsComment(text[k])}
            end == {k \in Min(begin) .. Len(text) : IsSuffix(<<"*", "/">>, text[k])}
        IN IF begin = {} THEN SubSeq(text, i, Len(text))
           ELSE IF end = {} THEN SubSeq(text, i, Len(text))
           ELSE SubSeq(text, i, Min(begin) - 1)
                \o [k \in 1 .. Min(end) + 1 - Min(begin) |-> <<"/", "*", "*", "/">>]
                \o from[Min(end) + 1]
  IN from[1]

-----------------------------------------------------------------------------
(* Raw strings. *)

RawDelimiter(line, i) ==   (* of R"d( at i, or << >> when there is none *)
  LET open == Find(line, <<"(">>, i) IN
  IF /\ At(line, i, <<"R", Quote>>)
     /\ i = 1 \/ line[i - 1] \notin Letters
     /\ open # 0 /\ ToSet(SubSeq(line, i + 2, open - 1)) \cap {")", Backslash} = {}
  THEN <<")">> \o SubSeq(line, i + 2, open - 1) \o <<Quote>> ELSE << >>

Empty == <<Quote, Quote>>

(* The last beginning on the line is taken first. *)
CleanseRawStrings(line, inside) ==
  LET Resumed ==
        LET end == Find(line, inside, 1) IN
        CASE inside = << >> -> [line |-> line, delimiter |-> << >>]
          [] inside # << >> /\ end = 0 -> [line |-> Empty, delimiter |-> inside]
          [] inside # << >> /\ end # 0 ->
               [line |-> Empty \o From(line, end + Len(inside)), delimiter |-> << >>]
      Step(s, c) ==
        LET starts == {i \in DOMAIN s.line : RawDelimiter(s.line, i) # << >>}
            start == Max(starts)
            d == RawDelimiter(s.line, start)
            end == Find(s.line, d, start + Len(d) + 1)
        IN CASE s.delimiter # << >> \/ starts = {} -> s
             [] end = 0 -> [line |-> Prefix(s.line, start) \o Empty, delimiter |-> d]
             [] OTHER -> [s EXCEPT !.line = Prefix(@, start) \o Empty \o From(@, end + Len(d))]
  IN FoldLeft(Step, Resumed, line)

(* Comments on one line. *)
IsCppString(line) ==
  LET plain == Replace(line, <<Backslash, Backslash>>, <<"X", "X">>) IN
  (HowOften(plain, <<Quote>>) - HowOften(plain, <<Backslash, Quote>>)
     - HowOften(plain, <<Apostrophe, Quote, Apostrophe>>)) % 2 = 1

CleanseComments(line) ==
  LET slashes == Find(line, <<"/", "/">>, 1)
      kept == IF slashes # 0 /\ ~IsCppString(Prefix(line, slashes)) THEN Prefix(line, slashes) ELSE line
      from[i \in 1 .. Len(kept) + 1] ==
        LET begin == Find(kept, <<"/", "*">>, i)
            end == Find(kept, <<"*", "/">>, begin + 2)
        IN IF begin = 0 \/ end = 0 THEN From(kept, i)
           ELSE SubSeq(kept, i, begin - 1) \o from[end + 2]
  IN from[1]

(* Strings and characters.  The run of letters before an apostrophe is a    *)
(* number; numeric escapes are left out.                                    *)
RemoveEscapes(line) ==
  LET from[i \in 1 .. Len(line) + 1] ==
        CASE i > Len(line) -> << >>
          [] \E c \in {Quote, Apostrophe, Backslash} : At(line, i, <<Backslash, c>>) -> from[i + 2]
          [] OTHER -> <<line[i]>> \o from[i + 1]
  IN from[1]

EndsInNumber(head) ==
  LET others == {i \in DOMAIN head : head[i] # "1"}
      start == IF others = {} THEN 0 ELSE Max(others)
  IN start < Len(head) /\ (start = 0 \/ head[start] \notin Letters)

(* Where the digits and separators from the apostrophe at i on end. *)
EndOfNumber(line, i) ==
  LET from[k \in i .. Len(line) + 1] ==
        CASE k <= Len(line) /\ line[k] \in Letters -> from[k + 1]
          [] k < Len(line) /\ line[k] = Apostrophe /\ line[k + 1] \in Letters -> from[k + 2]
          [] OTHER -> k
  IN from[i]

(* A mutant: every apostrophe begins a character. *)
CollapseEveryQuote(line) ==
  LET text == RemoveEscapes(line)
      from[i \in 1 .. Len(text) + 1] ==
        LET quotes == {k \in i .. Len(text) : text[k] \in {Quote, Apostrophe}}
            q == Min(quotes)
            second == Find(text, <<text[q]>>, q + 1)
        IN IF quotes = {} THEN From(text, i)
           ELSE IF second = 0 THEN From(text, i)
           ELSE SubSeq(text, i, q) \o <<text[q]>> \o from[second + 1]
  IN from[1]

_CollapseStrings(line) ==
  LET text == RemoveEscapes(line)
      from[i \in 1 .. Len(text) + 1] ==
        LET quotes == {k \in i .. Len(text) : text[k] \in {Quote, Apostrophe}}
            q == Min(quotes)
            second == Find(text, <<text[q]>>, q + 1)
            head == SubSeq(text, i, q - 1)
            past == EndOfNumber(text, q)
        IN CASE quotes = {} -> From(text, i)
             [] quotes # {} /\ text[q] = Apostrophe /\ EndsInNumber(head) ->
                  head \o SelectSeq(SubSeq(text, q, past - 1), LAMBDA c : c # Apostrophe) \o from[past]
             [] quotes # {} /\ ~(text[q] = Apostrophe /\ EndsInNumber(head)) ->
                  IF second = 0 THEN From(text, i)
                  ELSE head \o <<text[q], text[q]>> \o from[second + 1]
  IN IF At(line, 1, <<"#", Quote>>) /\ Find(line, <<Quote>>, 3) # 0 THEN line ELSE from[1]

-----------------------------------------------------------------------------
BlankComments ==
  /\ commented
  /\ commented' = FALSE
  /\ raw_lines' = RemoveMultiLineComments(raw_lines)
  /\ UNCHANGED <<file, delimiter, lines, elided>>

(* One line of CleansedLines. *)
CleanseLine ==
  /\ ~commented
  /\ Len(elided) < Len(raw_lines)
  /\ LET raw == CleanseRawStrings(raw_lines[Len(elided) + 1], delimiter) IN
     /\ delimiter' = raw.delimiter
     /\ lines' = Append(lines, CleanseComments(raw.line))
     /\ elided' = Append(elided, CleanseComments(_CollapseStrings(raw.line)))
  /\ UNCHANGED <<file, commented, raw_lines>>

Next == BlankComments \/ CleanseLine

Spec == Init /\ [][Next]_vars

Done == Len(elided) = Len(file)

-----------------------------------------------------------------------------
(* The reference: a lexer of C++ that reads the characters of all the lines *)
(* once, from the first to the last.  out is the code of each line, without *)
(* quotes and digit separators; ok is FALSE when the text leaves the        *)
(* conventions cpplint.py relies on:                                        *)
(*   - strings and characters end on their line, and nothing outside of     *)
(*     them looks like an escape;                                           *)
(*   - a comment over several lines begins its first and ends its last      *)
(*     line, and does not begin in a raw string;                            *)
(*   - a comment that ends on its line holds no quote and no "//";          *)
(*   - nothing but a raw string looks like the beginning of one, and none   *)
(*     begins on a line before one that goes on below.                      *)
NewLine == "\n"
Hidden == {Quote, Apostrophe, Backslash}

Lex(text) ==
  LET Enter(s, mode, i) == [s EXCEPT !.mode = mode, !.from = i, !.start = s.line, !.fine = TRUE]
      Out(s, c) == [s EXCEPT !.out[s.line] = IF c \in Hidden THEN @ ELSE Append(@, c)]
      Bad(s) == [s EXCEPT !.ok = FALSE]
      BadIf(s, cond) == [s EXCEPT !.ok = @ /\ ~cond]
      Begins(i) == i = 1 \/ text[i - 1] = NewLine
      Ends(i) == i > Len(text) \/ text[i] = NewLine
      AfterNumber(i) ==
        /\ i > 1 /\ text[i - 1] = "1"
        /\ \E k \in 1 .. i - 1 : /\ \A j \in k .. i - 1 : text[j] \in {"1", Apostrophe}
                                /\ text[k] = "1" /\ (k = 1 \/ text[k - 1] \notin Letters \cup {Apostrophe})
      Code(s, i) ==
        CASE RawDelimiter(text, i) # << >> ->
               LET d == RawDelimiter(text, i) IN
               [BadIf(Enter(s, "raw", i + Len(d) + 1), NewLine \in ToSet(d))
                  EXCEPT !.delimiter = d, !.raws = @ + 1]
          [] At(text, i, <<"/", "/">>) -> Enter(s, "line_comment", i + 2)
          [] At(text, i, <<"/", "*">>) -> [Enter(s, "comment", i + 2) EXCEPT !.first = Begins(i)]
          [] text[i] = "#" -> Enter(Out(s, "#"), "name", i + 1)
          [] text[i] = Quote -> Enter(s, "string", i + 1)
          [] text[i] = Apostrophe -> IF AfterNumber(i)
                                       THEN BadIf(s, i = Len(text) \/ text[i + 1] \notin Letters)
                                       ELSE Enter(s, "character", i + 1)
          [] text[i] = Backslash -> Bad(s)
          [] OTHER -> Out(s, text[i])
      Quoted(s, i, close) ==
        CASE text[i] = Backslash -> [s EXCEPT !.from = i + 2]
          [] text[i] = close -> Enter(s, "code", i + 1)
          [] OTHER -> s
      Comment(s, i) ==
        LET over == s.line # s.start IN
        CASE At(text, i, <<"*", "/">>) ->
               BadIf(Enter(s, "code", i + 2), IF over THEN ~s.first \/ ~Ends(i + 2) ELSE ~s.fine \/ At(text, i + 1, <<"/", "/">>))
          [] text[i] \in Hidden \/ At(text, i, <<"/", "/">>) -> [s EXCEPT !.fine = FALSE]
          [] OTHER -> s
      Raw(s, i) ==
        LET end == At(text, i, s.delimiter)
            closed == Enter(s, "code", i + Len(s.delimiter))
        IN CASE end -> closed
             [] Begins(i) /\ At(text, i, <<"/", "*">>) -> Bad(s)
             [] OTHER -> s
      (* The end of a line. *)
      Down(s, i) ==
        LET below == [s EXCEPT !.line = @ + 1, !.out = Append(@, << >>), !.raws = 0] IN
        CASE s.mode \in {"line_comment", "name"} -> Enter(below, "code", i + 1)
          [] s.mode \in {"string", "character"} -> Bad(below)
          [] s.mode = "comment" -> BadIf(below, ~s.first \/ At(text, i - 3, <<"/", "*", "/">>))
          [] s.mode = "raw" -> BadIf(below, s.raws > 1)
          [] OTHER -> below
      Step(s, i) ==
        CASE i < s.from -> BadIf(s, text[i] = NewLine \/ RawDelimiter(text, i) # << >>)
          [] i >= s.from /\ text[i] = NewLine -> Down(s, i)
          [] i >= s.from /\ text[i] # NewLine ->
               LET next == CASE s.mode = "code" -> Code(s, i)
                             [] s.mode = "string" -> Quoted(s, i, Quote)
                             [] s.mode = "character" -> Quoted(s, i, Apostrophe)
                             [] s.mode = "comment" -> Comment(s, i)
                             [] s.mode = "raw" -> Raw(s, i)
                             [] s.mode = "name" -> Out(s, text[i])
                             [] s.mode = "line_comment" -> s
               IN BadIf(next, s.mode # "code" /\ RawDelimiter(text, i) # << >>)
      end == FoldLeft(Step, [mode |-> "code", from |-> 1, line |-> 1, start |-> 1, first |-> FALSE,
                             fine |-> TRUE, delimiter |-> << >>, raws |-> 0, out |-> << << >> >>, ok |-> TRUE],
                      [i \in DOMAIN text |-> i])
  IN BadIf(end, end.mode \in {"string", "character", "comment"} \/ (end.mode = "raw" /\ end.raws > 1))

(* What is left of every line for the checks is its code, no more and no     *)
(* less: cleansing line by line, in four passes that know nothing of each    *)
(* other, comes to what a lexer of the whole text sees.                      *)
CodeIsWhatIsLeft ==
  Done =>
    LET lexed == Lex(FlattenSeq([n \in DOMAIN file |-> IF n = 1 THEN file[n] ELSE <<NewLine>> \o file[n]]))
    IN lexed.ok => \A n \in DOMAIN file :
                     lexed.out[n] = SelectSeq(elided[n], LAMBDA c : c \notin Hidden)

(* The partner of a bracket: the nearest place where as many have closed as  *)
(* have opened, every bracket in between having one of its kind.             *)
Partners(text) ==
  LET Count(p, q, bs) == Cardinality({i \in p .. q : text[i] \in bs})
      open == {p \in DOMAIN text : text[p] \in Openers}
      Level(p) == {q \in p .. Len(text) : Count(p, q, Openers) = Count(p, q, Closers)}
      Of(p) == IF Level(p) = {} THEN 0 ELSE Min(Level(p))
      Fits(p) == Of(p) # 0 /\ text[Of(p)] = Closing[text[p]]
  IN {<<p, Of(p)>> : p \in {o \in open : Fits(o) /\ \A i \in o .. Of(o) : i \in open => Fits(i)}}

(* A search for the other end of a bracket finds it, forward, backward and   *)
(* in _GetTextInside, over any number of lines and whatever "<", ">" and ";" *)
(* are in between; a "<" that finds a ">" has only whole brackets inside (an *)
(* angle bracket that is part of an operator is not asked about).           *)
BracketsMatch ==
  Done =>
    LET text == FlattenSeq(elided)
        Index(n, i) == i + Len(FlattenSeq(SubSeq(elided, 1, n - 1)))
        places == UNION {{<<n, i>> : i \in DOMAIN elided[n]} : n \in DOMAIN elided}
        The(found) == IF found = NotFound THEN 0 ELSE Index(found.line, found.at)
        pairs == Partners(text)
    IN \A <<n, i>> \in places :
         LET p == Index(n, i)
             forward == The(CloseExpression(elided, n, i))
             back == The(ReverseCloseExpression(elided, n, i))
             Whole(from, to) ==
               \A k \in from .. to : text[k] \in Openers \cup Closers =>
                 \E pair \in pairs : k \in {pair[1], pair[2]} /\ pair[1] >= from /\ pair[2] <= to
             Operator == \/ EndsInOperator(Prefix(elided[n], i))
                         \/ elided[n][i] = "<" /\ Follows(elided[n], i, "<")
                         \/ elided[n][i] = ">" /\ (Follows(elided[n], i, "-") \/ GreaterOrEqual(elided[n], i))
         IN CASE text[p] \in Openers -> /\ forward # 0 => <<p, forward>> \in pairs
                                        /\ \A q \in p .. Len(text) : <<p, q>> \in pairs => forward = q
                                        /\ _GetTextInside(text, p) = forward
              [] text[p] \in Closers -> /\ back # 0 => <<back, p>> \in pairs
                                        /\ \A q \in 1 .. p : <<q, p>> \in pairs => back = q
              [] text[p] = "<" /\ ~Operator /\ forward # 0 -> text[forward] = ">" /\ Whole(p, forward)
              [] text[p] = ">" /\ ~Operator /\ back # 0 -> text[back] = "<" /\ Whole(back, p)
              [] OTHER -> TRUE
=============================================================================
