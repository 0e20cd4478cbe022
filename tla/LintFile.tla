------------------------------ MODULE LintFile ------------------------------
(***************************************************************************)
(* cpplint.py over one file, line by line: what ProcessLine does to the    *)
(* three states that outlive a line, the nesting of blocks (Nesting), the  *)
(* includes (Includes) and the function whose body is being counted, and   *)
(* what is reported from them.  A line of the file has the fields of       *)
(* Nesting and                                                             *)
(*   include  its #include (see Includes), or NoInclude                    *)
(*   call     what its unindented beginning "name(" may be: "function",    *)
(*            "test", "macro" (all capitals) or "" for no such beginning   *)
(*   uses     the paths of the headers that what it uses is declared in    *)
(* The checks that look at a single line are left out.                     *)
(***************************************************************************)
EXTENDS Nesting, Includes

CONSTANTS
  Files,          (* kinds of files: [names, beginning, and the length and   *)
                  (* the alphabet of the lines that follow it]               *)
  Root,           (* the path of the checkout: what RepositoryName takes off *)
  Disk,           (* the headers that can be read: full path -> includes     *)
  NormalTrigger, TestTrigger, (* of _FunctionState, at verbosity 0           *)
  Verbosity       (* verbose_level                                           *)

NoInclude == [path |-> << >>]

Lines ==
  [pp : {"", "if", "else", "endif"}, toks : Seq(Tokens), indent : BOOLEAN, macro : BOOLEAN,
   comment : {"none", "right", "wrong"}, call : {"", "function", "test", "macro"},
   include : {NoInclude} \cup [path : Seq(STRING), system : BOOLEAN, cpp : BOOLEAN,
                               key : Nat \ {0}, third_party : BOOLEAN],
   uses : SUBSET Seq(STRING)]

(* A line has one directive at most, and one that begins with "name(" is no *)
(* lone brace; of a conditional the blocks see a word.                      *)
ASSUME FilesAssumption ==
  \A kind \in Files :
    /\ kind.length \in Nat /\ kind.beginning \in Seq(Lines) /\ kind.alphabet \subseteq Lines
    /\ \A l \in kind.alphabet \cup ToSet(kind.beginning) :
         /\ IsFiniteSet(l.uses)
         /\ l.include # NoInclude => l.pp = ""
         /\ l.call # "" => l.toks # <<"}">>
         /\ l.pp # "" => l.toks = <<"word">>

ASSUME TriggersAssumption ==
  NormalTrigger \in Nat \ {0} /\ TestTrigger \in Nat \ {0} /\ Verbosity \in Nat

VARIABLES
  text,     (* the file, its name from the root                              *)
  line,     (* the line in hand; after the last one: the checks of the whole *)
  done,     (* ProcessFileData has returned                                  *)
  nest,     (* nesting_state                                                 *)
  includes, (* include_state                                                 *)
  function, (* function_state                                                *)
  skipped,  (* history: the lines in an asm block, not checked               *)
  errors    (* the errors raised                                             *)

vars == <<text, line, done, nest, includes, function, skipped, errors>>

lines == text.lines

Init ==
  /\ \E kind \in Files :
       \E name \in kind.names, ls \in [1 .. kind.length -> kind.alphabet] :
         text = [name |-> name, lines |-> kind.beginning \o ls]
  /\ line = 1 /\ done = FALSE
  /\ nest = EmptyNesting
  /\ includes = EmptyIncludes
  /\ function = [in_a_function |-> FALSE, lines_in_function |-> 0, current_function |-> ""]
  /\ skipped = {} /\ errors = << >>

-----------------------------------------------------------------------------
(* CheckForFunctionLengths and _FunctionState.                              *)

Has(n, ts) == \E i \in DOMAIN lines[n].toks : lines[n].toks[i] \in ts

StartingFunc(n) == lines[n].call \in {"function", "test"}
FunctionEnd(n) == lines[n].toks = <<"}">> /\ ~lines[n].indent

(* The first line from n on that tells a body from a declaration. *)
Telling(n) == {m \in n .. Len(lines) : Has(m, {";", "{", "}"})}
BodyBegins(n) == Telling(n) # {} /\ ~Has(Min(Telling(n)), {";", "}"})

(* A mutant: the lines of the function before are not forgotten. *)
BeginInside(n) == [function EXCEPT !.in_a_function = TRUE, !.current_function = lines[n].call]

Begin(n) == [in_a_function |-> TRUE, lines_in_function |-> 0, current_function |-> lines[n].call]
Count == IF function.in_a_function THEN [function EXCEPT !.lines_in_function = @ + 1] ELSE function
End == [function EXCEPT !.in_a_function = FALSE]

BaseTrigger(f) == IF f = "test" THEN TestTrigger ELSE NormalTrigger

Check(n) ==
  LET base == BaseTrigger(function.current_function)
      times == function.lines_in_function \div base
  IN IF function.lines_in_function > base * 2^Verbosity
     THEN <<[line |-> n, category |-> "readability/fn_size",
             confidence |-> Max({k \in 0 .. 5 : 2^k <= times})]>>
     ELSE << >>

(* The new function_state and the errors. *)
CheckForFunctionLengths(n) ==
  CASE StartingFunc(n) ->
         [function |-> IF BodyBegins(n) THEN Begin(n) ELSE function,
          errors |-> IF Telling(n) # {} THEN << >>
                     ELSE <<[line |-> n, category |-> "readability/fn_size", confidence |-> 5]>>]
    [] ~StartingFunc(n) /\ FunctionEnd(n) -> [function |-> End, errors |-> Check(n)]
    [] ~StartingFunc(n) /\ ~FunctionEnd(n) ->
         [function |-> IF IsBlankLine(lines[n]) THEN function ELSE Count, errors |-> << >>]

(* The part of CheckLanguage about includes. *)
CheckLanguage(n) ==
  LET l == lines[n] IN
  IF l.include # NoInclude
  THEN CheckIncludeLine(text.name, includes, l.include, n,
                        n > 1 /\ lines[n - 1].include # NoInclude)
  ELSE [state |-> IF l.pp = "" THEN includes ELSE ResetSection(includes, l.pp), errors |-> << >>]

-----------------------------------------------------------------------------
ProcessLine ==
  /\ line <= Len(lines)
  /\ LET updated == Update(nest, lines, line)
         indented == CheckForNamespaceIndentation(updated.nest, lines, line)
         asm == InAsmBlock(updated.nest.stack)
         length == CheckForFunctionLengths(line)
         class == CheckAccess(updated.nest, lines, line) \o CheckSectionSpacing(updated.nest, lines, line)
         language == CheckLanguage(line)
     IN /\ nest' = updated.nest
        /\ IF asm
           THEN /\ skipped' = skipped \cup {line}
                /\ errors' = errors \o updated.errors \o indented
                /\ UNCHANGED <<includes, function>>
           ELSE /\ errors' = errors \o updated.errors \o indented
                              \o length.errors \o class \o language.errors
                /\ includes' = language.state
                /\ function' = length.function
                /\ UNCHANGED skipped
  /\ line' = line + 1
  /\ UNCHANGED <<text, done>>

(* header -> the last line, no directive, that needs it. *)
Uses ==
  LET using(h) == {n \in DOMAIN lines : h \in lines[n].uses /\ lines[n].pp = ""}
  IN [h \in UNION {lines[n].uses : n \in {m \in DOMAIN lines : lines[m].pp = ""}} |-> Max(using(h))]

(* The required headers come in no particular order. *)
FinishFile ==
  /\ line > Len(lines)
  /\ ~done
  /\ LET missing == CheckForIncludeWhatYouUse(Root \o text.name, includes, Uses, Disk)
     IN errors' = errors \o CheckCompletedBlocks(nest.stack)
          \o SetToSeq({[line |-> Uses[h], category |-> "build/include_what_you_use", header |-> h] :
                         h \in missing})
          \o (IF Extension(text.name) = ".cc"
              THEN CheckHeaderFileIncluded(Root, text.name, includes, Disk) ELSE << >>)
  /\ done' = TRUE
  /\ UNCHANGED <<text, line, nest, includes, function, skipped>>

Next == ProcessLine \/ FinishFile

Spec == Init /\ [][Next]_vars

-----------------------------------------------------------------------------
(* The references below read the text as the preprocessor does: of a         *)
(* conditional that is over the first branch, of one that is open the branch *)
(* in hand.                                                                  *)

(* The conditionals around each line: the line of the #if and of the branch. *)
Around ==
  LET at[n \in 0 .. Len(lines)] ==
        IF n = 0 THEN << >>
        ELSE LET outer == at[n - 1] IN
             CASE lines[n].pp = "if" -> Append(outer, [start |-> n, branch |-> n])
               [] lines[n].pp = "else" /\ outer # << >> ->
                    Append(Front(outer), [Last(outer) EXCEPT !.branch = n])
               [] lines[n].pp = "endif" /\ outer # << >> -> Front(outer)
               [] OTHER -> outer
  IN at

Directives == {n \in DOMAIN lines : lines[n].pp # ""}

(* Line m is part of the text that line n stands in. *)
Live(around, m, n) ==
  \A i \in DOMAIN around[m] :
    LET open == i \in DOMAIN around[n] /\ around[n][i].start = around[m][i].start IN
    around[m][i].branch = IF open THEN around[n][i].branch ELSE around[m][i].start

(* The tokens of the live lines up to n, with their lines. *)
LiveText(n) ==
  LET around == Around
      live == SelectSeq([m \in 1 .. n |-> m], LAMBDA m : Live(around, m, n))
      Marked(m) == [i \in DOMAIN lines[m].toks |-> [t |-> lines[m].toks[i], n |-> m]]
  IN FlattenSeq([k \in DOMAIN live |-> Marked(live[k])])

Between(s, i, j, ts) == {k \in i .. j : s[k].t \in ts}

(* The bracket at i of s is open at the end: nothing closes more than it opens. *)
StillOpen(s, i, open, close) ==
  \A j \in i + 1 .. Len(s) :
    Cardinality(Between(s, i + 1, j, {close})) <= Cardinality(Between(s, i + 1, j, {open}))

(* A class in a template list is no head: a ">" comes before its body. *)
IsHead(s, i) ==
  \/ s[i].t = "namespace"
  \/ /\ s[i].t \in ClassWords
     /\ LET tells == Between(s, i, Len(s), {"{", "}", ";", ">"}) IN
        tells = {} \/ s[Min(tells)].t # ">"

KindOf(word) == IF word \in ClassWords THEN "class" ELSE word

(* What the blocks open after line n are by the whole text before. *)
OpenBlocks(n) ==
  LET s == LiveText(n)
      ahead == s \o FlattenSeq([m \in 1 .. Len(lines) - n |->
                                  [i \in DOMAIN lines[n + m].toks |-> [t |-> lines[n + m].toks[i], n |-> n + m]]])
      heads == {i \in DOMAIN s : IsHead(ahead, i)}
      Pending(i, j) == i \in heads /\ Between(s, i + 1, j, Separators) = {}
      IsOpen(i) == (s[i].t = "{" /\ StillOpen(s, i, "{", "}")) \/ Pending(i, Len(s))
      open == SelectSeq([i \in DOMAIN s |-> i], IsOpen)
      Of(i) == IF i \in heads THEN [kind |-> KindOf(s[i].t), line |-> s[i].n, seen_open_brace |-> FALSE]
               ELSE LET head == {h \in 1 .. i : Pending(h, i - 1)} IN
                    IF head = {} THEN [kind |-> "block", line |-> s[i].n, seen_open_brace |-> TRUE]
                    ELSE [kind |-> KindOf(s[Max(head)].t), line |-> s[Max(head)].n, seen_open_brace |-> TRUE]
  IN [k \in DOMAIN open |-> Of(open[k])]

(* One head to a brace or a semicolon, and no list of parameters. *)
Conventional ==
  LET s == LiveText(line - 1) IN
  /\ Between(s, 1, Len(s), {"asm", "(", ")"}) = {}
  /\ \A i \in DOMAIN s :
       s[i].t \in Heads \cup ClassWords =>
         \A j \in Between(s, i + 1, Len(s), Heads \cup ClassWords \cup {"}"}) : Between(s, i, j, {"{", ";", ">"}) # {}

(* The stack kept line by line is that of the braces open in the text, each  *)
(* a namespace, a class or another block by the head before it, and survives *)
(* every conditional, nested or not, with blocks opened or closed in some of *)
(* its branches only.                                                        *)
StackIsTheOpenBraces ==
  Conventional /\ ~done =>
    OpenBlocks(line - 1) =
      [k \in DOMAIN nest.stack |->
         [kind |-> IF nest.stack[k].kind \in Heads THEN nest.stack[k].kind ELSE "block",
          line |-> nest.stack[k].line, seen_open_brace |-> nest.stack[k].seen_open_brace]]

(* No brace stands in parentheses. *)
BracesOutside(s) ==
  \A j \in Between(s, 1, Len(s), {"{", "}"}) : \A i \in Between(s, 1, j, {"("}) :
    ~StillOpen(SubSeq(s, 1, j), i, "(", ")")

(* Checking resumes after inline assembly: a line is left out only if an asm *)
(* list or block opened on it or before it is still open, whatever blocks    *)
(* and conditionals came in between.                                         *)
ChecksResume ==
  \A n \in skipped :
    LET s == LiveText(n)
        before == SelectSeq(s, LAMBDA x : x.n < n)
    IN BracesOutside(s) =>
       \E i \in Between(s, 1, Len(s) - 1, {"asm"}) :
         /\ s[i + 1].t \in {"(", "{"}
         /\ i < Len(before) =>
              StillOpen(before, i + 1, s[i + 1].t, IF s[i + 1].t = "(" THEN ")" ELSE "}")

-----------------------------------------------------------------------------
Reported(category) == {errors[i].line : i \in {j \in DOMAIN errors : errors[j].category = category}}

Path(n) == lines[n].include.path
Included(upto) == {n \in (1 .. upto) \ skipped : lines[n].include # NoInclude}
SameSection(m, n) == (Directives \ skipped) \cap m .. n = {}
Foreign(n) == \/ Extension(Path(n)) = ".cc" /\ DirName(Path(n)) # DirName(text.name)
              \/ lines[n].include.third_party

(* The order the style guide asks for: its own header, C, C++, the others. *)
Rank(n) ==
  LET type == _ClassifyInclude(text.name, lines[n].include) IN
  CASE type = "c_system" -> 2
    [] type = "cpp_system" -> 3
    [] type = "other" -> 4
    [] type \in {"likely_mine", "possibly_mine"} ->
         IF \E m \in Included(n - 1) : /\ SameSection(m, n) /\ ~Foreign(m)
                                       /\ _ClassifyInclude(text.name, lines[m].include)
                                            \notin {"likely_mine", "possibly_mine"}
         THEN 4 ELSE 1

(* A header of the system is out of order when, and only when, one of a      *)
(* later kind stands before it in its section, however far and whatever was  *)
(* reported in between.                                                      *)
OrderIsJudged ==
  (\A m, n \in Included(line - 1) : Path(m) = Path(n) => m = n) =>
    Reported("build/include_order") =
      {n \in Included(line - 1) :
         /\ ~Foreign(n)
         /\ Rank(n) \in {2, 3}
         /\ \E m \in Included(n - 1) : SameSection(m, n) /\ ~Foreign(m) /\ Rank(m) > Rank(n)}

Exclusive(around, m, n) ==
  \E i \in DOMAIN around[m] \cap DOMAIN around[n] :
    around[m][i].start = around[n][i].start /\ around[m][i].branch # around[n][i].branch

Matched(around) ==
  \A n \in Directives : lines[n].pp \in {"else", "endif"} => around[n - 1] # << >>
Nested(around) == \E n \in DOMAIN lines : Len(around[n]) > 1

(* A header included again is told when the first stands in no conditional,  *)
(* whatever conditionals, nested or in assembly, stand between.  Where they  *)
(* are not nested, and none is in assembly, it is told only when one before  *)
(* it stands in no other branch of the conditional around it: what an #else  *)
(* makes the file forget is only the branch.                                 *)
DuplicatesAreReported ==
  LET around == Around
      Again(n) == {m \in Included(n - 1) : Path(m) = Path(n) /\ ~Foreign(m)}
  IN Matched(around) /\ ~done =>
       \A n \in Included(line - 1) :
         /\ (\E m \in Again(n) : around[m] = << >>) => n \in Reported("build/include")
         /\ ~Nested(around) /\ Directives \cap skipped = {} =>
              (n \in Reported("build/include") /\ ~Foreign(n) /\ "/" \in ToSet(Path(n)) =>
                 \E m \in Again(n) : ~Exclusive(around, m, n))

(* The lines of a body: those with code from its head to the first brace in  *)
(* the first column.                                                         *)
Body(f) ==
  LET ends == {e \in f + 1 .. Len(lines) : FunctionEnd(e)}
  IN {m \in f + 1 .. (IF ends = {} THEN Len(lines) ELSE Min(ends) - 1) :
        lines[m].toks # << >> /\ ~StartingFunc(m)}

(* A function whose body has more lines than the limit is told at the braces *)
(* in the first column that follow it, up to the next function, whatever the *)
(* file holds before, and no other function ever is.                         *)
LongFunctionsAreTold ==
  LET heads == {f \in 1 .. line - 1 : StartingFunc(f) /\ BodyBegins(f)}
      HeadOf(n) == {f \in heads : f < n}
      limit(f) == BaseTrigger(lines[f].call) * 2^Verbosity
  IN skipped = {} =>
     {n \in Reported("readability/fn_size") : FunctionEnd(n)} =
       {n \in 1 .. line - 1 :
          /\ FunctionEnd(n) /\ HeadOf(n) # {}
          /\ Cardinality(Body(Max(HeadOf(n)))) > limit(Max(HeadOf(n)))}

(* The open brace of s that token j stands in, or 0. *)
InnerBrace(s, j) ==
  Max({0} \cup {i \in 1 .. j - 1 : s[i].t = "{" /\ StillOpen(SubSeq(s, 1, j - 1), i, "{", "}")})

(* The class word whose body the brace at i begins, or 0. *)
ClassWordOf(s, i) ==
  Max({0} \cup {h \in 1 .. i - 1 : s[h].t \in ClassWords /\ Between(s, h + 1, i - 1, Separators) = {}})

(* A DISALLOW macro is told when, and only when, the section of its class in *)
(* which it stands is not private, whatever classes and conditionals were    *)
(* opened and closed since the section began.                                *)
DisallowIsPrivate ==
  \A n \in {m \in 1 .. line - 1 : lines[m].toks # << >> /\ lines[m].toks[1] = "DISALLOW"} :
    LET s == LiveText(n)
        j == Len(s) - Len(lines[n].toks) + 1
        brace == InnerBrace(s, j)
        word == ClassWordOf(s, brace)
        labels == {l \in brace + 1 .. j - 1 : s[l].t \in Labels /\ InnerBrace(s, l) = brace}
        private == IF labels # {} THEN s[Max(labels)].t = "private:" ELSE s[word].t = "class"
    IN n \in Reported("readability/constructors") <=> brace # 0 /\ word # 0 /\ ~private

(* The line of the brace that closes the one at i, or 0. *)
ClosedOn(s, i) ==
  LET ends == {j \in i + 1 .. Len(s) : ~StillOpen(SubSeq(s, 1, j), i, "{", "}")}
  IN IF ends = {} THEN 0 ELSE s[Min(ends)].n

(* A section is told when, and only when, a line of code that is no head of a *)
(* class stands right over it, in a class whose text, from the line of its    *)
(* head to the closing brace, is longer than the limit. It is about classes   *)
(* whose brace is on the line of the head: for the others, which by the       *)
(* comment at 3853-3856 the check accounts for, the code finds no end but the *)
(* head (2080-2085) and never looks at them.                                  *)
SectionsAreSpaced ==
  \A n \in {m \in 2 .. line - 1 : lines[m].toks # << >> /\ lines[m].toks[1] \in Labels \ {"signals:"}} :
    LET s == LiveText(n)
        brace == InnerBrace(s, Len(s) - Len(lines[n].toks) + 1)
        word == ClassWordOf(s, brace)
        over == lines[n - 1].toks
    IN Directives = {} /\ brace # 0 /\ word # 0 /\ s[brace].n = s[word].n =>
       (n \in Reported("whitespace/blank_line") <=>
          /\ over # << >> /\ ToSet(over) \cap ClassWords = {} /\ ~lines[n].macro
          /\ ClosedOn(LiveText(Len(lines)), brace) - s[word].n > SmallClass)

(* No label comes between the head of a class and its brace. *)
LabelsInBodies ==
  LET s == LiveText(line - 1) IN
  \A i \in 1 .. Len(s) : s[i].t \in ClassWords =>
    \A j \in Between(s, i, Len(s), Labels) : Between(s, i, j, Separators) # {}

(* What is told of a class is about its own sections, from its head to its    *)
(* closing brace, whatever is nested in it or left to the preprocessor.       *)
ClassesAreJudged == Conventional /\ LabelsInBodies => DisallowIsPrivate /\ SectionsAreSpaced

Missing == {errors[i].header : i \in {j \in DOMAIN errors : errors[j].category = "build/include_what_you_use"}}
Used == UNION {lines[n].uses : n \in DOMAIN lines \ Directives}
Accepted == {n \in Included(Len(lines)) : ~Foreign(n)}
Certain(around) == {Path(n) : n \in {m \in Accepted : around[m] = << >>}}
FullName == Root \o text.name

(* What is told to be missing is used and not included for certain, whatever *)
(* conditionals, nested or in assembly, stand between; in a header whatever  *)
(* is used and nowhere included is told.                                     *)
MissingIsMissing ==
  done /\ Matched(Around) =>
     /\ Missing \subseteq Used \ Certain(Around)
     /\ Extension(FullName) # ".cc" => Used \ {Path(n) : n \in Accepted} \subseteq Missing

(* A source file is judged only with its own header: with its includes, which *)
(* are not missing, when it is on the disk, and what no header has then is;   *)
(* nothing is when no header that it includes is on the disk.                 *)
OwnHeaderIsRead ==
  LET own == {p \in Certain(Around) :
                Root \o p \in DOMAIN Disk /\ SplitExt(p) = Without(SplitExt(text.name), <<"_", "test">>)}
      found == {n \in Accepted : \E h \in DOMAIN Disk : IsSuffix(Path(n), h)}
  IN done /\ Matched(Around) /\ Extension(FullName) = ".cc" =>
     /\ found = {} => Missing = {}
     /\ \A p \in own :
          /\ Missing \cap ToSet(Disk[Root \o p]) = {}
          /\ Used \ ({Path(n) : n \in Accepted} \cup UNION {ToSet(Disk[h]) : h \in DOMAIN Disk}) \subseteq Missing
=============================================================================
