------------------------------- MODULE Nesting ------------------------------
(***************************************************************************)
(* NestingState of cpplint.py: the stack of blocks open at a line of C++,  *)
(* kept line by line without a parser.  A line is what the regular         *)
(* expressions look for in it:                                             *)
(*   pp       "if", "else" (or elif), "endif", or "" for no directive      *)
(*   toks     the tokens, a word for a directive; a balanced template list *)
(*            belongs to its word                                          *)
(*            (extern is extern "C" at the beginning of the line or right  *)
(*            after a brace, a semicolon or a closing parenthesis)         *)
(*   indent   it begins with white space                                   *)
(*   macro    it is part of a #define                                      *)
(*   comment  the end-of-namespace comment: "none", "right" or "wrong"     *)
(* The names of classes and namespaces and the layout of classes are left  *)
(* out, and so are the checks of names and layout.                         *)
(***************************************************************************)
EXTENDS Integers, Sequences, FiniteSets, SequencesExt

CONSTANTS
  NamespaceLines,   (* 10: a shorter namespace needs no comment at its end *)
  SmallClass        (* 24: in a class of so many lines sections may touch  *)

Heads == {"namespace", "class"}     (* the kinds of block with a name      *)
ClassWords == {"class", "struct"}
Labels == {"public:", "protected:", "private:", "signals:"}
Tokens == Heads \cup ClassWords \cup Labels \cup
          {"{", "}", ";", "(", ")", ">", "asm", "extern", "DISALLOW", "word"}

(* _BlockInfo and the classes derived from it: check_namespace_indentation *)
(* holds for the kinds in Heads.                                           *)
Block(kind, seen_open_brace, n) ==
  [kind |-> kind, seen_open_brace |-> seen_open_brace, open_parentheses |-> 0,
   inline_asm |-> "no", line |-> n, access |-> "none", last_line |-> 0]

EmptyNesting == [stack |-> << >>, previous_stack_top |-> 0, pp_stack |-> << >>]

SeenOpenBrace(stack) == stack = << >> \/ Last(stack).seen_open_brace
InAsmBlock(stack) == stack # << >> /\ Last(stack).inline_asm # "no"
OnTop(stack, block) == Front(stack) \o <<block>>

-----------------------------------------------------------------------------
(* A mutant: the last branch before another #else counts, not the first. *)
UpdatePreprocessorLastElse(nest, pp) ==
  LET top == Last(nest.pp_stack)
      open == nest.pp_stack # << >>
  IN CASE pp = "if" ->
            [nest EXCEPT !.pp_stack = Append(@, [stack_before_if |-> nest.stack,
                                                 stack_before_else |-> << >>, seen_else |-> FALSE])]
       [] pp = "else" /\ open ->
            [nest EXCEPT !.stack = top.stack_before_if,
                         !.pp_stack = OnTop(@, [top EXCEPT !.seen_else = TRUE, !.stack_before_else = nest.stack])]
       [] pp = "endif" /\ open ->
            [nest EXCEPT !.stack = IF top.seen_else THEN top.stack_before_else ELSE @,
                         !.pp_stack = Front(@)]
       [] OTHER -> nest

(* A mutant: an #else goes on with the stack of the branch before. *)
UpdatePreprocessorOnward(nest, pp) ==
  LET top == Last(nest.pp_stack)
      open == nest.pp_stack # << >>
  IN CASE pp = "if" ->
            [nest EXCEPT !.pp_stack = Append(@, [stack_before_if |-> nest.stack,
                                                 stack_before_else |-> << >>, seen_else |-> FALSE])]
       [] pp = "endif" /\ open -> [nest EXCEPT !.pp_stack = Front(@)]
       [] OTHER -> nest

(* UpdatePreprocessor: the stack of before an #if is restored at each #else, *)
(* that of before the first #else at the #endif.                             *)
UpdatePreprocessor(nest, pp) ==
  LET top == Last(nest.pp_stack)
      open == nest.pp_stack # << >>
  IN CASE pp = "if" ->
            [nest EXCEPT !.pp_stack = Append(@, [stack_before_if |-> nest.stack,
                                                 stack_before_else |-> << >>, seen_else |-> FALSE])]
       [] pp = "else" /\ open ->
            [nest EXCEPT !.stack = top.stack_before_if,
                         !.pp_stack = IF top.seen_else THEN @
                           ELSE OnTop(@, [top EXCEPT !.seen_else = TRUE, !.stack_before_else = nest.stack])]
       [] pp = "endif" /\ open ->
            [nest EXCEPT !.stack = IF top.seen_else THEN top.stack_before_else ELSE @,
                         !.pp_stack = Front(@)]
       [] OTHER -> nest

(* Parentheses are counted in the innermost block; asm ( ... ) spans lines. *)
HowMany(toks, t) == Cardinality({i \in DOMAIN toks : toks[i] = t})
StartsAsm(toks) == Len(toks) > 1 /\ toks[1] = "asm" /\ toks[2] \in {"(", "{"}

(* A mutant: the end of the list is not the end of the assembly. *)
CountParenthesesOnce(stack, toks) ==
  IF stack = << >> THEN stack
  ELSE LET change == HowMany(toks, "(") - HowMany(toks, ")")
           b == [Last(stack) EXCEPT !.open_parentheses = @ + change]
       IN OnTop(stack, [b EXCEPT !.inline_asm =
            IF change # 0 /\ b.open_parentheses = 1 /\ StartsAsm(toks) THEN "inside" ELSE @])

CountParentheses(stack, toks) ==
  IF stack = << >> THEN stack
  ELSE LET change == HowMany(toks, "(") - HowMany(toks, ")")
           b == [Last(stack) EXCEPT !.open_parentheses = @ + change]
           asm == CASE b.inline_asm \in {"no", "end"} ->
                         IF change # 0 /\ b.open_parentheses = 1 /\ StartsAsm(toks)
                         THEN "inside" ELSE "no"
                    [] b.inline_asm = "inside" /\ b.open_parentheses = 0 -> "end"
                    [] OTHER -> b.inline_asm
       IN OnTop(stack, [b EXCEPT !.inline_asm = asm])

(* Namespace heads that begin the line: how many, which of them have their  *)
(* brace (it may stand anywhere on the line), and where the rest begins.    *)
LeadingNamespaces(toks) ==
  LET from[i \in 1 .. Len(toks) + 1] ==
        IF i > Len(toks) \/ toks[i] # "namespace" THEN [braces |-> << >>, rest |-> i]
        ELSE LET open == {j \in i + 1 .. Len(toks) : toks[j] = "{"}
                 next == from[IF open = {} THEN i + 1 ELSE Min(open) + 1]
             IN [next EXCEPT !.braces = <<open # {}>> \o @]
  IN from[1]

(* InTemplateArgumentList, from token i of line n: the first token that tells. *)
InTemplateArgumentList(text, n, i) ==
  LET tells == {"{", "}", ";", ">"}
      Telling(m) == {j \in DOMAIN text[m].toks : text[m].toks[j] \in tells /\ (m = n => j >= i)}
      lines == {m \in n .. Len(text) : Telling(m) # {}}
  IN lines # {} /\ text[Min(lines)].toks[Min(Telling(Min(lines)))] = ">"

(* The line where as many braces are closed as opened since line n, if any. *)
EndOfClass(text, n) ==
  LET depth[i \in n - 1 .. Len(text)] ==
        IF i = n - 1 THEN 0
        ELSE depth[i - 1] + HowMany(text[i].toks, "{") - HowMany(text[i].toks, "}")
      level == {i \in n .. Len(text) : depth[i] = 0}
  IN IF level = {} THEN 0 ELSE Min(level)

(* _ClassInfo, for the class or struct that word begins. *)
ClassInfo(text, n, word) ==
  [Block("class", FALSE, n) EXCEPT !.access = IF word = "struct" THEN "public:" ELSE "private:",
                                   !.last_line = EndOfClass(text, n)]

(* A mutant: the label is that of the class around, if there is one. *)
SetAccessOfOuter(stack, rest) ==
  LET labels == {j \in DOMAIN rest : rest[j] \in Labels}
      classes == {k \in DOMAIN stack : stack[k].kind = "class"} IN
  IF classes # {} /\ labels # {}
  THEN [stack EXCEPT ![Min(classes)].access = rest[Max(labels)]] ELSE stack

(* The last label of what is left of the line is taken for the block on top. *)
SetAccess(stack, rest) ==
  LET labels == {j \in DOMAIN rest : rest[j] \in Labels} IN
  IF stack # << >> /\ Last(stack).kind = "class" /\ labels # {}
  THEN OnTop(stack, [Last(stack) EXCEPT !.access = rest[Max(labels)]]) ELSE stack

(* _NamespaceInfo.CheckEnd; that of the other blocks looks at layout only. *)
CheckEnd(block, line, n) ==
  IF /\ block.kind = "namespace"
     /\ n - block.line >= NamespaceLines \/ line.comment # "none"
     /\ line.comment # "right"
  THEN <<[line |-> n, category |-> "readability/namespace"]>> ELSE << >>

(* The braces, semicolons and closing parentheses of the rest of the line.  *)
Separators == {"{", ";", ")", "}"}

Consume(stack, line, n, rest) ==
  LET toks == line.toks
      Start(i) == Max({rest} \cup {j + 1 : j \in {k \in rest .. i - 1 : toks[k] \in Separators}})
      Opened(i) == CASE SubSeq(toks, Start(i), i) = <<"extern", "{">> /\ (Start(i) = 1 => ~line.indent) ->
                          Block("extern", TRUE, n)
                     [] StartsAsm(SubSeq(toks, Start(i), i)) ->
                          [Block("block", TRUE, n) EXCEPT !.inline_asm = "block"]
                     [] OTHER -> Block("block", TRUE, n)
      Step(s, i) ==
        CASE toks[i] = "{" /\ ~SeenOpenBrace(s.stack) ->
               [s EXCEPT !.stack = OnTop(@, [Last(@) EXCEPT !.seen_open_brace = TRUE])]
          [] toks[i] = "{" /\ SeenOpenBrace(s.stack) -> [s EXCEPT !.stack = Append(@, Opened(i))]
          [] toks[i] \in {";", ")"} /\ ~SeenOpenBrace(s.stack) -> [s EXCEPT !.stack = Front(@)]
          [] toks[i] = "}" /\ s.stack # << >> ->
               [stack |-> Front(s.stack), errors |-> s.errors \o CheckEnd(Last(s.stack), line, n)]
          [] OTHER -> s
  IN FoldLeft(Step, [stack |-> stack, errors |-> << >>],
              [k \in 1 .. Len(toks) + 1 - rest |-> rest + k - 1])

(* Update: the new state and the errors.  InTemplateArgumentList is given an *)
(* offset in what is left of the line, but looks at the whole of it: after a *)
(* namespace on the same line it meets the brace of the namespace.           *)
Update(nest, text, n) ==
  LET line == text[n]
      pp == UpdatePreprocessor(nest, line.pp)
      counted == CountParentheses(pp.stack, line.toks)
      lead == LeadingNamespaces(line.toks)
      inside == counted \o [k \in DOMAIN lead.braces |-> Block("namespace", lead.braces[k], n)]
      class == /\ lead.rest <= Len(line.toks)
               /\ line.toks[lead.rest] \in ClassWords
               /\ inside = << >> \/ Last(inside).open_parentheses = 0
               /\ lead.rest # 1 \/ ~InTemplateArgumentList(text, n, 2)
      rest == IF class THEN lead.rest + 1 ELSE lead.rest
      begun == IF class THEN Append(inside, ClassInfo(text, n, line.toks[lead.rest])) ELSE inside
      left == Consume(SetAccess(begun, SubSeq(line.toks, rest, Len(line.toks))), line, n, rest)
  IN [nest |-> [pp EXCEPT !.stack = left.stack, !.previous_stack_top = Len(nest.stack)],
      errors |-> left.errors]

-----------------------------------------------------------------------------
(* CheckForNamespaceIndentation, after Update of line n. *)

IsForwardClassDeclaration(line) ==
  Len(line.toks) > 1 /\ SubSeq(line.toks, Len(line.toks) - 1, Len(line.toks)) = <<"class", ";">>

(* The block on top was put directly on the one that was on top before. *)
IsNamespaceIndentItem(nest, n) ==
  LET k == Len(nest.stack) IN
  /\ k > 1
  /\ nest.stack[k].kind \in Heads /\ nest.stack[k].line = n
  /\ nest.stack[k - 1].kind = "namespace" /\ nest.previous_stack_top = k - 1

IsBlockInNameSpace(nest, is_forward_declaration) ==
  LET k == Len(nest.stack) IN
  IF is_forward_declaration THEN k >= 1 /\ nest.stack[k].kind = "namespace"
  ELSE k > 1 /\ nest.stack[k].kind \in Heads /\ nest.stack[k - 1].kind = "namespace"

CheckForNamespaceIndentation(nest, text, n) ==
  LET forward == IsForwardClassDeclaration(text[n]) IN
  IF /\ forward \/ IsNamespaceIndentItem(nest, n)
     /\ ~text[n].macro
     /\ IsBlockInNameSpace(nest, forward)
     /\ text[n].indent
  THEN <<[line |-> n, category |-> "runtime/indentation_namespace"]>> ELSE << >>

-----------------------------------------------------------------------------
(* The checks of classes, after Update of line n. *)

Told(cond, n, category) == IF cond THEN <<[line |-> n, category |-> category]>> ELSE << >>

(* CheckAccess: a DISALLOW macro of a class that is not in a private section. *)
CheckAccess(nest, text, n) ==
  Told(/\ text[n].toks # << >> /\ text[n].toks[1] = "DISALLOW"
         /\ nest.stack # << >> /\ Last(nest.stack).kind = "class"
         /\ Last(nest.stack).access # "private:", n, "readability/constructors")

InnermostClass(stack) == Max({0} \cup {k \in DOMAIN stack : stack[k].kind = "class"})
IsBlankLine(line) == line.toks = << >>

(* CheckSectionSpacing: in a class that is not small, a section that begins  *)
(* right under a line of code, which is no head of a class.                  *)
CheckSectionSpacing(nest, text, n) ==
  LET k == InnermostClass(nest.stack)
      class == nest.stack[k]
      ends == {i \in class.line .. n - 1 : ~IsBlankLine(text[i]) /\ Last(text[i].toks) = "{"}
      end_class_head == IF ends = {} THEN class.line ELSE Min(ends)
      before == text[n - 1]
  IN Told(/\ k > 0 /\ class.last_line - class.line > SmallClass
            /\ n > class.line
            /\ ~IsBlankLine(text[n]) /\ text[n].toks[1] \in Labels \ {"signals:"}
            /\ ~IsBlankLine(before) /\ ClassWords \cap ToSet(before.toks) = {} /\ ~text[n].macro
            /\ end_class_head < n - 1, n, "whitespace/blank_line")

(* CheckCompletedBlocks, after the last line. *)
CheckCompletedBlocks(stack) ==
  FoldLeft(LAMBDA told, b : told \o Told(b.kind = "class", b.line, "build/class")
                                 \o Told(b.kind = "namespace", b.line, "build/namespaces"),
           << >>, stack)
=============================================================================
