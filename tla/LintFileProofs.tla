--------------------------- MODULE LintFileProofs ---------------------------
(***************************************************************************)
(* One file, line by line, for any lines: the types of what is kept over   *)
(* the lines, the functions told to be too long, the includes told to be   *)
(* out of order, missing or there twice.                                   *)
(***************************************************************************)
EXTENDS LintFile, SharedLemmas

Blocks ==
  [kind : {"namespace", "class", "block", "extern"}, seen_open_brace : BOOLEAN, open_parentheses : Int,
   inline_asm : {"no", "inside", "end", "block"}, line : Nat, access : Labels \cup {"none"}, last_line : Nat]
Branches == [stack_before_if : Seq(Blocks), stack_before_else : Seq(Blocks), seen_else : BOOLEAN]
Nestings == [stack : Seq(Blocks), previous_stack_top : Nat, pp_stack : Seq(Branches)]

EndErrors == [line : Nat, category : {"readability/namespace"}]

(* What is left of a list without its last element. *)
LEMMA FrontTyped ==
  ASSUME NEW S, NEW s \in Seq(S), s # << >>
  PROVE  /\ Front(s) \in Seq(S) /\ Len(Front(s)) = Len(s) - 1 /\ Len(s) \in Nat \ {0}
         /\ \A i \in 1 .. Len(s) - 1 : Front(s)[i] = s[i]
         /\ Last(s) \in S /\ Last(s) = s[Len(s)]
  <1>1. Len(s) \in Nat \ {0}
    BY LenProperties, EmptySeq
  <1>2. /\ SubSeq(s, 1, Len(s) - 1) \in Seq(S) /\ Len(SubSeq(s, 1, Len(s) - 1)) = Len(s) - 1
        /\ \A i \in 1 .. Len(s) - 1 : SubSeq(s, 1, Len(s) - 1)[i] = s[i]
    <2>1. \A i \in 1 .. Len(s) - 1 : s[i] \in S
      BY <1>1, ElementOfSeq
    <2>. DEFINE k == Len(s) - 1
    <2>2. k \in Int /\ 1 \in Int /\ (IF 1 <= k THEN k - 1 + 1 ELSE 0) = k /\ k - 1 + 1 = k
      BY <1>1
    <2>3. /\ SubSeq(s, 1, k) \in Seq(S)
          /\ Len(SubSeq(s, 1, k)) = IF 1 <= k THEN k - 1 + 1 ELSE 0
          /\ \A i \in 1 .. k - 1 + 1 : SubSeq(s, 1, k)[i] = s[1 + i - 1]
      BY <2>1, <2>2, SubSeqProperties
    <2>. QED
      BY <2>2, <2>3
  <1>3. s[Len(s)] \in S
    BY <1>1, ElementOfSeq
  <1>. QED
    BY <1>1, <1>2, <1>3 DEF Front, Last

(* A stack with another block on top. *)
LEMMA OnTopTyped ==
  ASSUME NEW S, NEW s \in Seq(S), s # << >>, NEW b \in S
  PROVE  OnTop(s, b) \in Seq(S)
  <1>1. Front(s) \in Seq(S)
    BY FrontTyped
  <1>2. <<b>> \in Seq(S)
    OBVIOUS
  <1>. QED
    BY <1>1, <1>2, ConcatProperties DEF OnTop

(* A block as it is put on the stack. *)
LEMMA BlockTyped ==
  ASSUME NEW kind \in {"namespace", "class", "block", "extern"}, NEW seen \in BOOLEAN, NEW n \in Nat
  PROVE  Block(kind, seen, n) \in Blocks
  BY DEF Block, Blocks

(* What is put together from the rest of a line. *)
LEMMA ConsumeTyped ==
  ASSUME NEW stack \in Seq(Blocks), NEW l \in Lines, NEW n \in Nat, NEW rest \in 1 .. Len(l.toks) + 1
  PROVE  Consume(stack, l, n, rest) \in [stack : Seq(Blocks), errors : Seq(EndErrors)]
  <1>. DEFINE toks == l.toks
              Start(i) == Max({rest} \cup {j + 1 : j \in {k \in rest .. i - 1 : toks[k] \in Separators}})
              Opened(i) == CASE SubSeq(toks, Start(i), i) = <<"extern", "{">> /\ (Start(i) = 1 => ~l.indent) ->
                                  Block("extern", TRUE, n)
                             [] StartsAsm(SubSeq(toks, Start(i), i)) ->
                                  [Block("block", TRUE, n) EXCEPT !.inline_asm = "block"]
                             [] OTHER -> Block("block", TRUE, n)
              Step(s, i) ==
                CASE toks[i] = "{" /\ ~SeenOpenBrace(s.stack) ->
                       [s EXCEPT !.stack = OnTop(@, [Last(@) EXCEPT !.seen_open_brace = TRUE])]
                  [] toks[i] = "{" /\ SeenOpenBrace(s.stack) -> [s EXCEPT !.stack = Append(@, Opened(i))]
                  [] toks[i] \in {";", ")"} /\ ~SeenOpenBrace(s.stack) -> [s EXCEPT !.stack = Front(@)]
                  [] toks[i] = "}" /\ s.stack # << >> ->
                       [stack |-> Front(s.stack), errors |-> s.errors \o CheckEnd(Last(s.stack), l, n)]
                  [] OTHER -> s
              D == 1 .. Len(toks) + 1 - rest
              V == [stack : Seq(Blocks), errors : Seq(EndErrors)]
              seq == [k \in D |-> rest + k - 1]
              base == [stack |-> stack, errors |-> << >>]
              step == [vx \in V \X D |-> Step(vx[1], seq[vx[2]])]
              F(f) == [s \in SUBSET D |-> IF s = {} THEN base ELSE Step(f[s \ {Max(s)}], seq[Max(s)])]
              g == CHOOSE f : f = F(f)
              Good == {s \in SUBSET D : g[s] \in V}
  <1>0. Len(toks) \in Nat /\ toks \in Seq(Tokens) /\ Len(toks) + 1 - rest \in Nat
    <2>1. toks \in Seq(Tokens)
      BY DEF Lines
    <2>. QED
      BY <2>1, LenProperties
  <1>1. Picks(D)
    BY <1>0, GreatestPicks
  <1>2. ASSUME NEW i PROVE Opened(i) \in Blocks
    <2>1. Block("extern", TRUE, n) \in Blocks /\ Block("block", TRUE, n) \in Blocks
      BY BlockTyped
    <2>2. [Block("block", TRUE, n) EXCEPT !.inline_asm = "block"] \in Blocks
      BY <2>1 DEF Blocks
    <2>. HIDE DEF Start, toks
    <2>. QED
      BY <2>1, <2>2
  <1>3. \A b : CheckEnd(b, l, n) \in Seq(EndErrors)
    <2>1. [line |-> n, category |-> "readability/namespace"] \in EndErrors
      BY DEF EndErrors
    <2>2. <<[line |-> n, category |-> "readability/namespace"]>> \in Seq(EndErrors) /\ << >> \in Seq(EndErrors)
      BY <2>1
    <2>. QED
      BY <2>2 DEF CheckEnd
  <1>. HIDE DEF Opened
  <1>4. ASSUME NEW v \in V, NEW i PROVE Step(v, i) \in V
    <2>0. v.stack \in Seq(Blocks) /\ v.errors \in Seq(EndErrors) /\ v = [stack |-> v.stack, errors |-> v.errors]
      OBVIOUS
    <2>1. ASSUME ~SeenOpenBrace(v.stack)
          PROVE  /\ OnTop(v.stack, [Last(v.stack) EXCEPT !.seen_open_brace = TRUE]) \in Seq(Blocks)
                 /\ Front(v.stack) \in Seq(Blocks)
      <3>1. v.stack # << >> /\ Last(v.stack) \in Blocks /\ Front(v.stack) \in Seq(Blocks)
        BY <2>0, <2>1, FrontTyped DEF SeenOpenBrace
      <3>2. [Last(v.stack) EXCEPT !.seen_open_brace = TRUE] \in Blocks
        BY <3>1 DEF Blocks
      <3>. QED
        BY <2>0, <3>1, <3>2, OnTopTyped
    <2>2. Append(v.stack, Opened(i)) \in Seq(Blocks)
      BY <1>2, <2>0, AppendProperties
    <2>3. ASSUME v.stack # << >>
          PROVE  /\ Front(v.stack) \in Seq(Blocks)
                 /\ v.errors \o CheckEnd(Last(v.stack), l, n) \in Seq(EndErrors)
      BY <1>3, <2>0, <2>3, FrontTyped, ConcatProperties
    <2>4. CASE toks[i] = "{" /\ ~SeenOpenBrace(v.stack)
      BY <2>0, <2>1, <2>4
    <2>5. CASE toks[i] = "{" /\ SeenOpenBrace(v.stack)
      BY <2>0, <2>2, <2>5
    <2>6. CASE toks[i] \in {";", ")"} /\ ~SeenOpenBrace(v.stack)
      BY <2>0, <2>1, <2>6
    <2>7. CASE toks[i] = "}" /\ v.stack # << >>
      BY <2>0, <2>3, <2>7
    <2>8. CASE /\ ~(toks[i] = "{") /\ ~(toks[i] \in {";", ")"} /\ ~SeenOpenBrace(v.stack))
               /\ ~(toks[i] = "}" /\ v.stack # << >>)
      BY <2>0, <2>8
    <2>. QED
      BY <2>4, <2>5, <2>6, <2>7, <2>8
  <1>5. base \in V
    OBVIOUS
  <1>6. Consume(stack, l, n, rest) = g[D]
    <2>1. DOMAIN seq = D
      OBVIOUS
    <2>. QED
      BY <2>1, Zenon DEF Consume, FoldLeft, MapThenFoldSet, Opened
  <1>. HIDE DEF Step, V, D, seq, base
  <1>7. \E f \in [SUBSET D -> V] : f = F(f)
    <2>1. step \in [V \X D -> V]
      BY <1>4
    <2>2. \A v \in V, i \in D : step[<<v, i>>] = Step(v, seq[i])
      OBVIOUS
    <2>. HIDE DEF step
    <2>4. Foldable(D, V, base, Greatest(D), step)
      BY <1>1, <1>5, <2>1 DEF Foldable, Picks
    <2>5. PICK f : IsFold(f, D, V, base, Greatest(D), step)
      BY <2>4, FoldExists DEF HasFold
    <2>6. \A s \in SUBSET D : s # {} =>
            step[<<f[s \ {Max(s)}], Max(s)>>] = Step(f[s \ {Max(s)}], seq[Max(s)])
      BY <1>1, <2>2, <2>5 DEF IsFold, Picks
    <2>7. f = F(f)
      <3>1. f = [s \in SUBSET D |-> f[s]]
        BY <2>5 DEF IsFold
      <3>2. \A s \in SUBSET D : f[s] = IF s = {} THEN base ELSE Step(f[s \ {Max(s)}], seq[Max(s)])
        <4>1. ASSUME NEW s \in SUBSET D
              PROVE  f[s] = IF s = {} THEN base ELSE step[<<f[s \ {Max(s)}], Max(s)>>]
          BY <1>1, <2>5, Zenon DEF IsFold, Picks
        <4>. QED
          BY <2>6, <4>1, Zenon
      <3>. QED
        BY <3>1, <3>2, Zenon
    <2>. QED
      BY <2>5, <2>7, Zenon DEF IsFold
  <1>8. g = F(g)
    BY <1>7, Zenon
  <1>. HIDE DEF g
  <1>9. D \in Good
    <2>1. {} \in Good
      <3>1. g[{}] = base
        BY <1>8
      <3>. QED
        BY <1>5, <3>1
    <2>2. ASSUME NEW s \in SUBSET D, s # {}, s \ {Max(s)} \in Good PROVE s \in Good
      <3>1. g[s] = Step(g[s \ {Max(s)}], seq[Max(s)]) /\ g[s \ {Max(s)}] \in V
        BY <1>1, <1>8, <2>2 DEF Picks
      <3>. QED
        BY <1>4, <3>1
    <2>. HIDE DEF Good
    <2>3. Kept(D, Greatest(D), Good)
      BY <1>1, <2>1, <2>2 DEF Kept, Picks
    <2>. QED
      BY <2>3, FoldKeeps
  <1>. QED
    BY <1>6, <1>9 DEF V

(* The stacks that a directive saves and brings back. *)
LEMMA UpdatePreprocessorTyped ==
  ASSUME NEW it \in Nestings, NEW pp \in {"", "if", "else", "endif"}
  PROVE  UpdatePreprocessor(it, pp) \in Nestings
  <1>0. /\ it.stack \in Seq(Blocks) /\ it.previous_stack_top \in Nat /\ it.pp_stack \in Seq(Branches)
        /\ it = [stack |-> it.stack, previous_stack_top |-> it.previous_stack_top, pp_stack |-> it.pp_stack]
    BY DEF Nestings
  <1>. DEFINE top == Last(it.pp_stack)
              new == [stack_before_if |-> it.stack, stack_before_else |-> << >>, seen_else |-> FALSE]
              else == [top EXCEPT !.seen_else = TRUE, !.stack_before_else = it.stack]
  <1>1. new \in Branches
    BY <1>0, EmptySeq DEF Branches
  <1>2. Append(it.pp_stack, new) \in Seq(Branches)
    BY <1>0, <1>1, AppendProperties
  <1>3. ASSUME it.pp_stack # << >>
        PROVE  /\ top \in Branches /\ top.stack_before_if \in Seq(Blocks) /\ top.stack_before_else \in Seq(Blocks)
               /\ OnTop(it.pp_stack, else) \in Seq(Branches) /\ Front(it.pp_stack) \in Seq(Branches)
    <2>1. top \in Branches /\ Front(it.pp_stack) \in Seq(Branches)
      BY <1>0, <1>3, FrontTyped
    <2>2. else \in Branches
      BY <1>0, <2>1 DEF Branches
    <2>3. OnTop(it.pp_stack, else) \in Seq(Branches)
      BY <1>0, <1>3, <2>2, OnTopTyped
    <2>. QED
      BY <2>1, <2>3 DEF Branches
  <1>. HIDE DEF top, new, else
  <1>4. UpdatePreprocessor(it, pp) =
          CASE pp = "if" -> [it EXCEPT !.pp_stack = Append(it.pp_stack, new)]
            [] pp = "else" /\ it.pp_stack # << >> ->
                 [it EXCEPT !.stack = top.stack_before_if,
                            !.pp_stack = IF top.seen_else THEN it.pp_stack ELSE OnTop(it.pp_stack, else)]
            [] pp = "endif" /\ it.pp_stack # << >> ->
                 [it EXCEPT !.stack = IF top.seen_else THEN top.stack_before_else ELSE it.stack,
                            !.pp_stack = Front(it.pp_stack)]
            [] OTHER -> it
    BY DEF UpdatePreprocessor, top, new, else
  <1>5. CASE pp = "if"
    <2>1. UpdatePreprocessor(it, pp) = [it EXCEPT !.pp_stack = Append(it.pp_stack, new)]
      BY <1>4, <1>5
    <2>. QED
      BY <1>0, <1>2, <2>1 DEF Nestings
  <1>6. CASE pp = "else" /\ it.pp_stack # << >>
    <2>1. UpdatePreprocessor(it, pp) =
            [it EXCEPT !.stack = top.stack_before_if,
                       !.pp_stack = IF top.seen_else THEN it.pp_stack ELSE OnTop(it.pp_stack, else)]
      BY <1>4, <1>6
    <2>. QED
      BY <1>0, <1>3, <1>6, <2>1 DEF Nestings
  <1>7. CASE pp = "endif" /\ it.pp_stack # << >>
    <2>1. UpdatePreprocessor(it, pp) =
            [it EXCEPT !.stack = IF top.seen_else THEN top.stack_before_else ELSE it.stack,
                       !.pp_stack = Front(it.pp_stack)]
      BY <1>4, <1>7
    <2>. QED
      BY <1>0, <1>3, <1>7, <2>1 DEF Nestings
  <1>8. CASE ~(pp = "if" \/ (pp \in {"else", "endif"} /\ it.pp_stack # << >>))
    <2>1. UpdatePreprocessor(it, pp) = it
      BY <1>4, <1>8
    <2>. QED
      BY <2>1
  <1>. QED
    BY <1>5, <1>6, <1>7, <1>8

(* The parentheses of a line. *)
LEMMA HowManyTyped ==
  ASSUME NEW toks \in Seq(Tokens), NEW t
  PROVE  HowMany(toks, t) \in Nat
  <1>1. IsFiniteSet(1 .. Len(toks)) /\ DOMAIN toks = 1 .. Len(toks)
    BY LenProperties, FS_Interval
  <1>2. {i \in DOMAIN toks : toks[i] = t} \subseteq 1 .. Len(toks)
    BY <1>1
  <1>3. IsFiniteSet({i \in DOMAIN toks : toks[i] = t})
    BY <1>1, <1>2, FS_Subset
  <1>. QED
    BY <1>3, FS_CardinalityType DEF HowMany

(* The block on top is left with its parentheses counted. *)
LEMMA CountParenthesesTyped ==
  ASSUME NEW stack \in Seq(Blocks), NEW toks \in Seq(Tokens)
  PROVE  CountParentheses(stack, toks) \in Seq(Blocks)
  <1>. DEFINE change == HowMany(toks, "(") - HowMany(toks, ")")
              b == [Last(stack) EXCEPT !.open_parentheses = @ + change]
              asm == CASE b.inline_asm \in {"no", "end"} ->
                            IF change # 0 /\ b.open_parentheses = 1 /\ StartsAsm(toks)
                            THEN "inside" ELSE "no"
                       [] b.inline_asm = "inside" /\ b.open_parentheses = 0 -> "end"
                       [] OTHER -> b.inline_asm
  <1>1. change \in Int
    BY HowManyTyped
  <1>. HIDE DEF change
  <1>2. CASE stack = << >>
    BY <1>2 DEF CountParentheses
  <1>3. CASE stack # << >>
    <2>1. Last(stack) \in Blocks
      BY <1>3, FrontTyped
    <2>. DEFINE it == Last(stack)
                sum == it.open_parentheses + change
    <2>6. sum \in Int
      BY <1>1, <2>1 DEF Blocks
    <2>7. b = [it EXCEPT !.open_parentheses = sum]
      OBVIOUS
    <2>. HIDE DEF sum, it, b
    <2>8. it \in Blocks
      BY <2>1 DEF it
    <2>2. b \in Blocks
      BY <2>6, <2>7, <2>8 DEF Blocks
    <2>3. asm \in {"no", "inside", "end", "block"}
      BY <2>2 DEF Blocks
    <2>4. CountParentheses(stack, toks) = OnTop(stack, [b EXCEPT !.inline_asm = asm])
      BY <1>3 DEF CountParentheses, change, b, it
    <2>. HIDE DEF asm
    <2>5. [b EXCEPT !.inline_asm = asm] \in Blocks
      BY <2>2, <2>3 DEF Blocks
    <2>. QED
      BY <1>3, <2>4, <2>5, OnTopTyped
  <1>. QED
    BY <1>2, <1>3

(* The namespaces that begin a line, and the place where the rest begins. *)
LEMMA LeadingNamespacesTyped ==
  ASSUME NEW toks \in Seq(Tokens)
  PROVE  LeadingNamespaces(toks) \in [braces : Seq(BOOLEAN), rest : 1 .. Len(toks) + 1]
  <1>. DEFINE n == Len(toks) + 1
              V == [braces : Seq(BOOLEAN), rest : 1 .. n]
              open(i) == {j \in i + 1 .. Len(toks) : toks[j] = "{"}
              next(i) == IF open(i) = {} THEN i + 1 ELSE Min(open(i)) + 1
              stop(i) == i > Len(toks) \/ toks[i] # "namespace"
              More(v, i) == [v EXCEPT !.braces = <<open(i) # {}>> \o @]
              Turn(f, i) == IF stop(i) THEN [braces |-> << >>, rest |-> i] ELSE More(f[next(i)], i)
              From(f, m) == f \in [n + 1 - m .. n -> V] /\ \A i \in n + 1 - m .. n : f[i] = Turn(f, i)
              P == {m \in Nat : m <= n => \E f : From(f, m)}
              F(f) == [i \in 1 .. n |-> Turn(f, i)]
              g == CHOOSE f : f = F(f)
              Q == {m \in Nat : m <= n => \A i \in n + 1 - m .. n : g[i] \in V}
  <1>0. Len(toks) \in Nat /\ n \in Nat \ {0} /\ n = Len(toks) + 1
    BY LenProperties
  <1>1. ASSUME NEW i \in 1 .. n, ~stop(i) PROVE next(i) \in i + 1 .. n
    <2>1. i \in 1 .. Len(toks)
      BY <1>0, <1>1
    <2>4. i + 1 .. Len(toks) \subseteq 1 .. Len(toks) /\ i + 1 \in i + 1 .. n
      BY <1>0, <2>1
    <2>5. \A j \in i + 1 .. Len(toks) : j + 1 \in i + 1 .. n
      BY <1>0, <2>1
    <2>6. open(i) \subseteq i + 1 .. Len(toks)
      OBVIOUS
    <2>. HIDE DEF open, n
    <2>2. CASE open(i) = {}
      BY <2>2, <2>4
    <2>3. CASE open(i) # {}
      <3>1. open(i) \subseteq 1 .. Len(toks)
        BY <2>4, <2>6
      <3>2. Min(open(i)) \in open(i)
        BY <1>0, <2>3, <3>1, LeastExists
      <3>3. Min(open(i)) \in i + 1 .. Len(toks)
        BY <2>6, <3>2
      <3>. QED
        BY <2>3, <2>5, <3>3
    <2>. QED
      BY <2>2, <2>3
  <1>2. ASSUME NEW v \in V, NEW i PROVE More(v, i) \in V
    <2>1. (open(i) # {}) \in BOOLEAN
      OBVIOUS
    <2>. HIDE DEF open
    <2>2. <<open(i) # {}>> \in Seq(BOOLEAN)
      BY <2>1
    <2>3. v.braces \in Seq(BOOLEAN)
      OBVIOUS
    <2>4. <<open(i) # {}>> \o v.braces \in Seq(BOOLEAN)
      BY <2>2, <2>3, ConcatProperties
    <2>. QED
      BY <2>4
  <1>3. ASSUME NEW i \in 1 .. n PROVE [braces |-> << >>, rest |-> i] \in V
    BY EmptySeq
  <1>8. LeadingNamespaces(toks) = g[1]
    BY DEF LeadingNamespaces
  <1>. HIDE DEF n, V, next, stop, More
  <1>4. 0 \in P
    <2>. DEFINE f == [i \in n + 1 - 0 .. n |-> 0]
    <2>1. n + 1 - 0 .. n = {}
      BY <1>0
    <2>2. From(f, 0)
      BY <2>1
    <2>. HIDE DEF From, f
    <2>. QED
      BY <2>2
  <1>5. ASSUME NEW m \in Nat, m \in P PROVE m + 1 \in P
    <2>1. ASSUME m + 1 <= n PROVE \E f : From(f, m + 1)
      <3>1. \E f : From(f, m)
        <4>. HIDE DEF From
        <4>. QED
          BY <1>0, <1>5, <2>1
      <3>2. PICK e : From(e, m)
        BY <3>1
      <3>. DEFINE k == n + 1 - (m + 1)
                  f == [i \in k .. n |-> IF i = k THEN Turn(e, k) ELSE e[i]]
      <3>3. k \in 1 .. n /\ k .. n = {k} \cup n + 1 - m .. n /\ k \notin n + 1 - m .. n
        BY <1>0, <2>1
      <3>4. Turn(e, k) \in V
        <4>1. CASE stop(k)
          BY <1>3, <3>3, <4>1
        <4>2. CASE ~stop(k)
          <5>1. next(k) \in n + 1 - m .. n
            BY <1>0, <1>1, <3>3, <4>2
          <5>2. e[next(k)] \in V
            BY <3>2, <5>1
          <5>. QED
            BY <1>2, <4>2, <5>2
        <4>. QED
          BY <4>1, <4>2
      <3>5. ASSUME NEW i \in k .. n PROVE Turn(f, i) = Turn(e, i)
        <4>1. CASE ~stop(i)
          <5>1. next(i) \in n + 1 - m .. n
            BY <1>0, <1>1, <2>1, <3>3, <4>1
          <5>2. f[next(i)] = e[next(i)]
            BY <3>3, <5>1
          <5>. QED
            BY <5>2
        <4>2. CASE stop(i)
          BY <4>2
        <4>. QED
          BY <4>1, <4>2
      <3>. HIDE DEF Turn
      <3>6. f \in [k .. n -> V] /\ \A i \in k .. n : f[i] = Turn(e, i)
        BY <3>2, <3>3, <3>4
      <3>. HIDE DEF f
      <3>7. From(f, m + 1)
        BY <3>5, <3>6
      <3>. QED
        BY <3>7, Zenon
    <2>. HIDE DEF From
    <2>. QED
      BY <2>1
  <1>6. Nat \subseteq P
    <2>. HIDE DEF P
    <2>. QED
      BY <1>4, <1>5, SetInduction
  <1>7. g = F(g)
    <2>1. \E f : From(f, n)
      <3>. HIDE DEF From
      <3>. QED
        BY <1>0, <1>6
    <2>2. PICK f : From(f, n)
      BY <2>1
    <2>3. n + 1 - n .. n = 1 .. n
      BY <1>0
    <2>. HIDE DEF Turn
    <2>4. f = F(f)
      BY <2>2, <2>3
    <2>. QED
      BY <2>4, Zenon
  <1>. HIDE DEF g
  <1>9. Nat \subseteq Q
    <2>1. 0 \in Q
      BY <1>0
    <2>2. ASSUME NEW m \in Nat, m \in Q PROVE m + 1 \in Q
      <3>1. ASSUME m + 1 <= n, NEW i \in n + 1 - (m + 1) .. n PROVE g[i] \in V
        <4>0. m <= n /\ i \in 1 .. n
          BY <1>0, <3>1
        <4>1. g[i] = Turn(g, i)
          <5>. HIDE DEF Turn
          <5>. QED
            BY <1>7, <4>0
        <4>2. CASE stop(i)
          BY <1>3, <4>0, <4>1, <4>2
        <4>3. CASE ~stop(i)
          <5>1. next(i) \in n + 1 - m .. n
            BY <1>0, <1>1, <3>1, <4>0, <4>3
          <5>2. g[next(i)] \in V
            BY <2>2, <4>0, <5>1
          <5>. QED
            BY <1>2, <4>1, <4>3, <5>2
        <4>. QED
          BY <4>2, <4>3
      <3>. QED
        BY <3>1
    <2>. HIDE DEF Q
    <2>. QED
      BY <2>1, <2>2, SetInduction
  <1>10. g[1] \in V
    <2>1. n \in Q /\ 1 \in n + 1 - n .. n
      BY <1>0, <1>9
    <2>. QED
      BY <1>0, <2>1
  <1>. QED
    BY <1>8, <1>10 DEF V, n

(* The block of a class. *)
LEMMA ClassInfoTyped ==
  ASSUME NEW t \in Seq(Lines), NEW n \in 1 .. Len(t), NEW word
  PROVE  ClassInfo(t, n, word) \in Blocks
  <1>. DEFINE last == EndOfClass(t, n)
  <1>1. last \in Nat
    <2>. DEFINE depth == CHOOSE depth : depth =
                  [i \in n - 1 .. Len(t) |->
                     IF i = n - 1 THEN 0
                     ELSE depth[i - 1] + HowMany(t[i].toks, "{") - HowMany(t[i].toks, "}")]
                level == {i \in n .. Len(t) : depth[i] = 0}
    <2>1. Len(t) \in Nat /\ n .. Len(t) \subseteq 1 .. Len(t)
      BY LenProperties
    <2>2. last = IF level = {} THEN 0 ELSE Min(level)
      BY DEF EndOfClass
    <2>. HIDE DEF depth, last
    <2>3. level \subseteq 1 .. Len(t)
      BY <2>1
    <2>. HIDE DEF level
    <2>4. level # {} => Min(level) \in level
      BY <2>1, <2>3, LeastExists
    <2>. QED
      BY <2>1, <2>2, <2>3, <2>4
  <1>. DEFINE block == Block("class", FALSE, n)
              access == IF word = "struct" THEN "public:" ELSE "private:"
  <1>2. block \in Blocks
    <2>1. n \in Nat /\ "class" \in {"namespace", "class", "block", "extern"} /\ FALSE \in BOOLEAN
      BY LenProperties
    <2>. QED
      BY <2>1, BlockTyped
  <1>3. access \in Labels \cup {"none"}
    BY DEF Labels
  <1>4. ClassInfo(t, n, word) = [block EXCEPT !.access = access, !.last_line = last]
    BY DEF ClassInfo
  <1>. HIDE DEF block, last, access
  <1>. QED
    BY <1>1, <1>2, <1>3, <1>4 DEF Blocks

(* The label of a section. *)
LEMMA SetAccessTyped ==
  ASSUME NEW stack \in Seq(Blocks), NEW rest \in Seq(Tokens)
  PROVE  SetAccess(stack, rest) \in Seq(Blocks)
  <1>. DEFINE labels == {j \in DOMAIN rest : rest[j] \in Labels}
              label == rest[Max(labels)]
              it == Last(stack)
  <1>1. CASE stack # << >> /\ Last(stack).kind = "class" /\ labels # {}
    <2>1. Len(rest) \in Nat /\ labels \subseteq 1 .. Len(rest)
      BY LenProperties
    <2>2. Max(labels) \in labels
      BY <1>1, <2>1, GreatestExists
    <2>3. label \in Labels
      BY <2>2
    <2>4. it \in Blocks
      BY <1>1, FrontTyped
    <2>5. SetAccess(stack, rest) = OnTop(stack, [it EXCEPT !.access = label])
      BY <1>1 DEF SetAccess
    <2>. HIDE DEF label, it
    <2>6. [it EXCEPT !.access = label] \in Blocks
      BY <2>3, <2>4 DEF Blocks
    <2>. QED
      BY <1>1, <2>5, <2>6, OnTopTyped
  <1>2. CASE ~(stack # << >> /\ Last(stack).kind = "class" /\ labels # {})
    BY <1>2, Zenon DEF SetAccess
  <1>. QED
    BY <1>1, <1>2

(* What Update makes of the nesting, and the errors it raises. *)
LEMMA UpdateTyped ==
  ASSUME NEW it \in Nestings, NEW t \in Seq(Lines), NEW n \in 1 .. Len(t)
  PROVE  /\ Update(it, t, n).nest \in Nestings
         /\ Update(it, t, n).errors \in Seq(EndErrors)
  <1>. DEFINE l == t[n]
              pp == UpdatePreprocessor(it, l.pp)
              counted == CountParentheses(pp.stack, l.toks)
              lead == LeadingNamespaces(l.toks)
              spaces == [k \in DOMAIN lead.braces |-> Block("namespace", lead.braces[k], n)]
              inside == counted \o spaces
              class == /\ lead.rest <= Len(l.toks)
                       /\ l.toks[lead.rest] \in ClassWords
                       /\ inside = << >> \/ Last(inside).open_parentheses = 0
                       /\ lead.rest # 1 \/ ~InTemplateArgumentList(t, n, 2)
              rest == IF class THEN lead.rest + 1 ELSE lead.rest
              info == ClassInfo(t, n, l.toks[lead.rest])
              begun == IF class THEN Append(inside, info) ELSE inside
              after == SubSeq(l.toks, rest, Len(l.toks))
              left == Consume(SetAccess(begun, after), l, n, rest)
  <1>1. l \in Lines /\ n \in Nat /\ Len(t) \in Nat
    BY LenProperties, ElementOfSeq
  <1>2. l.toks \in Seq(Tokens) /\ l.pp \in {"", "if", "else", "endif"} /\ Len(l.toks) \in Nat
    <2>1. l.toks \in Seq(Tokens) /\ l.pp \in {"", "if", "else", "endif"}
      BY <1>1 DEF Lines
    <2>. QED
      BY <2>1, LenProperties
  <1>. HIDE DEF l
  <1>3. pp \in Nestings
    BY <1>2, UpdatePreprocessorTyped
  <1>. HIDE DEF pp
  <1>4. pp.stack \in Seq(Blocks) /\ pp.pp_stack \in Seq(Branches)
    BY <1>3 DEF Nestings
  <1>5. counted \in Seq(Blocks)
    BY <1>2, <1>4, CountParenthesesTyped
  <1>6. lead.braces \in Seq(BOOLEAN) /\ lead.rest \in 1 .. Len(l.toks) + 1
    BY <1>2, LeadingNamespacesTyped
  <1>. HIDE DEF counted, lead
  <1>7. spaces \in Seq(Blocks)
    <2>1. Len(lead.braces) \in Nat /\ DOMAIN lead.braces = 1 .. Len(lead.braces)
      BY <1>6, LenProperties
    <2>2. \A k \in DOMAIN lead.braces : Block("namespace", lead.braces[k], n) \in Blocks
      BY <1>1, <1>6, <2>1, ElementOfSeq, BlockTyped
    <2>3. spaces \in [1 .. Len(lead.braces) -> Blocks]
      BY <2>1, <2>2
    <2>. QED
      BY <2>1, <2>3, SeqDef
  <1>. HIDE DEF spaces
  <1>8. inside \in Seq(Blocks)
    BY <1>5, <1>7, ConcatProperties
  <1>9. info \in Blocks
    BY ClassInfoTyped
  <1>. HIDE DEF info, inside
  <1>. DEFINE end == Len(l.toks)
  <1>18. end \in Nat /\ lead.rest \in 1 .. end + 1
    BY <1>2, <1>6
  <1>10. rest \in 1 .. end + 1
    <2>1. class => lead.rest <= end
      OBVIOUS
    <2>. HIDE DEF class, end
    <2>. QED
      BY <1>18, <2>1
  <1>11. begun \in Seq(Blocks)
    <2>. HIDE DEF class
    <2>. QED
      BY <1>8, <1>9, AppendProperties
  <1>. HIDE DEF class, rest, begun, after
  <1>12. after \in Seq(Tokens)
    <2>1. rest \in Int /\ end \in Int /\ rest .. end \subseteq 1 .. end
      <3>. HIDE DEF end
      <3>. QED
        BY <1>18, <1>10
    <2>2. \A i \in 1 .. end : l.toks[i] \in Tokens
      BY <1>2, ElementOfSeq
    <2>3. \A i \in rest .. end : l.toks[i] \in Tokens
      BY <2>1, <2>2
    <2>. QED
      BY <2>1, <2>3, SubSeqProperties DEF after
  <1>13. left \in [stack : Seq(Blocks), errors : Seq(EndErrors)]
    BY <1>1, <1>10, <1>11, <1>12, SetAccessTyped, ConsumeTyped
  <1>14. Update(it, t, n) = [nest |-> [pp EXCEPT !.stack = left.stack, !.previous_stack_top = Len(it.stack)],
                             errors |-> left.errors]
    BY Zenon DEF Update, l, pp, counted, lead, spaces, inside, class, rest, info, begun, after
  <1>. HIDE DEF left
  <1>15. left.stack \in Seq(Blocks) /\ left.errors \in Seq(EndErrors)
    BY <1>13
  <1>16. Len(it.stack) \in Nat
    BY LenProperties DEF Nestings
  <1>17. [pp EXCEPT !.stack = left.stack, !.previous_stack_top = Len(it.stack)] \in Nestings
    BY <1>3, <1>15, <1>16 DEF Nestings
  <1>. QED
    BY <1>14, <1>15, <1>17

-----------------------------------------------------------------------------
(* The errors by where they come from. *)
Plain(categories) == [line : Nat, category : categories]
LengthErrors == [line : Nat, category : {"readability/fn_size"}, confidence : 0 .. 5]
MissingErrors == [line : Nat, category : {"build/include_what_you_use"}, header : Seq(STRING)]

NestingCategories ==
  {"readability/namespace", "runtime/indentation_namespace", "readability/constructors",
   "whitespace/blank_line", "build/class", "build/namespaces"}
IncludeCategories == {"build/include", "build/include_order", "build/include_alpha"}
Errors == Plain(NestingCategories) \cup Plain(IncludeCategories) \cup LengthErrors \cup MissingErrors

(* The lines of the errors of a category. *)
LinesOf(es, category) == {es[i].line : i \in {j \in DOMAIN es : es[j].category = category}}

(* The lines told in two lists of errors. *)
LEMMA LinesOfBoth ==
  ASSUME NEW S, NEW a \in Seq(S), NEW b \in Seq(S), NEW category
  PROVE  /\ a \o b \in Seq(S)
         /\ LinesOf(a \o b, category) = LinesOf(a, category) \cup LinesOf(b, category)
  <1>. DEFINE c == a \o b
  <1>1. /\ Len(a) \in Nat /\ Len(b) \in Nat /\ DOMAIN a = 1 .. Len(a) /\ DOMAIN b = 1 .. Len(b)
        /\ c \in Seq(S) /\ DOMAIN c = 1 .. Len(a) + Len(b)
        /\ \A i \in 1 .. Len(a) + Len(b) : c[i] = IF i <= Len(a) THEN a[i] ELSE b[i - Len(a)]
    BY ConcatProperties, LenProperties
  <1>. HIDE DEF c
  <1>2. ASSUME NEW i \in DOMAIN c, c[i].category = category
        PROVE  c[i].line \in LinesOf(a, category) \cup LinesOf(b, category)
    <2>1. CASE i <= Len(a)
      <3>1. i \in DOMAIN a /\ c[i] = a[i]
        BY <1>1, <2>1
      <3>. QED
        BY <1>2, <3>1 DEF LinesOf
    <2>2. CASE ~(i <= Len(a))
      <3>1. i - Len(a) \in DOMAIN b /\ c[i] = b[i - Len(a)]
        BY <1>1, <2>2
      <3>. QED
        BY <1>2, <3>1 DEF LinesOf
    <2>. QED
      BY <2>1, <2>2
  <1>3. ASSUME NEW i \in DOMAIN a, a[i].category = category PROVE a[i].line \in LinesOf(c, category)
    <2>1. i \in DOMAIN c /\ c[i] = a[i]
      BY <1>1
    <2>. QED
      BY <1>3, <2>1 DEF LinesOf
  <1>4. ASSUME NEW i \in DOMAIN b, b[i].category = category PROVE b[i].line \in LinesOf(c, category)
    <2>1. i + Len(a) \in DOMAIN c /\ c[i + Len(a)] = b[i]
      BY <1>1
    <2>. QED
      BY <1>4, <2>1 DEF LinesOf
  <1>5. LinesOf(c, category) \subseteq LinesOf(a, category) \cup LinesOf(b, category)
    BY <1>2 DEF LinesOf
  <1>6. LinesOf(a, category) \subseteq LinesOf(c, category) /\ LinesOf(b, category) \subseteq LinesOf(c, category)
    BY <1>3, <1>4 DEF LinesOf
  <1>. QED
    BY <1>1, <1>5, <1>6 DEF c

(* Nothing is told in a category that no error of the list has. *)
LEMMA OthersTellNothing ==
  ASSUME NEW S, NEW es \in Seq(S), NEW category, \A e \in S : e.category # category
  PROVE  LinesOf(es, category) = {}
  <1>1. \A i \in DOMAIN es : es[i] \in S
    BY LenProperties, ElementOfSeq
  <1>. QED
    BY <1>1 DEF LinesOf

(* An error that is told on a condition. *)
LEMMA ToldTyped ==
  ASSUME NEW cond \in BOOLEAN, NEW n \in Nat, NEW category
  PROVE  /\ Told(cond, n, category) \in Seq(Plain({category})) /\ Raised(cond, n, category) \in Seq(Plain({category}))
         /\ LinesOf(Told(cond, n, category), category) = (IF cond THEN {n} ELSE {})
         /\ LinesOf(Raised(cond, n, category), category) = (IF cond THEN {n} ELSE {})
  <1>. DEFINE e == [line |-> n, category |-> category]
  <1>1. e \in Plain({category})
    BY DEF Plain
  <1>2. e.line = n /\ e.category = category
    OBVIOUS
  <1>. HIDE DEF e
  <1>3. <<e>> \in Seq(Plain({category})) /\ << >> \in Seq(Plain({category}))
    BY <1>1
  <1>4. LinesOf(<<e>>, category) = {n} /\ LinesOf(<< >>, category) = {}
    BY <1>2 DEF LinesOf
  <1>5. /\ Told(cond, n, category) = (IF cond THEN <<e>> ELSE << >>)
        /\ Raised(cond, n, category) = (IF cond THEN <<e>> ELSE << >>)
    BY DEF Told, Raised, e
  <1>. QED
    BY <1>3, <1>4, <1>5

(* Lists of errors of several categories are lists of errors of all of them. *)
LEMMA PlainMonotonic ==
  ASSUME NEW C, NEW D, C \subseteq D
  PROVE  Seq(Plain(C)) \subseteq Seq(Plain(D))
  <1>1. Plain(C) \subseteq Plain(D)
    BY DEF Plain
  <1>. QED
    BY <1>1, SeqMonotonic

(* What the checks of blocks raise. *)
LEMMA BlockChecksTyped ==
  ASSUME NEW it, NEW t, NEW n \in Nat
  PROVE  /\ CheckForNamespaceIndentation(it, t, n) \in Seq(Plain(NestingCategories))
         /\ CheckAccess(it, t, n) \in Seq(Plain(NestingCategories))
         /\ CheckSectionSpacing(it, t, n) \in Seq(Plain(NestingCategories))
         /\ Seq(EndErrors) \subseteq Seq(Plain(NestingCategories))
  <1>1. \A category \in NestingCategories : Seq(Plain({category})) \subseteq Seq(Plain(NestingCategories))
    BY PlainMonotonic
  <1>2. CheckForNamespaceIndentation(it, t, n) \in Seq(Plain(NestingCategories))
    <2>1. \E cond \in BOOLEAN :
            CheckForNamespaceIndentation(it, t, n) = Told(cond, n, "runtime/indentation_namespace")
      <3>. DEFINE forward == IsForwardClassDeclaration(t[n])
                  cond == /\ forward \/ IsNamespaceIndentItem(it, n)
                          /\ ~t[n].macro
                          /\ IsBlockInNameSpace(it, forward)
                          /\ t[n].indent
      <3>1. cond \in BOOLEAN
        OBVIOUS
      <3>2. CheckForNamespaceIndentation(it, t, n) = Told(cond, n, "runtime/indentation_namespace")
        BY Zenon DEF CheckForNamespaceIndentation, Told
      <3>. HIDE DEF cond
      <3>. QED
        BY <3>1, <3>2
    <2>. QED
      BY <1>1, <2>1, ToldTyped DEF NestingCategories
  <1>3. CheckAccess(it, t, n) \in Seq(Plain(NestingCategories))
    <2>1. \E cond \in BOOLEAN : CheckAccess(it, t, n) = Told(cond, n, "readability/constructors")
      <3>. DEFINE cond == /\ t[n].toks # << >> /\ t[n].toks[1] = "DISALLOW"
                          /\ it.stack # << >> /\ Last(it.stack).kind = "class"
                          /\ Last(it.stack).access # "private:"
      <3>1. cond \in BOOLEAN
        OBVIOUS
      <3>2. CheckAccess(it, t, n) = Told(cond, n, "readability/constructors")
        BY Zenon DEF CheckAccess
      <3>. HIDE DEF cond
      <3>. QED
        BY <3>1, <3>2
    <2>. QED
      BY <1>1, <2>1, ToldTyped DEF NestingCategories
  <1>4. CheckSectionSpacing(it, t, n) \in Seq(Plain(NestingCategories))
    <2>1. \E cond \in BOOLEAN : CheckSectionSpacing(it, t, n) = Told(cond, n, "whitespace/blank_line")
      <3>. DEFINE k == InnermostClass(it.stack)
                  class == it.stack[k]
                  ends == {i \in class.line .. n - 1 : ~IsBlankLine(t[i]) /\ Last(t[i].toks) = "{"}
                  end_class_head == IF ends = {} THEN class.line ELSE Min(ends)
                  before == t[n - 1]
                  cond == /\ k > 0 /\ class.last_line - class.line > SmallClass
                          /\ n > class.line
                          /\ ~IsBlankLine(t[n]) /\ t[n].toks[1] \in Labels \ {"signals:"}
                          /\ ~IsBlankLine(before) /\ ClassWords \cap ToSet(before.toks) = {} /\ ~t[n].macro
                          /\ end_class_head < n - 1
      <3>1. cond \in BOOLEAN
        OBVIOUS
      <3>2. CheckSectionSpacing(it, t, n) = Told(cond, n, "whitespace/blank_line")
        BY Zenon DEF CheckSectionSpacing
      <3>. HIDE DEF cond
      <3>. QED
        BY <3>1, <3>2
    <2>. QED
      BY <1>1, <2>1, ToldTyped DEF NestingCategories
  <1>5. EndErrors \subseteq Plain(NestingCategories)
    BY DEF EndErrors, Plain, NestingCategories
  <1>. QED
    BY <1>2, <1>3, <1>4, <1>5, SeqMonotonic

(* What is told of the blocks left open. *)
LEMMA CompletedBlocksTyped ==
  ASSUME NEW stack \in Seq(Blocks)
  PROVE  CheckCompletedBlocks(stack) \in Seq(Plain(NestingCategories))
  <1>. DEFINE V == Seq(Plain(NestingCategories))
              D == 1 .. Len(stack)
              Add(told, b) == told \o Told(b.kind = "class", b.line, "build/class")
                                   \o Told(b.kind = "namespace", b.line, "build/namespaces")
              step == [vx \in V \X D |-> Add(vx[1], stack[vx[2]])]
              F(f) == [s \in SUBSET D |-> IF s = {} THEN << >> ELSE Add(f[s \ {Max(s)}], stack[Max(s)])]
              g == CHOOSE f : f = F(f)
              Good == {s \in SUBSET D : g[s] \in V}
  <1>0. DOMAIN stack = D /\ Len(stack) \in Nat /\ \A i \in D : stack[i] \in Blocks
    BY LenProperties, ElementOfSeq
  <1>1. Picks(D)
    BY <1>0, GreatestPicks
  <1>2. ASSUME NEW v \in V, NEW i \in D PROVE Add(v, stack[i]) \in V
    <2>. DEFINE b == stack[i]
    <2>1. b.line \in Nat
      BY <1>0 DEF Blocks
    <2>. HIDE DEF b
    <2>2. \A category \in NestingCategories : Seq(Plain({category})) \subseteq V
      BY PlainMonotonic
    <2>3. Told(b.kind = "class", b.line, "build/class") \in V
      <3>. DEFINE cond == b.kind = "class"
      <3>1. cond \in BOOLEAN
        OBVIOUS
      <3>. HIDE DEF cond
      <3>2. Told(cond, b.line, "build/class") \in V
        BY <2>1, <2>2, <3>1, ToldTyped DEF NestingCategories
      <3>. QED
        BY <3>2 DEF cond
    <2>4. Told(b.kind = "namespace", b.line, "build/namespaces") \in V
      <3>. DEFINE cond == b.kind = "namespace"
      <3>1. cond \in BOOLEAN
        OBVIOUS
      <3>. HIDE DEF cond
      <3>2. Told(cond, b.line, "build/namespaces") \in V
        BY <2>1, <2>2, <3>1, ToldTyped DEF NestingCategories
      <3>. QED
        BY <3>2 DEF cond
    <2>. QED
      BY <2>3, <2>4, ConcatProperties DEF b
  <1>3. CheckCompletedBlocks(stack) = g[D]
    BY <1>0, Zenon DEF CheckCompletedBlocks, FoldLeft, MapThenFoldSet
  <1>5. << >> \in V
    OBVIOUS
  <1>. HIDE DEF Add, V, D
  <1>7. \E f \in [SUBSET D -> V] : f = F(f)
    <2>1. step \in [V \X D -> V]
      BY <1>2
    <2>2. \A v \in V, i \in D : step[<<v, i>>] = Add(v, stack[i])
      OBVIOUS
    <2>. HIDE DEF step
    <2>4. Foldable(D, V, << >>, Greatest(D), step)
      BY <1>1, <1>5, <2>1 DEF Foldable, Picks
    <2>5. PICK f : IsFold(f, D, V, << >>, Greatest(D), step)
      BY <2>4, FoldExists DEF HasFold
    <2>6. \A s \in SUBSET D : s # {} =>
            step[<<f[s \ {Max(s)}], Max(s)>>] = Add(f[s \ {Max(s)}], stack[Max(s)])
      BY <1>1, <2>2, <2>5 DEF IsFold, Picks
    <2>7. f = F(f)
      <3>1. f = [s \in SUBSET D |-> f[s]]
        BY <2>5 DEF IsFold
      <3>2. \A s \in SUBSET D : f[s] = IF s = {} THEN << >> ELSE Add(f[s \ {Max(s)}], stack[Max(s)])
        <4>1. ASSUME NEW s \in SUBSET D
              PROVE  f[s] = IF s = {} THEN << >> ELSE step[<<f[s \ {Max(s)}], Max(s)>>]
          BY <1>1, <2>5, Zenon DEF IsFold, Picks
        <4>. QED
          BY <2>6, <4>1, Zenon
      <3>. QED
        BY <3>1, <3>2, Zenon
    <2>. QED
      BY <2>5, <2>7, Zenon DEF IsFold
  <1>8. g = F(g)
    BY <1>7, Zenon
  <1>. HIDE DEF g
  <1>9. D \in Good
    <2>1. {} \in Good
      <3>1. g[{}] = << >>
        BY <1>8
      <3>. QED
        BY <1>5, <3>1
    <2>2. ASSUME NEW s \in SUBSET D, s # {}, s \ {Max(s)} \in Good PROVE s \in Good
      <3>1. g[s] = Add(g[s \ {Max(s)}], stack[Max(s)]) /\ g[s \ {Max(s)}] \in V /\ Max(s) \in D
        BY <1>1, <1>8, <2>2 DEF Picks
      <3>. QED
        BY <1>2, <3>1
    <2>. HIDE DEF Good
    <2>3. Kept(D, Greatest(D), Good)
      BY <1>1, <2>1, <2>2 DEF Kept, Picks
    <2>. QED
      BY <2>3, FoldKeeps
  <1>. QED
    BY <1>3, <1>9 DEF V

-----------------------------------------------------------------------------
(* One #include. *)
Headers == [path : Seq(STRING), system : BOOLEAN, cpp : BOOLEAN, key : Nat \ {0}, third_party : BOOLEAN]
IncludeStates(entries) == [include_list : Seq(Seq(entries)) \ {<< >>}, section : 0 .. 4, last_header : Nat]
Mine == {"likely_mine", "possibly_mine"}

Duplicate(state, path) == FindHeader(state, path) >= 0
IsForeign(name, include) ==
  \/ Extension(include.path) = ".cc" /\ DirName(name) # DirName(include.path)
  \/ include.third_party

Rejected(name, state, include) == Duplicate(state, include.path) \/ IsForeign(name, include)

(* The section that an accepted header leads to, and whether it may stand there. *)
SectionAfter(section, type) ==
  CASE type = "c_system"   -> IF section <= 2 THEN 2 ELSE section
    [] type = "cpp_system" -> IF section <= 3 THEN 3 ELSE section
    [] type \in Mine       -> IF section <= 1 THEN 1 ELSE 4
    [] type = "other"      -> 4
InOrder(section, type) ==
  section <= (IF type = "c_system" THEN 2 ELSE IF type = "cpp_system" THEN 3 ELSE 4)

(* The kinds of headers. *)
LEMMA ClassifyTyped ==
  ASSUME NEW name, NEW include \in Headers
  PROVE  _ClassifyInclude(name, include) \in {"c_system", "cpp_system", "other"} \cup Mine
  <1>1. include.system \in BOOLEAN /\ include.cpp \in BOOLEAN
    BY DEF Headers
  <1>2. CASE include.system /\ include.cpp
    BY <1>2 DEF _ClassifyInclude
  <1>3. CASE include.system /\ ~include.cpp
    BY <1>3 DEF _ClassifyInclude
  <1>4. CASE ~include.system
    <2>. DEFINE target == _DropCommonSuffixes(name)
                header == _DropCommonSuffixes(include.path)
                near == /\ BaseName(target) = BaseName(header)
                        /\ DirName(header) \in {DirName(target), PublicBeside(DirName(target))}
                alike == /\ FirstComponent(BaseName(target)) = FirstComponent(BaseName(header))
                         /\ FirstComponent(BaseName(header)) # << >>
    <2>1. _ClassifyInclude(name, include) =
            IF near THEN "likely_mine" ELSE IF alike THEN "possibly_mine" ELSE "other"
      BY <1>4 DEF _ClassifyInclude
    <2>. HIDE DEF near, alike
    <2>. QED
      BY <2>1 DEF Mine
  <1>. QED
    BY <1>1, <1>2, <1>3, <1>4

(* One header in its section. *)
LEMMA OrderTyped ==
  ASSUME NEW entries, NEW state \in IncludeStates(entries),
         NEW type \in {"c_system", "cpp_system", "other"} \cup Mine
  PROVE  /\ CheckNextIncludeOrder(state, type).ok \in BOOLEAN
         /\ CheckNextIncludeOrder(state, type).ok <=> InOrder(state.section, type)
         /\ CheckNextIncludeOrder(state, type).state \in IncludeStates(entries)
         /\ CheckNextIncludeOrder(state, type).state.section = SectionAfter(state.section, type)
         /\ CheckNextIncludeOrder(state, type).state.include_list = state.include_list
  <1>. DEFINE section == state.section
              At(s) == [state EXCEPT !.section = s, !.last_header = IF s = section THEN @ ELSE 0]
              wrong == [state EXCEPT !.last_header = 0]
  <1>1. /\ state.include_list \in Seq(Seq(entries)) \ {<< >>} /\ section \in 0 .. 4 /\ state.last_header \in Nat
        /\ state = [include_list |-> state.include_list, section |-> state.section, last_header |-> state.last_header]
    BY DEF IncludeStates
  <1>2. ASSUME NEW s \in 1 .. 4
        PROVE  At(s) \in IncludeStates(entries) /\ At(s).section = s /\ At(s).include_list = state.include_list
    <2>. DEFINE last == IF s = section THEN state.last_header ELSE 0
    <2>1. last \in Nat /\ s \in 0 .. 4
      BY <1>1
    <2>2. At(s) = [state EXCEPT !.section = s, !.last_header = last]
      OBVIOUS
    <2>. HIDE DEF last, At
    <2>. QED
      BY <1>1, <2>1, <2>2 DEF IncludeStates
  <1>3. /\ wrong \in IncludeStates(entries) /\ wrong.section = section
        /\ wrong.include_list = state.include_list
    BY <1>1 DEF IncludeStates
  <1>4. CheckNextIncludeOrder(state, type) =
          CASE type = "c_system" ->
                 IF section <= 2 THEN [ok |-> TRUE, state |-> At(2)] ELSE [ok |-> FALSE, state |-> wrong]
            [] type = "cpp_system" ->
                 IF section <= 3 THEN [ok |-> TRUE, state |-> At(3)] ELSE [ok |-> FALSE, state |-> wrong]
            [] type \in {"likely_mine", "possibly_mine"} ->
                 [ok |-> TRUE, state |-> At(IF section <= 1 THEN 1 ELSE 4)]
            [] type = "other" -> [ok |-> TRUE, state |-> At(4)]
    BY DEF CheckNextIncludeOrder
  <1>5. 1 \in 1 .. 4 /\ 2 \in 1 .. 4 /\ 3 \in 1 .. 4 /\ 4 \in 1 .. 4
    OBVIOUS
  <1>. HIDE DEF At, wrong
  <1>6. CASE type = "c_system"
    <2>1. CheckNextIncludeOrder(state, type) =
            IF section <= 2 THEN [ok |-> TRUE, state |-> At(2)] ELSE [ok |-> FALSE, state |-> wrong]
      BY <1>4, <1>6
    <2>2. /\ SectionAfter(section, type) = IF section <= 2 THEN 2 ELSE section
          /\ InOrder(section, type) <=> section <= 2
      BY <1>1, <1>6 DEF SectionAfter, InOrder, Mine
    <2>3. CASE section <= 2
      <3>1. CheckNextIncludeOrder(state, type) = [ok |-> TRUE, state |-> At(2)]
        BY <2>1, <2>3
      <3>2. SectionAfter(section, type) = 2 /\ InOrder(section, type)
        BY <2>2, <2>3
      <3>. QED
        BY <1>2, <1>5, <3>1, <3>2
    <2>4. CASE ~(section <= 2)
      <3>1. CheckNextIncludeOrder(state, type) = [ok |-> FALSE, state |-> wrong]
        BY <2>1, <2>4
      <3>2. SectionAfter(section, type) = section /\ ~InOrder(section, type)
        BY <2>2, <2>4
      <3>. QED
        BY <1>3, <3>1, <3>2
    <2>. QED
      BY <2>3, <2>4
  <1>7. CASE type = "cpp_system"
    <2>1. CheckNextIncludeOrder(state, type) =
            IF section <= 3 THEN [ok |-> TRUE, state |-> At(3)] ELSE [ok |-> FALSE, state |-> wrong]
      BY <1>4, <1>7
    <2>2. /\ SectionAfter(section, type) = IF section <= 3 THEN 3 ELSE section
          /\ InOrder(section, type) <=> section <= 3
      BY <1>1, <1>7 DEF SectionAfter, InOrder, Mine
    <2>3. CASE section <= 3
      <3>1. CheckNextIncludeOrder(state, type) = [ok |-> TRUE, state |-> At(3)]
        BY <2>1, <2>3
      <3>2. SectionAfter(section, type) = 3 /\ InOrder(section, type)
        BY <2>2, <2>3
      <3>. QED
        BY <1>2, <1>5, <3>1, <3>2
    <2>4. CASE ~(section <= 3)
      <3>1. CheckNextIncludeOrder(state, type) = [ok |-> FALSE, state |-> wrong]
        BY <2>1, <2>4
      <3>2. SectionAfter(section, type) = section /\ ~InOrder(section, type)
        BY <2>2, <2>4
      <3>. QED
        BY <1>3, <3>1, <3>2
    <2>. QED
      BY <2>3, <2>4
  <1>8. CASE type \in Mine
    <2>1. CheckNextIncludeOrder(state, type) = [ok |-> TRUE, state |-> At(IF section <= 1 THEN 1 ELSE 4)]
      BY <1>4, <1>8 DEF Mine
    <2>2. SectionAfter(section, type) = IF section <= 1 THEN 1 ELSE 4
      BY <1>8 DEF SectionAfter, Mine
    <2>3. InOrder(section, type)
      BY <1>1, <1>8 DEF InOrder, Mine
    <2>. DEFINE new == IF section <= 1 THEN 1 ELSE 4
    <2>4. new \in 1 .. 4
      OBVIOUS
    <2>5. /\ At(new) \in IncludeStates(entries) /\ At(new).section = new
          /\ At(new).include_list = state.include_list
      BY <1>2, <2>4
    <2>6. CheckNextIncludeOrder(state, type) = [ok |-> TRUE, state |-> At(new)] /\ SectionAfter(section, type) = new
      BY <2>1, <2>2
    <2>. HIDE DEF new
    <2>. QED
      BY <2>3, <2>5, <2>6
  <1>9. CASE type = "other"
    <2>1. CheckNextIncludeOrder(state, type) = [ok |-> TRUE, state |-> At(4)]
      BY <1>4, <1>9
    <2>2. SectionAfter(section, type) = 4
      BY <1>9 DEF SectionAfter, Mine
    <2>3. InOrder(section, type)
      BY <1>1, <1>9 DEF InOrder
    <2>. QED
      BY <1>2, <1>5, <2>1, <2>2, <2>3
  <1>. QED
    BY <1>6, <1>7, <1>8, <1>9

(* What an #include does: the new state and what is told. *)
IncludeLineIs(it, entries, state, include, name, n) ==
  /\ it.state \in IncludeStates(entries) /\ it.errors \in Seq(Plain(IncludeCategories))
  /\ Rejected(name, state, include) => it.state = state /\ LinesOf(it.errors, "build/include_order") = {}
  /\ ~Rejected(name, state, include) =>
       /\ it.state.section = SectionAfter(state.section, _ClassifyInclude(name, include))
       /\ it.state.include_list =
            Front(state.include_list) \o <<Append(Last(state.include_list), [path |-> include.path, line |-> n])>>
       /\ LinesOf(it.errors, "build/include_order") =
            IF InOrder(state.section, _ClassifyInclude(name, include)) THEN {} ELSE {n}

(* CheckIncludeLine does it. *)
LEMMA IncludeLineTyped ==
  ASSUME NEW entries, NEW state \in IncludeStates(entries), NEW include \in Headers, NEW name,
         NEW n \in Nat, NEW after \in BOOLEAN, [path |-> include.path, line |-> n] \in entries
  PROVE  IncludeLineIs(CheckIncludeLine(name, state, include, n, after), entries, state, include, name, n)
  <1>. DEFINE it == CheckIncludeLine(name, state, include, n, after)
              type == _ClassifyInclude(name, include)
              entry == [path |-> include.path, line |-> n]
              rejected == Rejected(name, state, include)
              path == include.path
              unplaced == /\ ~include.system /\ LastSlash(path) = 0 /\ Extension(path) = ".h"
                          /\ ~include.third_party
              duplicate == FindHeader(state, path) >= 0
              foreign == Extension(path) = ".cc" /\ DirName(name) # DirName(path)
              told == duplicate \/ foreign
              list == Front(state.include_list) \o <<Append(Last(state.include_list), entry)>>
              listed == [state EXCEPT !.include_list = list]
              order == CheckNextIncludeOrder(listed, type)
              sorted == IsInAlphabeticalOrder(order.state, include.key, after)
              raised == Raised(unplaced, n, "build/include")
  <1>1. /\ state.include_list \in Seq(Seq(entries)) /\ state.include_list # << >>
        /\ state.section \in 0 .. 4 /\ state.last_header \in Nat
    BY DEF IncludeStates
  <1>2. type \in {"c_system", "cpp_system", "other"} \cup Mine
    BY ClassifyTyped
  <1>3. include.key \in Nat /\ include.third_party \in BOOLEAN
    BY DEF Headers
  <1>4. list \in Seq(Seq(entries)) \ {<< >>}
    <2>1. Front(state.include_list) \in Seq(Seq(entries)) /\ Last(state.include_list) \in Seq(entries)
      BY <1>1, FrontTyped
    <2>2. Append(Last(state.include_list), entry) \in Seq(entries)
      BY <2>1, AppendProperties
    <2>. DEFINE one == <<Append(Last(state.include_list), entry)>>
    <2>3. one \in Seq(Seq(entries)) /\ Len(one) = 1
      BY <2>2
    <2>. HIDE DEF one
    <2>4. list \in Seq(Seq(entries)) /\ Len(list) = Len(Front(state.include_list)) + 1
      BY <2>1, <2>3, ConcatProperties DEF one
    <2>5. Len(Front(state.include_list)) \in Nat /\ Len(<< >>) = 0
      BY <2>1, LenProperties
    <2>. HIDE DEF list
    <2>6. list # << >>
      BY <2>4, <2>5
    <2>. QED
      BY <2>4, <2>6
  <1>5. listed \in IncludeStates(entries) /\ listed.section = state.section /\ listed.include_list = list
    <2>. HIDE DEF list
    <2>. QED
      BY <1>1, <1>4 DEF IncludeStates
  <1>6. /\ unplaced \in BOOLEAN /\ duplicate \in BOOLEAN /\ foreign \in BOOLEAN /\ sorted \in BOOLEAN
        /\ rejected <=> (duplicate \/ foreign \/ include.third_party)
    <2>1. sorted \in BOOLEAN
      BY Zenon DEF IsInAlphabeticalOrder
    <2>2. rejected <=> (duplicate \/ foreign \/ include.third_party)
      BY Zenon DEF Rejected, Duplicate, IsForeign
    <2>3. duplicate \in BOOLEAN
      OBVIOUS
    <2>. HIDE DEF sorted, duplicate
    <2>. QED
      BY <2>1, <2>2, <2>3
  <1>7. it = IF duplicate \/ foreign \/ include.third_party
             THEN [state |-> state, errors |-> raised \o Raised(told, n, "build/include")]
             ELSE [state |-> SetLastHeader(order.state, include.key),
                   errors |-> raised \o Raised(~order.ok, n, "build/include_order")
                                     \o Raised(~sorted, n, "build/include_alpha")]
    BY Zenon DEF CheckIncludeLine
  <1>. HIDE DEF listed, unplaced, duplicate, foreign, sorted
  <1>8. /\ order.state \in IncludeStates(entries) /\ order.state.section = SectionAfter(state.section, type)
        /\ order.state.include_list = list
        /\ order.ok \in BOOLEAN /\ (order.ok <=> InOrder(state.section, type))
    <2>1. /\ order.state \in IncludeStates(entries) /\ order.state.section = SectionAfter(listed.section, type)
          /\ order.state.include_list = listed.include_list
          /\ order.ok \in BOOLEAN /\ (order.ok <=> InOrder(listed.section, type))
      BY <1>2, <1>5, OrderTyped
    <2>2. listed.section = state.section /\ listed.include_list = list
      BY <1>5
    <2>. HIDE DEF order, list
    <2>. QED
      BY <2>1, <2>2
  <1>. HIDE DEF order, list
  <1>10. \A category \in IncludeCategories : Seq(Plain({category})) \subseteq Seq(Plain(IncludeCategories))
    BY PlainMonotonic
  <1>. DEFINE C == Seq(Plain(IncludeCategories))
  <1>11. raised \in C /\ LinesOf(raised, "build/include_order") = {}
    <2>1. raised \in Seq(Plain({"build/include"}))
      BY <1>6, ToldTyped
    <2>2. \A e \in Plain({"build/include"}) : e.category # "build/include_order"
      BY DEF Plain
    <2>. HIDE DEF raised
    <2>. QED
      BY <1>10, <2>1, <2>2, OthersTellNothing DEF IncludeCategories
  <1>. HIDE DEF it, type
  <1>12. ASSUME rejected
         PROVE  /\ it.state \in IncludeStates(entries) /\ it.errors \in Seq(Plain(IncludeCategories))
                /\ it.state = state /\ LinesOf(it.errors, "build/include_order") = {}
    <2>. DEFINE again == Raised(told, n, "build/include")
    <2>1. again \in Seq(Plain({"build/include"}))
      BY <1>6, ToldTyped
    <2>2. \A e \in Plain({"build/include"}) : e.category # "build/include_order"
      BY DEF Plain
    <2>. HIDE DEF again, raised
    <2>3. again \in C /\ LinesOf(again, "build/include_order") = {}
      BY <1>10, <2>1, <2>2, OthersTellNothing DEF IncludeCategories
    <2>4. it = [state |-> state, errors |-> raised \o again]
      BY <1>6, <1>7, <1>12 DEF again
    <2>5. raised \o again \in C /\ LinesOf(raised \o again, "build/include_order") = {}
      BY <1>11, <2>3, LinesOfBoth
    <2>. QED
      BY <1>12, <2>4, <2>5
  <1>13. ASSUME ~rejected
         PROVE  /\ it.state \in IncludeStates(entries) /\ it.errors \in Seq(Plain(IncludeCategories))
                /\ it.state.section = SectionAfter(state.section, type)
                /\ it.state.include_list = list
                /\ LinesOf(it.errors, "build/include_order") = IF InOrder(state.section, type) THEN {} ELSE {n}
    <2>. DEFINE disordered == Raised(~order.ok, n, "build/include_order")
                unsorted == Raised(~sorted, n, "build/include_alpha")
                new == SetLastHeader(order.state, include.key)
    <2>1. /\ disordered \in Seq(Plain({"build/include_order"}))
          /\ LinesOf(disordered, "build/include_order") = IF InOrder(state.section, type) THEN {} ELSE {n}
      <3>1. (~order.ok) \in BOOLEAN
        OBVIOUS
      <3>2. /\ disordered \in Seq(Plain({"build/include_order"}))
            /\ LinesOf(disordered, "build/include_order") = IF ~order.ok THEN {n} ELSE {}
        BY <3>1, ToldTyped
      <3>. QED
        BY <1>8, <3>2
    <2>2. unsorted \in Seq(Plain({"build/include_alpha"}))
      <3>1. (~sorted) \in BOOLEAN
        BY <1>6
      <3>. QED
        BY <3>1, ToldTyped
    <2>3. \A e \in Plain({"build/include_alpha"}) : e.category # "build/include_order"
      BY DEF Plain
    <2>4. /\ new \in IncludeStates(entries) /\ new.section = order.state.section
          /\ new.include_list = order.state.include_list
      BY <1>3, <1>8 DEF SetLastHeader, IncludeStates
    <2>. HIDE DEF disordered, unsorted, new, raised
    <2>5. unsorted \in C /\ LinesOf(unsorted, "build/include_order") = {} /\ disordered \in C
      BY <1>10, <2>1, <2>2, <2>3, OthersTellNothing DEF IncludeCategories
    <2>6. it = [state |-> new, errors |-> raised \o disordered \o unsorted]
      BY <1>6, <1>7, <1>13 DEF disordered, unsorted, new
    <2>7. /\ raised \o disordered \in C
          /\ LinesOf(raised \o disordered, "build/include_order") =
               LinesOf(raised, "build/include_order") \cup LinesOf(disordered, "build/include_order")
      BY <1>11, <2>5, LinesOfBoth
    <2>. DEFINE both == raised \o disordered
    <2>9. both \in C /\ LinesOf(both, "build/include_order") = LinesOf(disordered, "build/include_order")
      BY <1>11, <2>7
    <2>. HIDE DEF both
    <2>10. /\ both \o unsorted \in C
           /\ LinesOf(both \o unsorted, "build/include_order") =
                LinesOf(both, "build/include_order") \cup LinesOf(unsorted, "build/include_order")
      BY <2>5, <2>9, LinesOfBoth
    <2>8. /\ both \o unsorted \in C
          /\ LinesOf(both \o unsorted, "build/include_order") = LinesOf(disordered, "build/include_order")
      BY <2>5, <2>9, <2>10
    <2>11. it.errors = both \o unsorted /\ it.state = new
      BY <2>6 DEF both
    <2>12. it.state.section = SectionAfter(state.section, type) /\ it.state.include_list = list
      BY <1>8, <2>4, <2>11
    <2>. QED
      BY <1>13, <2>1, <2>4, <2>8, <2>11, <2>12 DEF list
  <1>14. rejected \in BOOLEAN
    BY Zenon DEF Rejected
  <1>. HIDE DEF rejected, list
  <1>15. /\ it.state \in IncludeStates(entries) /\ it.errors \in Seq(Plain(IncludeCategories))
         /\ rejected => it.state = state /\ LinesOf(it.errors, "build/include_order") = {}
         /\ ~rejected =>
              /\ it.state.section = SectionAfter(state.section, type)
              /\ it.state.include_list = list
              /\ LinesOf(it.errors, "build/include_order") = IF InOrder(state.section, type) THEN {} ELSE {n}
    BY <1>12, <1>13, <1>14
  <1>. QED
    BY Zenon, <1>15 DEF IncludeLineIs, it, rejected, type, list, path

-----------------------------------------------------------------------------
(* The lines of functions, of a text and not of the state. *)
GoodText(t) ==
  /\ t \in Seq(Lines)
  /\ \A n \in 1 .. Len(t) : /\ IsFiniteSet(t[n].uses)
                            /\ t[n].include # NoInclude => t[n].pp = ""
                            /\ t[n].call # "" => t[n].toks # <<"}">>
                            /\ t[n].pp # "" => t[n].toks = <<"word">>

FunctionStates ==
  [in_a_function : BOOLEAN, lines_in_function : Nat, current_function : {"", "function", "test", "macro"}]

HasIn(t, n, ts) == \E i \in DOMAIN t[n].toks : t[n].toks[i] \in ts
StartsAt(t, n) == t[n].call \in {"function", "test"}
EndAt(t, n) == t[n].toks = <<"}">> /\ ~t[n].indent
TellingFrom(t, n) == {m \in n .. Len(t) : HasIn(t, m, {";", "{", "}"})}
HeadAt(t, n) ==
  StartsAt(t, n) /\ TellingFrom(t, n) # {} /\ ~HasIn(t, Min(TellingFrom(t, n)), {";", "}"})
HeadsTo(t, n) == {f \in 1 .. n - 1 : HeadAt(t, f)}
EndsAfter(t, f) == {e \in f + 1 .. Len(t) : EndAt(t, e)}
BodyEnd(t, f) == IF EndsAfter(t, f) = {} THEN Len(t) ELSE Min(EndsAfter(t, f)) - 1
BodyOf(t, f) == {m \in f + 1 .. BodyEnd(t, f) : t[m].toks # << >> /\ ~StartsAt(t, m)}

LimitOf(kind) == BaseTrigger(kind) * 2^Verbosity
IsLong(t, n) ==
  /\ EndAt(t, n) /\ HeadsTo(t, n) # {}
  /\ Cardinality(BodyOf(t, Max(HeadsTo(t, n)))) > LimitOf(t[Max(HeadsTo(t, n))].call)

(* The state of the function f before line n. *)
InFunction(t, f, fn, n) ==
  /\ fn.current_function = t[f].call
  /\ fn.lines_in_function = Cardinality(BodyOf(t, f) \cap 1 .. n - 1)
  /\ fn.in_a_function <=> EndsAfter(t, f) \cap f + 1 .. n - 1 = {}

FunctionHolds(t, fn, n) ==
  IF HeadsTo(t, n) = {} THEN ~fn.in_a_function /\ fn.lines_in_function = 0
  ELSE InFunction(t, Max(HeadsTo(t, n)), fn, n)

FunctionAfter(t, fn, n) ==
  IF StartsAt(t, n)
  THEN IF HeadAt(t, n) THEN [in_a_function |-> TRUE, lines_in_function |-> 0, current_function |-> t[n].call] ELSE fn
  ELSE IF EndAt(t, n) THEN [fn EXCEPT !.in_a_function = FALSE]
  ELSE IF t[n].toks = << >> \/ ~fn.in_a_function THEN fn
  ELSE [fn EXCEPT !.lines_in_function = @ + 1]

(* The lines of a body, those of them before a line, and where it ends. *)
LEMMA BodyProperties ==
  ASSUME NEW t \in Seq(Lines), NEW f \in Nat \ {0}, NEW n \in 1 .. Len(t), f < n
  PROVE  /\ IsFiniteSet(BodyOf(t, f) \cap 1 .. n - 1) /\ Cardinality(BodyOf(t, f) \cap 1 .. n - 1) \in Nat
         /\ EndAt(t, n) => BodyOf(t, f) \cap 1 .. n - 1 = BodyOf(t, f) /\ n \notin BodyOf(t, f)
         /\ ~EndAt(t, n) =>
              (n \in BodyOf(t, f) <=> /\ t[n].toks # << >> /\ ~StartsAt(t, n)
                                      /\ EndsAfter(t, f) \cap f + 1 .. n - 1 = {})
  <1>. DEFINE ends == EndsAfter(t, f)
              end == BodyEnd(t, f)
  <1>1. Len(t) \in Nat /\ n \in f + 1 .. Len(t) /\ n \in Nat
    BY LenProperties
  <1>2. ends \subseteq f + 1 .. Len(t) /\ (n \in ends <=> EndAt(t, n))
    BY <1>1 DEF EndsAfter
  <1>3. ASSUME ends # {} PROVE end = Min(ends) - 1 /\ Min(ends) \in ends /\ \A e \in ends : Min(ends) <= e
    <2>1. ends \in SUBSET (1 .. Len(t))
      BY <1>1, <1>2
    <2>2. Min(ends) \in ends /\ \A e \in ends : Min(ends) <= e
      BY <1>1, <1>3, <2>1, LeastExists
    <2>. QED
      BY <1>3, <2>2 DEF BodyEnd
  <1>4. ends = {} => end = Len(t)
    BY DEF BodyEnd
  <1>5. BodyOf(t, f) = {m \in f + 1 .. end : t[m].toks # << >> /\ ~StartsAt(t, m)}
    BY DEF BodyOf
  <1>. HIDE DEF ends, end
  <1>6. IsFiniteSet(BodyOf(t, f) \cap 1 .. n - 1)
    <2>1. IsFiniteSet(1 .. n - 1)
      BY <1>1, FS_Interval
    <2>2. BodyOf(t, f) \cap 1 .. n - 1 \subseteq 1 .. n - 1
      OBVIOUS
    <2>. QED
      BY <2>1, <2>2, FS_Subset
  <1>7. ASSUME EndAt(t, n) PROVE BodyOf(t, f) \cap 1 .. n - 1 = BodyOf(t, f) /\ n \notin BodyOf(t, f)
    <2>. DEFINE low == Min(ends)
    <2>1. end = low - 1 /\ low \in f + 1 .. Len(t) /\ low <= n
      BY <1>2, <1>3, <1>7
    <2>. HIDE DEF low
    <2>2. f + 1 .. end \subseteq 1 .. n - 1 /\ n \notin f + 1 .. end
      BY <1>1, <2>1
    <2>. QED
      BY <1>5, <2>2
  <1>8. ASSUME ~EndAt(t, n) PROVE n \in f + 1 .. end <=> ends \cap f + 1 .. n - 1 = {}
    <2>1. CASE ends = {}
      BY <1>1, <1>4, <2>1
    <2>2. CASE ends # {}
      <3>. DEFINE low == Min(ends)
      <3>1. end = low - 1 /\ low \in f + 1 .. Len(t) /\ low \in ends /\ \A e \in ends : low <= e
        BY <1>2, <1>3, <2>2
      <3>2. low # n
        BY <1>2, <1>8, <3>1
      <3>. HIDE DEF low
      <3>3. CASE low < n
        <4>1. low \in f + 1 .. n - 1 /\ n \notin f + 1 .. end
          BY <1>1, <3>1, <3>3
        <4>. QED
          BY <3>1, <4>1
      <3>4. CASE low > n
        <4>1. n \in f + 1 .. end
          BY <1>1, <3>1, <3>4
        <4>2. \A e \in ends : e \notin f + 1 .. n - 1
          BY <1>1, <1>2, <3>1, <3>4
        <4>. QED
          BY <4>1, <4>2
      <3>. QED
        BY <1>1, <3>1, <3>2, <3>3, <3>4
    <2>. QED
      BY <2>1, <2>2
  <1>. QED
    BY <1>5, <1>6, <1>7, <1>8, FS_CardinalityType DEF ends

(* The last function that begins before a line. *)
LEMMA HeadsProperties ==
  ASSUME NEW t \in Seq(Lines), NEW n \in 1 .. Len(t)
  PROVE  /\ HeadsTo(t, n + 1) = HeadsTo(t, n) \cup (IF HeadAt(t, n) THEN {n} ELSE {})
         /\ HeadAt(t, n) => HeadsTo(t, n + 1) # {} /\ Max(HeadsTo(t, n + 1)) = n
         /\ HeadsTo(t, n) # {} => Max(HeadsTo(t, n)) \in 1 .. n - 1
  <1>1. n \in Nat \ {0}
    BY LenProperties
  <1>2. HeadsTo(t, n + 1) = HeadsTo(t, n) \cup (IF HeadAt(t, n) THEN {n} ELSE {})
    <2>1. 1 .. (n + 1) - 1 = (1 .. n - 1) \cup {n}
      BY <1>1
    <2>. QED
      BY <2>1 DEF HeadsTo
  <1>3. HeadsTo(t, n) # {} => Max(HeadsTo(t, n)) \in 1 .. n - 1
    <2>1. HeadsTo(t, n) \in SUBSET (1 .. n - 1) /\ n - 1 \in Nat
      BY <1>1 DEF HeadsTo
    <2>. QED
      BY <2>1, GreatestExists
  <1>4. ASSUME HeadAt(t, n) PROVE HeadsTo(t, n + 1) # {} /\ Max(HeadsTo(t, n + 1)) = n
    <2>1. n \in HeadsTo(t, n + 1)
      BY <1>2, <1>4
    <2>2. HeadsTo(t, n + 1) \in SUBSET (1 .. n)
      BY <1>1 DEF HeadsTo
    <2>3. /\ Max(HeadsTo(t, n + 1)) \in HeadsTo(t, n + 1)
          /\ \A y \in HeadsTo(t, n + 1) : Max(HeadsTo(t, n + 1)) >= y
      BY <1>1, <2>1, <2>2, GreatestExists
    <2>4. Max(HeadsTo(t, n + 1)) \in 1 .. n /\ Max(HeadsTo(t, n + 1)) >= n
      BY <2>1, <2>2, <2>3
    <2>. QED
      BY <1>1, <2>1, <2>4
  <1>. QED
    BY <1>2, <1>3, <1>4

(* The state of the function after a line. *)
LEMMA FunctionTyped ==
  ASSUME NEW t, NEW n, NEW fn \in FunctionStates
  PROVE  FunctionAfter(t, fn, n) \in FunctionStates
  <1>. DEFINE new == FunctionAfter(t, fn, n)
  <1>1. fn.in_a_function \in BOOLEAN /\ fn.lines_in_function \in Nat
    BY DEF FunctionStates
  <1>2. CASE StartsAt(t, n) /\ HeadAt(t, n)
    <2>1. new = [in_a_function |-> TRUE, lines_in_function |-> 0, current_function |-> t[n].call]
      BY <1>2 DEF FunctionAfter
    <2>2. t[n].call \in {"", "function", "test", "macro"}
      BY <1>2 DEF StartsAt
    <2>3. \A kind \in {"", "function", "test", "macro"} :
            [in_a_function |-> TRUE, lines_in_function |-> 0, current_function |-> kind] \in FunctionStates
      BY DEF FunctionStates
    <2>. QED
      BY <2>1, <2>2, <2>3
  <1>3. CASE StartsAt(t, n) /\ ~HeadAt(t, n)
    BY <1>3 DEF FunctionAfter
  <1>4. CASE ~StartsAt(t, n) /\ EndAt(t, n)
    <2>1. new = [fn EXCEPT !.in_a_function = FALSE]
      BY <1>4 DEF FunctionAfter
    <2>. HIDE DEF new
    <2>. QED
      BY <1>1, <2>1 DEF FunctionStates, new
  <1>5. CASE ~StartsAt(t, n) /\ ~EndAt(t, n) /\ (t[n].toks = << >> \/ ~fn.in_a_function)
    BY <1>5 DEF FunctionAfter
  <1>6. CASE ~StartsAt(t, n) /\ ~EndAt(t, n) /\ ~(t[n].toks = << >> \/ ~fn.in_a_function)
    <2>1. new = [fn EXCEPT !.lines_in_function = fn.lines_in_function + 1]
      BY <1>6 DEF FunctionAfter
    <2>2. fn.lines_in_function \in Nat
      BY <1>1
    <2>3. fn.lines_in_function + 1 \in Nat
      BY ONLY <2>2
    <2>. HIDE DEF new
    <2>. QED
      BY <1>1, <2>1, <2>3 DEF FunctionStates, new
  <1>. QED
    BY <1>2, <1>3, <1>4, <1>5, <1>6

(* The state of the function is right after a line if it was before. *)
LEMMA FunctionStep ==
  ASSUME NEW t, GoodText(t), NEW n \in 1 .. Len(t), NEW fn \in FunctionStates, FunctionHolds(t, fn, n)
  PROVE  FunctionHolds(t, FunctionAfter(t, fn, n), n + 1)
  <1>. DEFINE new == FunctionAfter(t, fn, n)
              f == Max(HeadsTo(t, n))
  <1>0. t \in Seq(Lines) /\ n \in Nat \ {0} /\ Len(t) \in Nat /\ t[n] \in Lines
    <2>1. t \in Seq(Lines)
      BY DEF GoodText
    <2>2. Len(t) \in Nat
      BY <2>1, LenProperties
    <2>. QED
      BY <2>1, <2>2, ElementOfSeq
  <1>1. /\ fn.in_a_function \in BOOLEAN /\ fn.lines_in_function \in Nat
        /\ fn.current_function \in {"", "function", "test", "macro"}
        /\ fn = [in_a_function |-> fn.in_a_function, lines_in_function |-> fn.lines_in_function,
                 current_function |-> fn.current_function]
    BY DEF FunctionStates
  <1>2. /\ HeadsTo(t, n + 1) = HeadsTo(t, n) \cup (IF HeadAt(t, n) THEN {n} ELSE {})
        /\ HeadAt(t, n) => HeadsTo(t, n + 1) # {} /\ Max(HeadsTo(t, n + 1)) = n
        /\ HeadsTo(t, n) # {} => f \in 1 .. n - 1
    BY <1>0, HeadsProperties
  <1>3. StartsAt(t, n) => ~EndAt(t, n)
    BY DEF GoodText, StartsAt, EndAt
  <1>4. HeadAt(t, n) => StartsAt(t, n)
    BY DEF HeadAt
  <1>5. CASE HeadAt(t, n)
    <2>1. new = [in_a_function |-> TRUE, lines_in_function |-> 0, current_function |-> t[n].call]
      BY <1>4, <1>5 DEF FunctionAfter
    <2>3. BodyOf(t, n) \cap 1 .. (n + 1) - 1 = {} /\ EndsAfter(t, n) \cap n + 1 .. (n + 1) - 1 = {}
      <3>1. n + 1 .. BodyEnd(t, n) \cap 1 .. (n + 1) - 1 = {} /\ n + 1 .. (n + 1) - 1 = {}
        BY <1>0
      <3>2. BodyOf(t, n) \subseteq n + 1 .. BodyEnd(t, n)
        BY DEF BodyOf
      <3>. QED
        BY <3>1, <3>2
    <2>4. InFunction(t, n, new, n + 1)
      <3>1. Cardinality(BodyOf(t, n) \cap 1 .. (n + 1) - 1) = 0
        BY <2>3, FS_EmptySet
      <3>. QED
        BY <2>1, <2>3, <3>1 DEF InFunction
    <2>. QED
      BY <1>2, <1>5, <2>4 DEF FunctionHolds
  <1>6. CASE ~HeadAt(t, n)
    <2>0. HeadsTo(t, n + 1) = HeadsTo(t, n)
      BY <1>2, <1>6
    <2>1. new = IF StartsAt(t, n) THEN fn
                ELSE IF EndAt(t, n) THEN [fn EXCEPT !.in_a_function = FALSE]
                ELSE IF t[n].toks = << >> \/ ~fn.in_a_function THEN fn
                ELSE [fn EXCEPT !.lines_in_function = fn.lines_in_function + 1]
      BY <1>6 DEF FunctionAfter
    <2>2. /\ new.current_function = fn.current_function
          /\ new.in_a_function <=> fn.in_a_function /\ ~EndAt(t, n)
          /\ new.lines_in_function =
               IF ~StartsAt(t, n) /\ ~EndAt(t, n) /\ t[n].toks # << >> /\ fn.in_a_function
               THEN fn.lines_in_function + 1 ELSE fn.lines_in_function
      <3>1. CASE StartsAt(t, n)
        <4>1. new = fn
          BY <2>1, <3>1
        <4>. QED
          BY <1>1, <1>3, <3>1, <4>1 DEF FunctionStates
      <3>2. CASE ~StartsAt(t, n) /\ EndAt(t, n)
        <4>1. new = [fn EXCEPT !.in_a_function = FALSE]
          BY <2>1, <3>2
        <4>. QED
          BY <1>1, <3>2, <4>1 DEF FunctionStates
      <3>3. CASE ~StartsAt(t, n) /\ ~EndAt(t, n) /\ (t[n].toks = << >> \/ ~fn.in_a_function)
        <4>1. new = fn
          BY <2>1, <3>3
        <4>. QED
          BY <1>1, <3>3, <4>1 DEF FunctionStates
      <3>4. CASE ~StartsAt(t, n) /\ ~EndAt(t, n) /\ ~(t[n].toks = << >> \/ ~fn.in_a_function)
        <4>1. new = [fn EXCEPT !.lines_in_function = fn.lines_in_function + 1]
          BY <2>1, <3>4
        <4>3. fn.lines_in_function \in Nat
          BY <1>1
        <4>2. fn.lines_in_function + 1 \in Nat
          BY ONLY <4>3
        <4>. QED
          BY <1>1, <3>4, <4>1, <4>2 DEF FunctionStates
      <3>. QED
        BY <3>1, <3>2, <3>3, <3>4
    <2>. HIDE DEF new
    <2>3. CASE HeadsTo(t, n) = {}
      <3>1. ~fn.in_a_function /\ fn.lines_in_function = 0
        BY <2>3 DEF FunctionHolds
      <3>2. ~new.in_a_function /\ new.lines_in_function = 0
        BY <2>2, <3>1
      <3>3. FunctionHolds(t, new, n + 1)
        BY <2>0, <2>3, <3>2 DEF FunctionHolds
      <3>. QED
        BY <2>2, <3>3 DEF new
    <2>4. CASE HeadsTo(t, n) # {}
      <3>. DEFINE body == BodyOf(t, f) \cap 1 .. n - 1
                  after == BodyOf(t, f) \cap 1 .. n
                  ends == EndsAfter(t, f)
      <3>1. f \in Nat \ {0} /\ f < n
        BY <1>0, <1>2, <2>4
      <3>2. /\ fn.current_function = t[f].call /\ fn.lines_in_function = Cardinality(body)
            /\ fn.in_a_function <=> ends \cap f + 1 .. n - 1 = {}
        BY <2>4 DEF FunctionHolds, InFunction
      <3>3. /\ IsFiniteSet(body) /\ Cardinality(body) \in Nat
            /\ EndAt(t, n) => n \notin BodyOf(t, f)
            /\ ~EndAt(t, n) => (n \in BodyOf(t, f) <=> /\ t[n].toks # << >> /\ ~StartsAt(t, n)
                                                       /\ ends \cap f + 1 .. n - 1 = {})
        BY <1>0, <3>1, BodyProperties
      <3>4. after = (IF n \in BodyOf(t, f) THEN body \cup {n} ELSE body) /\ n \notin body
        <4>1. 1 .. n = (1 .. n - 1) \cup {n} /\ n \notin 1 .. n - 1
          BY <1>0
        <4>. QED
          BY <4>1
      <3>5. ends \cap f + 1 .. n = {} <=> ends \cap f + 1 .. n - 1 = {} /\ ~EndAt(t, n)
        <4>1. f + 1 .. n = (f + 1 .. n - 1) \cup {n} /\ n \in f + 1 .. Len(t)
          BY <1>0, <3>1
        <4>2. n \in ends <=> EndAt(t, n)
          BY <4>1 DEF EndsAfter
        <4>. QED
          BY <4>1, <4>2
      <3>6. Cardinality(after) = IF n \in BodyOf(t, f) THEN Cardinality(body) + 1 ELSE Cardinality(body)
        BY <3>3, <3>4, FS_AddElement
      <3>. HIDE DEF body, after, ends, f
      <3>7. n \in BodyOf(t, f) <=> ~StartsAt(t, n) /\ ~EndAt(t, n) /\ t[n].toks # << >> /\ fn.in_a_function
        BY <3>2, <3>3
      <3>8. new.lines_in_function = Cardinality(after)
        BY <2>2, <3>2, <3>6, <3>7
      <3>9. (n + 1) - 1 = n
        BY <1>0
      <3>10. InFunction(t, f, new, n + 1)
        BY <2>2, <3>2, <3>5, <3>8, <3>9 DEF InFunction, after, ends
      <3>. QED
        BY <2>0, <2>2, <2>4, <3>10 DEF FunctionHolds, f, new
    <2>. QED
      BY <2>3, <2>4
  <1>. QED
    BY <1>5, <1>6

(* The greatest of a set of numbers with 0 among them. *)
LEMMA GreatestFromZero ==
  ASSUME NEW n \in Nat, NEW s \in SUBSET (0 .. n), 0 \in s
  PROVE  Max(s) \in s /\ \A y \in s : Max(s) >= y
  <1>1. CASE s = {0}
    <2>1. \E x \in s : \A y \in s : x >= y
      BY <1>1
    <2>. QED
      BY <2>1 DEF Max
  <1>2. CASE s # {0}
    <2>. DEFINE t == s \ {0}
    <2>1. t \in SUBSET (1 .. n) /\ t # {}
      BY <1>2
    <2>2. Max(t) \in t /\ \A y \in t : Max(t) >= y
      BY <2>1, GreatestExists
    <2>3. \E x \in s : \A y \in s : x >= y
      <3>1. Max(t) \in s /\ Max(t) \in 1 .. n
        BY <2>1, <2>2
      <3>2. \A y \in s : Max(t) >= y
        BY <2>2, <3>1
      <3>. QED
        BY <3>1, <3>2
    <2>. QED
      BY <2>3 DEF Max
  <1>. QED
    BY <1>1, <1>2

(* The confidence that a function is too long. *)
LEMMA ConfidenceTyped ==
  ASSUME NEW times \in Nat \ {0}
  PROVE  Max({k \in 0 .. 5 : 2^k <= times}) \in 0 .. 5
  <1>. DEFINE s == {k \in 0 .. 5 : 2^k <= times}
  <1>1. 2^0 = 1
    BY SMT
  <1>2. s \in SUBSET (0 .. 5) /\ 0 \in s
    BY <1>1
  <1>. HIDE DEF s
  <1>3. Max(s) \in s
    BY <1>2, GreatestFromZero
  <1>. QED
    BY <1>2, <1>3 DEF s

(* The limits of functions. *)
LEMMA LimitsTyped ==
  ASSUME NEW kind
  PROVE  BaseTrigger(kind) \in Nat \ {0} /\ LimitOf(kind) \in Nat /\ LimitOf(kind) >= BaseTrigger(kind)
  <1>1. BaseTrigger(kind) \in Nat \ {0}
    BY TriggersAssumption DEF BaseTrigger
  <1>2. 2^Verbosity \in Nat \ {0}
    BY TriggersAssumption, PowerOfTwo
  <1>. DEFINE b == BaseTrigger(kind)
              p == 2^Verbosity
  <1>3. LimitOf(kind) = b * p
    BY DEF LimitOf
  <1>. HIDE DEF b, p
  <1>4. b \in Nat \ {0} /\ p \in Nat \ {0}
    BY <1>1, <1>2 DEF b, p
  <1>5. b * p \in Nat /\ b * p >= b
    BY ONLY <1>4
  <1>. QED
    BY <1>1, <1>3, <1>5 DEF b

(* What CheckForFunctionLengths does on a line. *)
LEMMA LengthsTyped ==
  ASSUME GoodText(lines), function \in FunctionStates, NEW n \in 1 .. Len(lines)
  PROVE  LET done_ == CheckForFunctionLengths(n) IN
         /\ done_.function = FunctionAfter(lines, function, n)
         /\ done_.errors \in Seq(LengthErrors)
         /\ LinesOf(done_.errors, "readability/fn_size") \subseteq {n}
         /\ EndAt(lines, n) =>
              (n \in LinesOf(done_.errors, "readability/fn_size") <=>
                 function.lines_in_function > LimitOf(function.current_function))
  <1>. DEFINE t == lines
              it == CheckForFunctionLengths(n)
              fn == function
  <1>1. StartingFunc(n) <=> StartsAt(t, n)
    BY DEF StartingFunc, StartsAt
  <1>2. FunctionEnd(n) <=> EndAt(t, n)
    BY DEF FunctionEnd, EndAt
  <1>3. Telling(n) = TellingFrom(t, n)
    BY DEF Telling, TellingFrom, Has, HasIn
  <1>4. StartsAt(t, n) => (BodyBegins(n) <=> HeadAt(t, n))
    BY <1>3 DEF BodyBegins, HeadAt, Has, HasIn
  <1>5. StartsAt(t, n) => ~EndAt(t, n)
    BY DEF GoodText, StartsAt, EndAt
  <1>6. n \in Nat
    <2>1. lines \in Seq(Lines)
      BY DEF GoodText
    <2>2. Len(lines) \in Nat
      BY <2>1, LenProperties
    <2>. QED
      BY <2>2
  <1>7. HeadAt(t, n) => StartsAt(t, n)
    BY DEF HeadAt
  <1>8. << >> \in Seq(LengthErrors) /\ LinesOf(<< >>, "readability/fn_size") = {}
    BY DEF LinesOf
  <1>9. ASSUME NEW c \in 0 .. 5
        PROVE  LET es == <<[line |-> n, category |-> "readability/fn_size", confidence |-> c]>> IN
               es \in Seq(LengthErrors) /\ LinesOf(es, "readability/fn_size") = {n}
    BY <1>6 DEF LengthErrors, LinesOf
  <1>10. CASE StartsAt(t, n)
    <2>1. it = [function |-> IF BodyBegins(n) THEN Begin(n) ELSE fn,
                errors |-> IF Telling(n) # {} THEN << >>
                           ELSE <<[line |-> n, category |-> "readability/fn_size", confidence |-> 5]>>]
      BY <1>1, <1>10 DEF CheckForFunctionLengths
    <2>2. it.function = FunctionAfter(t, fn, n)
      BY <1>4, <1>10, <2>1 DEF FunctionAfter, Begin
    <2>3. it.errors \in Seq(LengthErrors) /\ LinesOf(it.errors, "readability/fn_size") \subseteq {n}
      BY <1>8, <1>9, <2>1
    <2>. QED
      BY <1>5, <1>10, <2>2, <2>3
  <1>11. CASE ~StartsAt(t, n) /\ EndAt(t, n)
    <2>1. it = [function |-> End, errors |-> Check(n)]
      BY <1>1, <1>2, <1>11 DEF CheckForFunctionLengths
    <2>2. it.function = FunctionAfter(t, fn, n)
      BY <1>11, <2>1 DEF FunctionAfter, End
    <2>. DEFINE base == BaseTrigger(fn.current_function)
                count == fn.lines_in_function
                limit == LimitOf(fn.current_function)
                times == count \div base
                confidence == Max({k \in 0 .. 5 : 2^k <= times})
    <2>3. Check(n) = IF count > limit
                     THEN <<[line |-> n, category |-> "readability/fn_size", confidence |-> confidence]>>
                     ELSE << >>
      BY Zenon DEF Check, LimitOf
    <2>4. base \in Nat \ {0} /\ limit \in Nat /\ limit >= base
      BY LimitsTyped
    <2>5. count \in Nat
      BY DEF FunctionStates
    <2>6. ASSUME count > limit PROVE confidence \in 0 .. 5
      <3>. HIDE DEF base, count, limit
      <3>1. PICK q \in Int, r \in 0 .. base - 1 : q = times /\ count = base * q + r
        BY <2>4, <2>5, DivisionProperties
      <3>. HIDE DEF times
      <3>2. q \in Nat \ {0}
        <4>1. base \in Nat \ {0} /\ r \in 0 .. base - 1 /\ base * q + r >= base /\ q \in Int
          BY <2>4, <2>5, <2>6, <3>1
        <4>2. q <= 0 => base * q <= 0
          BY ONLY <4>1
        <4>. QED
          BY ONLY <4>1, <4>2
      <3>. QED
        BY <3>1, <3>2, ConfidenceTyped
    <2>. HIDE DEF confidence, count, limit
    <2>7. /\ Check(n) \in Seq(LengthErrors)
          /\ LinesOf(Check(n), "readability/fn_size") = IF count > limit THEN {n} ELSE {}
      BY <1>8, <1>9, <2>3, <2>6
    <2>. QED
      BY <1>11, <2>1, <2>2, <2>7 DEF count, limit
  <1>12. CASE ~StartsAt(t, n) /\ ~EndAt(t, n)
    <2>1. it = [function |-> IF IsBlankLine(t[n]) THEN fn ELSE Count, errors |-> << >>]
      BY <1>1, <1>2, <1>12 DEF CheckForFunctionLengths
    <2>2. it.function = FunctionAfter(t, fn, n)
      BY <1>12, <2>1 DEF FunctionAfter, Count, IsBlankLine
    <2>. QED
      BY <1>8, <1>12, <2>1, <2>2
  <1>. QED
    BY <1>10, <1>11, <1>12

-----------------------------------------------------------------------------
(* What holds of every state of a file. *)
Entries(t, s) == {[path |-> t[m].include.path, line |-> m] : m \in s}

TypeInv ==
  /\ GoodText(lines)
  /\ line \in 1 .. Len(lines) + 1
  /\ nest \in Nestings
  /\ includes \in IncludeStates(Entries(lines, Included(line - 1)))
  /\ function \in FunctionStates
  /\ skipped \in SUBSET (1 .. line - 1)
  /\ errors \in Seq(Errors)

(* The values of a function on a finite set are finitely many. *)
LEMMA ValuesAreFinite ==
  ASSUME NEW D, IsFiniteSet(D), NEW f, DOMAIN f = D, f = [x \in D |-> f[x]]
  PROVE  IsFiniteSet({f[x] : x \in D})
  <1>. DEFINE R == {f[x] : x \in D}
  <1>1. f \in [D -> R]
    OBVIOUS
  <1>2. \A y \in R : \E x \in D : f[x] = y
    OBVIOUS
  <1>. HIDE DEF R
  <1>3. f \in Surjection(D, R)
    BY <1>1, <1>2 DEF Surjection
  <1>4. IsFiniteSet(R)
    BY <1>3, FS_Surjection
  <1>. QED
    BY <1>4 DEF R

(* A finite set as a list. *)
LEMMA SetToSeqTyped ==
  ASSUME NEW S, IsFiniteSet(S)
  PROVE  SetToSeq(S) \in Seq(S) /\ ToSet(SetToSeq(S)) = S
  <1>. DEFINE n == Cardinality(S)
              F == [1 .. n -> S]
              f == SetToSeq(S)
  <1>1. PICK m \in Nat : ExistsBijection(1 .. m, S)
    BY FS_NatBijection
  <1>2. m = n
    BY <1>1, FS_CountingElements
  <1>3. \E g \in F : IsInjective(g)
    BY <1>1, <1>2 DEF ExistsBijection, Bijection, Injection
  <1>4. f = CHOOSE g \in F : IsInjective(g)
    BY DEF SetToSeq
  <1>5. f \in F /\ IsInjective(f)
    BY <1>3, <1>4
  <1>. HIDE DEF f
  <1>6. f \in Seq(S)
    BY <1>1, <1>2, <1>5, SeqDef
  <1>7. f \in Surjection(1 .. n, S)
    <2>1. f \in Injection(1 .. n, S)
      BY <1>5 DEF IsInjective, Injection
    <2>2. n \in Nat /\ Cardinality(1 .. n) = n
      BY <1>1, <1>2, FS_Interval
    <2>. QED
      BY <2>1, <2>2, FS_Injection
  <1>8. ToSet(f) = S
    BY <1>5, <1>7 DEF Surjection, ToSet
  <1>. QED
    BY <1>6, <1>8 DEF f

(* Lists of includes of more lines. *)
LEMMA IncludeStatesMonotonic ==
  ASSUME NEW A, NEW B, A \subseteq B
  PROVE  IncludeStates(A) \subseteq IncludeStates(B)
  <1>1. Seq(A) \subseteq Seq(B)
    BY SeqMonotonic
  <1>2. Seq(Seq(A)) \subseteq Seq(Seq(B))
    BY <1>1, SeqMonotonic
  <1>. QED
    BY <1>2 DEF IncludeStates

(* A directive begins a section, and a list for a branch. *)
LEMMA ResetTyped ==
  ASSUME NEW entries, NEW state \in IncludeStates(entries), NEW pp
  PROVE  ResetSection(state, pp) \in IncludeStates(entries) /\ ResetSection(state, pp).section = 0
  <1>. DEFINE list == state.include_list
              new == ResetSection(state, pp).include_list
  <1>1. list \in Seq(Seq(entries)) /\ list # << >>
    BY DEF IncludeStates
  <1>2. Front(list) \in Seq(Seq(entries)) /\ Len(Front(list)) \in Nat /\ Len(list) \in Nat /\ Len(<< >>) = 0
    BY <1>1, FrontTyped, LenProperties
  <1>3. << >> \in Seq(entries)
    OBVIOUS
  <1>4. \A s \in Seq(Seq(entries)) : /\ Append(s, << >>) \in Seq(Seq(entries))
                                     /\ Len(Append(s, << >>)) = Len(s) + 1
    BY <1>3, AppendProperties
  <1>5. \A s \in Seq(Seq(entries)) : Append(s, << >>) # << >>
    <2>1. \A s \in Seq(Seq(entries)) : Len(s) \in Nat
      BY LenProperties
    <2>2. \A s \in Seq(Seq(entries)) : Len(Append(s, << >>)) # 0
      BY <1>4, <2>1
    <2>. QED
      BY <1>2, <2>2
  <1>6. ResetSection(state, pp) =
          [include_list |-> CASE pp = "if"   -> Append(list, << >>)
                              [] pp = "else" -> Append(Front(list), << >>)
                              [] OTHER       -> list,
           section |-> 0, last_header |-> 0]
    BY DEF ResetSection
  <1>. HIDE DEF list
  <1>7. new \in Seq(Seq(entries)) \ {<< >>}
    <2>1. CASE pp = "if"
      BY <1>1, <1>4, <1>5, <1>6, <2>1
    <2>2. CASE pp = "else"
      BY <1>2, <1>4, <1>5, <1>6, <2>2
    <2>3. CASE pp # "if" /\ pp # "else"
      BY <1>1, <1>6, <2>3
    <2>. QED
      BY <2>1, <2>2, <2>3
  <1>8. ResetSection(state, pp) = [include_list |-> new, section |-> 0, last_header |-> 0]
    BY <1>6
  <1>. HIDE DEF new
  <1>. QED
    BY <1>7, <1>8 DEF IncludeStates

(* A function on the first numbers is a list of that length. *)
LEMMA ListOfLength ==
  ASSUME NEW n \in Nat, NEW S, NEW f \in [1 .. n -> S]
  PROVE  f \in Seq(S) /\ Len(f) = n
  <1>1. f \in Seq(S)
    BY SeqDef
  <1>2. Len(f) \in Nat /\ DOMAIN f = 1 .. Len(f) /\ DOMAIN f = 1 .. n
    BY <1>1, LenProperties
  <1>3. 1 .. Len(f) = 1 .. n
    BY <1>2
  <1>4. \A a, b \in Nat : 1 .. a = 1 .. b => a = b
    <2>1. SUFFICES ASSUME NEW a \in Nat, NEW b \in Nat, 1 .. a = 1 .. b, a < b PROVE FALSE
      OBVIOUS
    <2>2. b \in 1 .. b /\ b \notin 1 .. a
      BY <2>1
    <2>. QED
      BY <2>1, <2>2
  <1>. QED
    BY <1>1, <1>2, <1>3, <1>4

(* At the start. *)
LEMMA TypeInit == Init => TypeInv
  <1>. SUFFICES ASSUME Init PROVE TypeInv
    OBVIOUS
  <1>1. PICK kind \in Files : \E name \in kind.names, ls \in [1 .. kind.length -> kind.alphabet] :
          text = [name |-> name, lines |-> kind.beginning \o ls]
    BY DEF Init
  <1>20. PICK name \in kind.names, ls \in [1 .. kind.length -> kind.alphabet] :
           text = [name |-> name, lines |-> kind.beginning \o ls]
    BY <1>1
  <1>2. lines = kind.beginning \o ls
    <2>1. text.lines = kind.beginning \o ls
      BY <1>20
    <2>. QED
      BY <2>1 DEF lines
  <1>. DEFINE b == kind.beginning
              Good(l) == /\ IsFiniteSet(l.uses)
                         /\ l.include # NoInclude => l.pp = ""
                         /\ l.call # "" => l.toks # <<"}">>
                         /\ l.pp # "" => l.toks = <<"word">>
  <1>3. /\ kind.length \in Nat /\ b \in Seq(Lines) /\ kind.alphabet \subseteq Lines
        /\ \A l \in kind.alphabet \cup ToSet(b) : Good(l)
    BY FilesAssumption
  <1>4. ls \in Seq(Lines) /\ Len(ls) = kind.length
    <2>1. ls \in [1 .. kind.length -> Lines]
      BY <1>3
    <2>. QED
      BY <1>3, <2>1, ListOfLength
  <1>5. /\ lines \in Seq(Lines) /\ Len(lines) = Len(b) + Len(ls) /\ Len(b) \in Nat /\ DOMAIN b = 1 .. Len(b)
        /\ \A i \in 1 .. Len(b) + Len(ls) : lines[i] = IF i <= Len(b) THEN b[i] ELSE ls[i - Len(b)]
    BY <1>2, <1>3, <1>4, ConcatProperties, LenProperties
  <1>6. ASSUME NEW i \in 1 .. Len(lines) PROVE Good(lines[i])
    <2>. HIDE DEF Good
    <2>1. CASE i <= Len(b)
      <3>1. lines[i] \in ToSet(b)
        BY <1>5, <2>1 DEF ToSet
      <3>. QED
        BY <1>3, <3>1
    <2>2. CASE ~(i <= Len(b))
      <3>1. lines[i] = ls[i - Len(b)] /\ i - Len(b) \in 1 .. kind.length
        BY <1>3, <1>4, <1>5, <2>2
      <3>2. lines[i] \in kind.alphabet
        BY <3>1
      <3>. QED
        BY <1>3, <3>2
    <2>. QED
      BY <2>1, <2>2
  <1>7. GoodText(lines)
    BY <1>5, <1>6 DEF GoodText
  <1>8. line = 1 /\ nest = EmptyNesting /\ includes = EmptyIncludes /\ skipped = {} /\ errors = << >>
    BY DEF Init
  <1>9. line \in 1 .. Len(lines) + 1
    <2>1. Len(lines) \in Nat
      BY <1>5, LenProperties
    <2>. QED
      BY <1>8, <2>1
  <1>10. nest \in Nestings
    BY <1>8 DEF EmptyNesting, Nestings
  <1>11. includes \in IncludeStates(Entries(lines, Included(line - 1)))
    <2>. DEFINE E == Entries(lines, Included(line - 1))
    <2>. HIDE DEF E
    <2>1. << << >> >> \in Seq(Seq(E)) /\ << << >> >> # << >>
      OBVIOUS
    <2>2. EmptyIncludes \in IncludeStates(E)
      BY <2>1 DEF EmptyIncludes, IncludeStates
    <2>. QED
      BY <1>8, <2>2 DEF E
  <1>12. function \in FunctionStates
    BY DEF Init, FunctionStates
  <1>13. skipped \in SUBSET (1 .. line - 1) /\ errors \in Seq(Errors)
    BY <1>8
  <1>. QED
    BY <1>7, <1>9, <1>10, <1>11, <1>12, <1>13 DEF TypeInv

(* The lines of the includes that were checked, of a text and not of the state. *)
IncludedIn(t, s, upto) == {m \in (1 .. upto) \ s : t[m].include # NoInclude}

(* What the line in hand does to the includes. *)
LEMMA LanguageTyped ==
  ASSUME TypeInv, line <= Len(lines), NEW it, it = CheckLanguage(line),
         NEW include, include = lines[line].include
  PROVE  /\ it.state \in IncludeStates(Entries(lines, Included(line)))
         /\ it.errors \in Seq(Plain(IncludeCategories))
         /\ include = NoInclude => /\ it.errors = << >>
                                   /\ it.state = IF lines[line].pp = "" THEN includes
                                                 ELSE ResetSection(includes, lines[line].pp)
         /\ include # NoInclude =>
              IncludeLineIs(it, Entries(lines, Included(line)), includes, include, text.name, line)
  <1>. DEFINE E == Entries(lines, Included(line))
              l == lines[line]
  <1>1. line \in Nat \ {0} /\ lines \in Seq(Lines) /\ line \in 1 .. Len(lines) /\ line \notin skipped
    <2>1. lines \in Seq(Lines) /\ line \in 1 .. Len(lines) + 1 /\ skipped \in SUBSET (1 .. line - 1)
      BY DEF TypeInv, GoodText
    <2>2. Len(lines) \in Nat
      BY <2>1, LenProperties
    <2>. QED
      BY <2>1, <2>2
  <1>2. l \in Lines
    BY <1>1, ElementOfSeq
  <1>3. include \in {NoInclude} \cup Headers
    BY <1>2 DEF Lines, Headers
  <1>4. includes \in IncludeStates(E)
    <2>1. Included(line - 1) \subseteq Included(line)
      BY <1>1 DEF Included
    <2>2. Entries(lines, Included(line - 1)) \subseteq E
      BY <2>1 DEF Entries
    <2>3. includes \in IncludeStates(Entries(lines, Included(line - 1)))
      BY DEF TypeInv
    <2>. QED
      BY <2>2, <2>3, IncludeStatesMonotonic
  <1>5. CASE include = NoInclude
    <2>1. it = [state |-> IF l.pp = "" THEN includes ELSE ResetSection(includes, l.pp), errors |-> << >>]
      BY <1>5 DEF CheckLanguage
    <2>2. << >> \in Seq(Plain(IncludeCategories))
      OBVIOUS
    <2>3. ResetSection(includes, l.pp) \in IncludeStates(E)
      BY <1>4, ResetTyped
    <2>. DEFINE new == IF l.pp = "" THEN includes ELSE ResetSection(includes, l.pp)
    <2>6. it = [state |-> new, errors |-> << >>]
      BY <2>1
    <2>. HIDE DEF new
    <2>7. it.errors = << >> /\ it.state = new
      BY <2>6
    <2>4. it.errors = << >> /\ it.state = IF l.pp = "" THEN includes ELSE ResetSection(includes, l.pp)
      BY <2>7 DEF new
    <2>. HIDE DEF E
    <2>5. it.state \in IncludeStates(E)
      BY <1>4, <2>3, <2>4
    <2>. QED
      BY <1>5, <2>2, <2>4, <2>5 DEF E
  <1>6. CASE include # NoInclude
    <2>. DEFINE after == line > 1 /\ lines[line - 1].include # NoInclude
    <2>1. it = CheckIncludeLine(text.name, includes, include, line, after)
      BY <1>6 DEF CheckLanguage
    <2>2. after \in BOOLEAN
      OBVIOUS
    <2>3. include \in Headers
      BY <1>3, <1>6
    <2>4. [path |-> include.path, line |-> line] \in E
      <3>1. line \in Included(line)
        BY <1>1, <1>6 DEF Included
      <3>. QED
        BY <3>1 DEF Entries
    <2>. HIDE DEF after, E
    <2>5. IncludeLineIs(it, E, includes, include, text.name, line)
      <3>1. line \in Nat
        BY <1>1
      <3>. QED
        BY <1>4, <2>1, <2>2, <2>3, <2>4, <3>1, IncludeLineTyped
    <2>6. it.state \in IncludeStates(E) /\ it.errors \in Seq(Plain(IncludeCategories))
      BY <2>5 DEF IncludeLineIs
    <2>. QED
      BY <1>6, <2>5, <2>6 DEF E
  <1>. QED
    BY <1>5, <1>6

(* The parts of a step over a line. *)
LEMMA LineTyped ==
  ASSUME TypeInv, line <= Len(lines), NEW updated, updated = Update(nest, lines, line)
  PROVE  /\ updated.nest \in Nestings
         /\ updated.errors \in Seq(Plain(NestingCategories))
         /\ CheckForNamespaceIndentation(updated.nest, lines, line) \in Seq(Plain(NestingCategories))
         /\ CheckAccess(updated.nest, lines, line) \in Seq(Plain(NestingCategories))
         /\ CheckSectionSpacing(updated.nest, lines, line) \in Seq(Plain(NestingCategories))
         /\ line \in 1 .. Len(lines) /\ Len(lines) \in Nat /\ line \notin skipped
         /\ lines \in Seq(Lines) /\ lines[line] \in Lines /\ line - 1 \in Nat
  <1>1. /\ lines \in Seq(Lines) /\ line \in 1 .. Len(lines) + 1 /\ skipped \in SUBSET (1 .. line - 1)
        /\ nest \in Nestings
    BY DEF TypeInv, GoodText
  <1>2. Len(lines) \in Nat
    BY <1>1, LenProperties
  <1>3. line \in 1 .. Len(lines) /\ line \in Nat /\ line \notin skipped /\ line - 1 \in Nat
    BY <1>1, <1>2
  <1>4. lines[line] \in Lines
    BY <1>1, <1>3, ElementOfSeq
  <1>5. updated.nest \in Nestings /\ updated.errors \in Seq(EndErrors)
    BY <1>1, <1>3, UpdateTyped
  <1>. QED
    BY <1>1, <1>2, <1>3, <1>4, <1>5, BlockChecksTyped

(* All the errors of a file are errors. *)
LEMMA KindsOfErrors ==
  /\ Seq(Plain(NestingCategories)) \subseteq Seq(Errors) /\ Seq(Plain(IncludeCategories)) \subseteq Seq(Errors)
  /\ Seq(LengthErrors) \subseteq Seq(Errors) /\ Seq(MissingErrors) \subseteq Seq(Errors)
  /\ \A C, category : category \notin C => \A es \in Seq(Plain(C)) : LinesOf(es, category) = {}
  /\ \A category : \A es \in Seq(LengthErrors) : category # "readability/fn_size" => LinesOf(es, category) = {}
  /\ \A category : \A es \in Seq(MissingErrors) :
       category # "build/include_what_you_use" => LinesOf(es, category) = {}
  <1>1. /\ Plain(NestingCategories) \subseteq Errors /\ Plain(IncludeCategories) \subseteq Errors
        /\ LengthErrors \subseteq Errors /\ MissingErrors \subseteq Errors
    BY DEF Errors
  <1>2. ASSUME NEW C, NEW category, category \notin C, NEW es \in Seq(Plain(C)) PROVE LinesOf(es, category) = {}
    <2>1. \A e \in Plain(C) : e.category # category
      BY <1>2 DEF Plain
    <2>. QED
      BY <2>1, OthersTellNothing
  <1>3. ASSUME NEW es \in Seq(LengthErrors), NEW category, category # "readability/fn_size"
        PROVE  LinesOf(es, category) = {}
    <2>1. \A e \in LengthErrors : e.category # category
      BY <1>3 DEF LengthErrors
    <2>. QED
      BY <2>1, OthersTellNothing
  <1>4. ASSUME NEW es \in Seq(MissingErrors), NEW category, category # "build/include_what_you_use"
        PROVE  LinesOf(es, category) = {}
    <2>1. \A e \in MissingErrors : e.category # category
      BY <1>4 DEF MissingErrors
    <2>. QED
      BY <2>1, OthersTellNothing
  <1>. QED
    BY <1>1, <1>2, <1>3, <1>4, SeqMonotonic

(* What a step over a line does, of a line in an asm block and of another. *)
InAsm ==
  /\ skipped' = skipped \cup {line} /\ includes' = includes /\ function' = function
  /\ \A category : category \notin NestingCategories => LinesOf(errors, category)' = LinesOf(errors, category)
Checked ==
  /\ skipped' = skipped
  /\ includes' = CheckLanguage(line).state
  /\ function' = CheckForFunctionLengths(line).function
  /\ \A category : category \notin NestingCategories =>
       LinesOf(errors, category)' = LinesOf(errors, category)
                                      \cup LinesOf(CheckForFunctionLengths(line).errors, category)
                                      \cup LinesOf(CheckLanguage(line).errors, category)

(* Nothing else happens on a line. *)
LEMMA ProcessLineIs ==
  ASSUME TypeInv, ProcessLine
  PROVE  /\ text' = text /\ done' = done /\ line' = line + 1
         /\ line \in 1 .. Len(lines) /\ Len(lines) \in Nat /\ line \notin skipped /\ line - 1 \in Nat
         /\ lines \in Seq(Lines) /\ lines[line] \in Lines
         /\ nest' \in Nestings /\ errors' \in Seq(Errors)
         /\ InAsm \/ Checked
  <1>. DEFINE updated == Update(nest, lines, line)
              indented == CheckForNamespaceIndentation(updated.nest, lines, line)
              asm == InAsmBlock(updated.nest.stack)
              length == CheckForFunctionLengths(line)
              access == CheckAccess(updated.nest, lines, line)
              spacing == CheckSectionSpacing(updated.nest, lines, line)
              language == CheckLanguage(line)
              ends == updated.errors
  <1>1. line <= Len(lines) /\ text' = text /\ done' = done /\ line' = line + 1 /\ nest' = updated.nest
    BY DEF ProcessLine
  <1>2. IF asm
        THEN /\ skipped' = skipped \cup {line}
             /\ errors' = (errors \o ends) \o indented
             /\ UNCHANGED <<includes, function>>
        ELSE /\ errors' = (((errors \o ends) \o indented) \o length.errors) \o (access \o spacing)
                             \o language.errors
             /\ includes' = language.state
             /\ function' = length.function
             /\ UNCHANGED skipped
    BY Zenon DEF ProcessLine
  <1>3. /\ updated.nest \in Nestings /\ ends \in Seq(Plain(NestingCategories))
        /\ indented \in Seq(Plain(NestingCategories)) /\ access \in Seq(Plain(NestingCategories))
        /\ spacing \in Seq(Plain(NestingCategories))
        /\ line \in 1 .. Len(lines) /\ Len(lines) \in Nat /\ line \notin skipped
        /\ lines \in Seq(Lines) /\ lines[line] \in Lines /\ line - 1 \in Nat
    BY <1>1, LineTyped
  <1>4. /\ function \in FunctionStates /\ GoodText(lines) /\ errors \in Seq(Errors)
    BY DEF TypeInv
  <1>5. length.errors \in Seq(LengthErrors)
    BY <1>3, <1>4, LengthsTyped
  <1>6. language.errors \in Seq(Plain(IncludeCategories))
    BY <1>1, LanguageTyped
  <1>. HIDE DEF updated, indented, asm, length, access, spacing, language, ends
  <1>7. /\ ends \in Seq(Errors) /\ indented \in Seq(Errors) /\ access \in Seq(Errors) /\ spacing \in Seq(Errors)
        /\ length.errors \in Seq(Errors) /\ language.errors \in Seq(Errors)
    BY <1>3, <1>5, <1>6, KindsOfErrors
  <1>8. ASSUME NEW category, category \notin NestingCategories
        PROVE  /\ LinesOf(ends, category) = {} /\ LinesOf(indented, category) = {}
               /\ LinesOf(access, category) = {} /\ LinesOf(spacing, category) = {}
    BY <1>3, <1>8, KindsOfErrors
  <1>. DEFINE first == (errors \o ends) \o indented
              class == access \o spacing
              second == (first \o length.errors) \o class
              all == second \o language.errors
  <1>9. /\ first \in Seq(Errors)
        /\ \A category : category \notin NestingCategories => LinesOf(first, category) = LinesOf(errors, category)
    <2>. DEFINE some == errors \o ends
    <2>1. /\ some \in Seq(Errors)
          /\ \A category : LinesOf(some, category) = LinesOf(errors, category) \cup LinesOf(ends, category)
      BY <1>4, <1>7, LinesOfBoth
    <2>. HIDE DEF some
    <2>3. /\ some \o indented \in Seq(Errors)
          /\ \A category : LinesOf(some \o indented, category) = LinesOf(some, category)
                                                                     \cup LinesOf(indented, category)
      BY <1>7, <2>1, LinesOfBoth
    <2>2. /\ first \in Seq(Errors)
          /\ \A category : LinesOf(first, category) = LinesOf(some, category) \cup LinesOf(indented, category)
      BY <2>3 DEF some
    <2>. HIDE DEF first
    <2>. QED
      BY <1>8, <2>1, <2>2
  <1>10. /\ class \in Seq(Errors)
         /\ \A category : category \notin NestingCategories => LinesOf(class, category) = {}
    <2>1. /\ class \in Seq(Errors)
          /\ \A category : LinesOf(class, category) = LinesOf(access, category) \cup LinesOf(spacing, category)
      BY <1>7, LinesOfBoth
    <2>. HIDE DEF class
    <2>. QED
      BY <1>8, <2>1
  <1>. HIDE DEF first, class
  <1>11. /\ all \in Seq(Errors)
         /\ \A category : category \notin NestingCategories =>
              LinesOf(all, category) = LinesOf(errors, category) \cup LinesOf(length.errors, category)
                                         \cup LinesOf(language.errors, category)
    <2>. DEFINE some == first \o length.errors
    <2>1. /\ some \in Seq(Errors)
          /\ \A category : LinesOf(some, category) = LinesOf(first, category) \cup LinesOf(length.errors, category)
      BY <1>7, <1>9, LinesOfBoth
    <2>. HIDE DEF some
    <2>2. /\ some \o class \in Seq(Errors)
          /\ \A category : LinesOf(some \o class, category) = LinesOf(some, category) \cup LinesOf(class, category)
      BY <1>10, <2>1, LinesOfBoth
    <2>3. second = some \o class
      BY DEF some
    <2>. HIDE DEF second
    <2>5. second \in Seq(Errors)
      BY <2>2, <2>3
    <2>4. /\ all \in Seq(Errors)
          /\ \A category : LinesOf(all, category) = LinesOf(second, category) \cup LinesOf(language.errors, category)
      BY <1>7, <2>5, LinesOfBoth
    <2>. HIDE DEF all
    <2>. QED
      BY <1>9, <1>10, <2>1, <2>2, <2>3, <2>4
  <1>12. CASE asm
    <2>1. skipped' = skipped \cup {line} /\ errors' = first /\ includes' = includes /\ function' = function
      BY <1>2, <1>12 DEF first
    <2>2. \A category : LinesOf(errors, category)' = LinesOf(first, category)
      BY <2>1 DEF LinesOf
    <2>3. InAsm
      BY <1>9, <2>1, <2>2 DEF InAsm
    <2>. QED
      BY <1>1, <1>3, <1>9, <2>1, <2>3
  <1>13. CASE ~asm
    <2>1. skipped' = skipped /\ errors' = all /\ includes' = language.state /\ function' = length.function
      BY <1>2, <1>13 DEF first, class
    <2>. HIDE DEF all
    <2>2. \A category : LinesOf(errors, category)' = LinesOf(all, category)
      BY <2>1 DEF LinesOf
    <2>3. Checked
      BY <1>11, <2>1, <2>2 DEF Checked, language, length
    <2>. QED
      BY <1>1, <1>3, <1>11, <2>1, <2>3
  <1>. QED
    BY <1>12, <1>13

(* The includes that count, from the text and the lines left out. *)
LEMMA IncludedIs == Included(line - 1) = IncludedIn(lines, skipped, line - 1)
  BY DEF Included, IncludedIn

(* The lines checked once another line has been read. *)
LEMMA IncludedAfter ==
  ASSUME TypeInv, ProcessLine
  PROVE  /\ InAsm => Included(line - 1)' = Included(line - 1)
         /\ Checked => Included(line - 1)' = Included(line)
         /\ Included(line) = Included(line - 1) \cup (IF lines[line].include # NoInclude THEN {line} ELSE {})
         /\ lines' = lines
  <1>1. text' = text /\ line' = line + 1 /\ line \in Nat \ {0} /\ line \notin skipped
    BY ProcessLineIs
  <1>2. lines' = lines
    BY <1>1 DEF lines
  <1>3. Included(line - 1)' = {n \in (1 .. line' - 1) \ skipped' : lines[n].include # NoInclude}
    BY <1>2 DEF Included
  <1>4. line' - 1 = line /\ 1 .. line = (1 .. line - 1) \cup {line}
    BY <1>1
  <1>5. Included(line - 1)' = {n \in (1 .. line) \ skipped' : lines[n].include # NoInclude}
    BY <1>3, <1>4
  <1>6. ASSUME InAsm PROVE Included(line - 1)' = Included(line - 1)
    <2>1. (1 .. line) \ skipped' = (1 .. line - 1) \ skipped
      <3>1. skipped' = skipped \cup {line} /\ line \notin 1 .. line - 1
        BY <1>1, <1>6 DEF InAsm
      <3>. QED
        BY <1>4, <3>1
    <2>. QED
      BY <1>5, <2>1 DEF Included
  <1>7. ASSUME Checked PROVE Included(line - 1)' = Included(line)
    BY <1>5, <1>7 DEF Checked, Included
  <1>8. Included(line) = Included(line - 1) \cup (IF lines[line].include # NoInclude THEN {line} ELSE {})
    BY <1>1, <1>4 DEF Included
  <1>. QED
    BY <1>2, <1>6, <1>7, <1>8

(* A step over a line keeps everything well typed. *)
LEMMA TypeLine ==
  ASSUME TypeInv, ProcessLine
  PROVE  TypeInv'
  <1>1. /\ line' = line + 1 /\ line \in 1 .. Len(lines) /\ Len(lines) \in Nat /\ line - 1 \in Nat
        /\ nest' \in Nestings /\ errors' \in Seq(Errors) /\ (InAsm \/ Checked)
    BY ProcessLineIs
  <1>2. /\ InAsm => Included(line - 1)' = Included(line - 1)
        /\ Checked => Included(line - 1)' = Included(line)
        /\ lines' = lines
    BY IncludedAfter
  <1>3. /\ GoodText(lines) /\ skipped \in SUBSET (1 .. line - 1) /\ function \in FunctionStates
        /\ includes \in IncludeStates(Entries(lines, Included(line - 1)))
    BY DEF TypeInv
  <1>4. line' \in 1 .. Len(lines') + 1 /\ line' - 1 = line
    BY <1>1, <1>2
  <1>5. skipped' \in SUBSET (1 .. line' - 1)
    <2>1. skipped' \subseteq skipped \cup {line}
      BY <1>1 DEF InAsm, Checked
    <2>2. skipped \subseteq 1 .. line /\ line \in 1 .. line
      BY <1>1, <1>3
    <2>. QED
      BY <1>4, <2>1, <2>2
  <1>6. function' \in FunctionStates
    <2>1. CASE InAsm
      BY <1>3, <2>1 DEF InAsm
    <2>2. CASE Checked
      <3>1. function' = FunctionAfter(lines, function, line)
        BY <1>1, <1>3, <2>2, LengthsTyped DEF Checked
      <3>. QED
        BY <1>3, <3>1, FunctionTyped
    <2>. QED
      BY <1>1, <2>1, <2>2
  <1>7. includes' \in IncludeStates(Entries(lines, Included(line - 1))')
    <2>1. CASE InAsm
      <3>1. Entries(lines, Included(line - 1))' = Entries(lines, Included(line - 1))
        BY <1>2, <2>1 DEF Entries
      <3>. QED
        BY <1>3, <2>1, <3>1 DEF InAsm
    <2>2. CASE Checked
      <3>1. Entries(lines, Included(line - 1))' = Entries(lines, Included(line))
        BY <1>2, <2>2 DEF Entries
      <3>2. line <= Len(lines)
        BY <1>1
      <3>3. CheckLanguage(line).state \in IncludeStates(Entries(lines, Included(line)))
        BY <3>2, LanguageTyped
      <3>. QED
        BY <2>2, <3>1, <3>3 DEF Checked
    <2>. QED
      BY <1>1, <2>1, <2>2
  <1>. QED
    BY <1>1, <1>2, <1>3, <1>4, <1>5, <1>6, <1>7 DEF TypeInv

(* What is raised after the last line, but for the blocks. *)
MissingSet ==
  LET missing == CheckForIncludeWhatYouUse(Root \o text.name, includes, Uses, Disk)
  IN {[line |-> Uses[h], category |-> "build/include_what_you_use", header |-> h] : h \in missing}
Beside ==
  IF Extension(text.name) = ".cc" THEN CheckHeaderFileIncluded(Root, text.name, includes, Disk) ELSE << >>

(* What the missing headers are: used ones, each with a line that uses it. *)
LEMMA UsesTyped ==
  ASSUME TypeInv
  PROVE  /\ IsFiniteSet(DOMAIN Uses) /\ DOMAIN Uses \subseteq Seq(STRING)
         /\ \A h \in DOMAIN Uses : Uses[h] \in Nat
  <1>. DEFINE N == {m \in DOMAIN lines : lines[m].pp = ""}
              D == UNION {lines[n].uses : n \in N}
              using(h) == {n \in DOMAIN lines : h \in lines[n].uses /\ lines[n].pp = ""}
  <1>1. Uses = [h \in D |-> Max(using(h))]
    BY Zenon DEF Uses
  <1>2. GoodText(lines) /\ lines \in Seq(Lines)
    BY DEF TypeInv, GoodText
  <1>3. Len(lines) \in Nat /\ DOMAIN lines = 1 .. Len(lines)
    BY <1>2, LenProperties
  <1>4. \A n \in DOMAIN lines : IsFiniteSet(lines[n].uses) /\ lines[n].uses \subseteq Seq(STRING)
    <2>1. \A n \in DOMAIN lines : lines[n] \in Lines
      BY <1>2, <1>3, ElementOfSeq
    <2>2. \A n \in DOMAIN lines : IsFiniteSet(lines[n].uses)
      BY <1>2, <1>3 DEF GoodText
    <2>3. \A l \in Lines : l.uses \in SUBSET Seq(STRING)
      BY DEF Lines
    <2>. QED
      BY <2>1, <2>2, <2>3
  <1>5. \A h \in D : using(h) \in SUBSET (1 .. Len(lines)) /\ using(h) # {}
    BY <1>3
  <1>6. N \subseteq DOMAIN lines
    OBVIOUS
  <1>. HIDE DEF N
  <1>7. IsFiniteSet(D)
    <2>. DEFINE f == [n \in N |-> lines[n].uses]
                R == {f[n] : n \in N}
    <2>7. IsFiniteSet(1 .. Len(lines))
      BY <1>3, FS_Interval
    <2>1. IsFiniteSet(N)
      BY <1>3, <1>6, <2>7, FS_Subset
    <2>2. DOMAIN f = N /\ f = [n \in N |-> f[n]] /\ \A n \in N : f[n] = lines[n].uses
      OBVIOUS
    <2>. HIDE DEF f
    <2>3. IsFiniteSet(R)
      BY <2>1, <2>2, ValuesAreFinite
    <2>4. \A T \in R : IsFiniteSet(T)
      BY <1>4, <1>6, <2>2
    <2>5. IsFiniteSet(UNION R)
      <3>. HIDE DEF R
      <3>. QED
        BY <2>3, <2>4, FS_UNION
    <2>6. D = UNION R
      BY <2>2
    <2>. QED
      BY <2>5, <2>6
  <1>8. D \subseteq Seq(STRING)
    BY <1>4, <1>6
  <1>9. \A h \in D : Max(using(h)) \in Nat
    <2>1. \A s \in SUBSET (1 .. Len(lines)) : s # {} => Max(s) \in s
      BY <1>3, GreatestExists
    <2>. HIDE DEF using, D
    <2>2. \A h \in D : Max(using(h)) \in 1 .. Len(lines)
      BY <1>5, <2>1
    <2>. QED
      BY <1>3, <2>2
  <1>. HIDE DEF D, using
  <1>. QED
    BY <1>1, <1>7, <1>8, <1>9

(* The errors after the last line are errors. *)
LEMMA FinishTyped ==
  ASSUME TypeInv
  PROVE  SetToSeq(MissingSet) \in Seq(MissingErrors) /\ Beside \in Seq(Plain({"build/include"}))
  <1>. DEFINE missing == CheckForIncludeWhatYouUse(Root \o text.name, includes, Uses, Disk)
              f == [h \in missing |->
                      [line |-> Uses[h], category |-> "build/include_what_you_use", header |-> h]]
              R == {f[h] : h \in missing}
  <1>1. missing \subseteq DOMAIN Uses
    BY DEF CheckForIncludeWhatYouUse
  <1>2. IsFiniteSet(missing)
    BY <1>1, UsesTyped, FS_Subset
  <1>3. R = MissingSet
    BY DEF MissingSet
  <1>. HIDE DEF missing
  <1>4. IsFiniteSet(R) /\ R \subseteq MissingErrors
    <2>1. \A h \in missing : f[h] \in MissingErrors
      <3>1. \A h \in missing : h \in Seq(STRING) /\ Uses[h] \in Nat
        BY <1>1, UsesTyped
      <3>. QED
        BY <3>1 DEF MissingErrors
    <2>2. DOMAIN f = missing /\ f = [h \in missing |-> f[h]]
      OBVIOUS
    <2>. HIDE DEF f
    <2>. QED
      BY <1>2, <2>1, <2>2, ValuesAreFinite
  <1>. HIDE DEF R
  <1>5. SetToSeq(R) \in Seq(MissingErrors)
    BY <1>4, SetToSeqTyped, SeqMonotonic
  <1>6. Beside \in Seq(Plain({"build/include"}))
    <2>. DEFINE C == Seq(Plain({"build/include"}))
                header == SplitExt(text.name) \o <<".h">>
                is_test == \E t \in {"test", "unittest"} : Ends(text.name, <<"_", t, ".cc">>)
                all == AllIncludes(includes)
                found == \/ is_test \/ Root \o header \notin DOMAIN Disk
                         \/ \E i \in DOMAIN all : Within(header, all[i].path) \/ Within(all[i].path, header)
                first == IF all = << >> THEN 0 ELSE all[1].line
    <2>1. CheckHeaderFileIncluded(Root, text.name, includes, Disk) =
            IF found THEN << >> ELSE <<[line |-> first, category |-> "build/include"]>>
      BY Zenon DEF CheckHeaderFileIncluded
    <2>2. all \in Seq(Entries(lines, Included(line - 1)))
      <3>. DEFINE E == Entries(lines, Included(line - 1))
      <3>1. includes \in IncludeStates(E)
        BY DEF TypeInv
      <3>. HIDE DEF E
      <3>2. includes.include_list \in Seq(Seq(E))
        BY <3>1 DEF IncludeStates
      <3>. QED
        BY <3>2, FlattenTyped DEF AllIncludes, E
    <2>3. \A e \in Entries(lines, Included(line - 1)) : e.line \in Nat
      <3>1. Included(line - 1) \subseteq Nat
        <4>1. line - 1 \in Int
          BY DEF TypeInv
        <4>. QED
          BY <4>1 DEF Included
      <3>. QED
        BY <3>1 DEF Entries
    <2>4. first \in Nat
      <3>1. all # << >> => all[1] \in Entries(lines, Included(line - 1))
        <4>1. all # << >> => Len(all) \in Nat \ {0}
          BY <2>2, LenProperties, EmptySeq
        <4>. QED
          BY <2>2, <4>1, ElementOfSeq
      <3>. HIDE DEF all
      <3>. QED
        BY <2>3, <3>1
    <2>. HIDE DEF found, first
    <2>5. << >> \in C /\ <<[line |-> first, category |-> "build/include"]>> \in C
      BY <2>4 DEF Plain
    <2>. QED
      BY <2>1, <2>5 DEF Beside
  <1>. QED
    BY <1>3, <1>5, <1>6

(* Nothing else happens after the last line. *)
LEMMA FinishFileIs ==
  ASSUME TypeInv, FinishFile
  PROVE  /\ UNCHANGED <<text, line, nest, includes, function, skipped>> /\ done'
         /\ errors' \in Seq(Errors)
         /\ LinesOf(errors, "readability/fn_size")' = LinesOf(errors, "readability/fn_size")
         /\ LinesOf(errors, "build/include_order")' = LinesOf(errors, "build/include_order")
         /\ LinesOf(errors, "build/include") \subseteq LinesOf(errors, "build/include")'
  <1>. DEFINE blocks == CheckCompletedBlocks(nest.stack)
              missing == SetToSeq(MissingSet)
              beside == Beside
  <1>1. /\ UNCHANGED <<text, line, nest, includes, function, skipped>> /\ done'
        /\ errors' = ((errors \o blocks) \o missing) \o beside
    BY Zenon DEF FinishFile, MissingSet, Beside
  <1>2. missing \in Seq(MissingErrors) /\ beside \in Seq(Plain({"build/include"}))
    BY FinishTyped
  <1>3. blocks \in Seq(Plain(NestingCategories))
    <2>1. nest.stack \in Seq(Blocks)
      BY DEF TypeInv, Nestings
    <2>. QED
      BY <2>1, CompletedBlocksTyped
  <1>4. errors \in Seq(Errors)
    BY DEF TypeInv
  <1>. HIDE DEF blocks, missing, beside
  <1>5. /\ blocks \in Seq(Errors) /\ missing \in Seq(Errors) /\ beside \in Seq(Errors)
    <2>1. Seq(Plain({"build/include"})) \subseteq Seq(Plain(IncludeCategories))
      BY PlainMonotonic DEF IncludeCategories
    <2>. QED
      BY <1>2, <1>3, <2>1, KindsOfErrors
  <1>6. /\ LinesOf(blocks, "readability/fn_size") = {} /\ LinesOf(missing, "readability/fn_size") = {}
        /\ LinesOf(beside, "readability/fn_size") = {}
        /\ LinesOf(blocks, "build/include_order") = {} /\ LinesOf(missing, "build/include_order") = {}
        /\ LinesOf(beside, "build/include_order") = {}
    <2>1. /\ "readability/fn_size" \notin NestingCategories /\ "readability/fn_size" \notin {"build/include"}
          /\ "build/include_order" \notin NestingCategories /\ "build/include_order" \notin {"build/include"}
      BY DEF NestingCategories
    <2>. QED
      BY <1>2, <1>3, <2>1, KindsOfErrors
  <1>. DEFINE some == errors \o blocks
  <1>7. /\ some \in Seq(Errors)
        /\ \A category : LinesOf(some, category) = LinesOf(errors, category) \cup LinesOf(blocks, category)
    BY <1>4, <1>5, LinesOfBoth
  <1>. HIDE DEF some
  <1>. DEFINE more == some \o missing
  <1>8. /\ more \in Seq(Errors)
        /\ \A category : LinesOf(more, category) = LinesOf(some, category) \cup LinesOf(missing, category)
    BY <1>5, <1>7, LinesOfBoth
  <1>. HIDE DEF more
  <1>. DEFINE all == more \o beside
  <1>9. /\ all \in Seq(Errors)
        /\ \A category : LinesOf(all, category) = LinesOf(more, category) \cup LinesOf(beside, category)
    BY <1>5, <1>8, LinesOfBoth
  <1>. HIDE DEF all
  <1>10. errors' = all
    BY <1>1 DEF all, more, some
  <1>11. \A category : LinesOf(errors, category)' = LinesOf(all, category)
    BY <1>10 DEF LinesOf
  <1>. QED
    BY <1>1, <1>6, <1>7, <1>8, <1>9, <1>10, <1>11 DEF beside

(* So do the checks after the last line. *)
LEMMA TypeFinish ==
  ASSUME TypeInv, FinishFile
  PROVE  TypeInv'
  <1>1. UNCHANGED <<text, line, nest, includes, function, skipped>> /\ errors' \in Seq(Errors)
    BY FinishFileIs
  <1>2. lines' = lines
    BY <1>1 DEF lines
  <1>3. Entries(lines, Included(line - 1))' = Entries(lines, Included(line - 1))
    BY <1>1, <1>2 DEF Entries, Included
  <1>. QED
    BY <1>1, <1>2, <1>3 DEF TypeInv

(* And so does a step that changes nothing. *)
LEMMA TypeUnchanged ==
  ASSUME TypeInv, UNCHANGED vars
  PROVE  TypeInv'
  <1>1. UNCHANGED <<text, line, nest, includes, function, skipped, errors>>
    BY DEF vars
  <1>2. lines' = lines
    BY <1>1 DEF lines
  <1>3. Entries(lines, Included(line - 1))' = Entries(lines, Included(line - 1))
    BY <1>1, <1>2 DEF Entries, Included
  <1>. QED
    BY <1>1, <1>2, <1>3 DEF TypeInv

(* In every state the file, the blocks, the includes, the function being     *)
(* counted and the errors are of their types, and each include in a list is  *)
(* that of its line.                                                         *)
THEOREM TypeCorrect == Spec => []TypeInv
  <1>1. TypeInv /\ [Next]_vars => TypeInv'
    BY TypeLine, TypeFinish, TypeUnchanged DEF Next
  <1>. QED
    BY <1>1, TypeInit, PTL DEF Spec

-----------------------------------------------------------------------------
(* The functions told to be too long.  While nothing is left out, the state  *)
(* of the function at a line is what the lines before make it, and what has  *)
(* been told at closing braces is what is due.                               *)
LengthInv ==
  skipped = {} =>
    /\ FunctionHolds(lines, function, line)
    /\ {m \in LinesOf(errors, "readability/fn_size") : EndAt(lines, m)} =
         {m \in 1 .. line - 1 : IsLong(lines, m)}

(* The lines of a text, as the reference of the property reads them. *)
LEMMA LengthReference ==
  ASSUME TypeInv, LengthInv
  PROVE  LongFunctionsAreTold
  <1>1. /\ \A n : FunctionEnd(n) <=> EndAt(lines, n)
        /\ \A n : StartingFunc(n) <=> StartsAt(lines, n)
    BY DEF FunctionEnd, EndAt, StartingFunc, StartsAt
  <1>2. \A n : Telling(n) = TellingFrom(lines, n)
    BY DEF Telling, TellingFrom, Has, HasIn
  <1>3. \A n : StartingFunc(n) /\ BodyBegins(n) <=> HeadAt(lines, n)
    BY <1>1, <1>2 DEF BodyBegins, HeadAt, Has, HasIn
  <1>4. \A f : Body(f) = BodyOf(lines, f)
    BY <1>1 DEF Body, BodyOf, BodyEnd, EndsAfter
  <1>5. Reported("readability/fn_size") = LinesOf(errors, "readability/fn_size")
    BY DEF Reported, LinesOf
  <1>. DEFINE heads == {f \in 1 .. line - 1 : StartingFunc(f) /\ BodyBegins(f)}
              HeadOf(n) == {f \in heads : f < n}
              limit(f) == BaseTrigger(lines[f].call) * 2^Verbosity
  <1>6. \A n \in 1 .. line - 1 : HeadOf(n) = HeadsTo(lines, n)
    <2>1. line \in Nat
      BY DEF TypeInv
    <2>. SUFFICES ASSUME NEW n \in 1 .. line - 1 PROVE HeadOf(n) = HeadsTo(lines, n)
      OBVIOUS
    <2>2. {f \in 1 .. line - 1 : f < n} = 1 .. n - 1
      BY <2>1
    <2>3. HeadsTo(lines, n) = {f \in 1 .. n - 1 : StartingFunc(f) /\ BodyBegins(f)}
      BY <1>3 DEF HeadsTo
    <2>. QED
      BY <2>2, <2>3
  <1>7. \A f : limit(f) = LimitOf(lines[f].call)
    BY DEF LimitOf
  <1>8. \A n \in 1 .. line - 1 :
          IsLong(lines, n) <=> /\ FunctionEnd(n) /\ HeadOf(n) # {}
                               /\ Cardinality(Body(Max(HeadOf(n)))) > limit(Max(HeadOf(n)))
    <2>. HIDE DEF HeadOf, limit
    <2>. QED
      BY <1>1, <1>4, <1>6, <1>7 DEF IsLong
  <1>9. ASSUME skipped = {}
        PROVE  {n \in Reported("readability/fn_size") : FunctionEnd(n)} =
                 {n \in 1 .. line - 1 : /\ FunctionEnd(n) /\ HeadOf(n) # {}
                                        /\ Cardinality(Body(Max(HeadOf(n)))) > limit(Max(HeadOf(n)))}
    <2>. HIDE DEF HeadOf, limit
    <2>. QED
      BY <1>1, <1>5, <1>8, <1>9 DEF LengthInv
  <1>. QED
    BY Zenon, <1>9 DEF LongFunctionsAreTold

(* A closing brace is told when the function before it is too long. *)
LEMMA TooLongIs ==
  ASSUME NEW t \in Seq(Lines), NEW n \in 1 .. Len(t), NEW fn \in FunctionStates, FunctionHolds(t, fn, n),
         EndAt(t, n)
  PROVE  fn.lines_in_function > LimitOf(fn.current_function) <=> IsLong(t, n)
  <1>1. CASE HeadsTo(t, n) = {}
    <2>1. fn.lines_in_function = 0 /\ ~IsLong(t, n)
      BY <1>1 DEF FunctionHolds, IsLong
    <2>2. LimitOf(fn.current_function) \in Nat
      BY LimitsTyped
    <2>. QED
      BY <2>1, <2>2
  <1>2. CASE HeadsTo(t, n) # {}
    <2>. DEFINE f == Max(HeadsTo(t, n))
    <2>1. f \in 1 .. n - 1 /\ n \in Nat
      BY <1>2, HeadsProperties, LenProperties
    <2>2. f \in Nat \ {0} /\ f < n
      BY <2>1
    <2>3. InFunction(t, f, fn, n)
      BY <1>2 DEF FunctionHolds
    <2>. HIDE DEF f
    <2>4. BodyOf(t, f) \cap 1 .. n - 1 = BodyOf(t, f)
      BY <2>2, BodyProperties
    <2>5. fn.lines_in_function = Cardinality(BodyOf(t, f)) /\ fn.current_function = t[f].call
      BY <2>3, <2>4 DEF InFunction
    <2>. QED
      BY <1>2, <2>5 DEF IsLong, f
  <1>. QED
    BY <1>1, <1>2

(* At the start. *)
LEMMA LengthInit == Init => LengthInv
  <1>. SUFFICES ASSUME Init PROVE LengthInv
    OBVIOUS
  <1>1. line = 1 /\ errors = << >> /\ ~function.in_a_function /\ function.lines_in_function = 0
    BY DEF Init
  <1>2. 1 .. line - 1 = {}
    BY <1>1
  <1>3. HeadsTo(lines, line) = {}
    BY <1>2 DEF HeadsTo
  <1>4. LinesOf(errors, "readability/fn_size") = {}
    BY <1>1 DEF LinesOf
  <1>. QED
    BY <1>1, <1>2, <1>3, <1>4 DEF LengthInv, FunctionHolds

(* Over a line. *)
LEMMA LengthLine ==
  ASSUME TypeInv, LengthInv, ProcessLine
  PROVE  LengthInv'
  <1>1. /\ line' = line + 1 /\ line \in 1 .. Len(lines) /\ Len(lines) \in Nat /\ line - 1 \in Nat
        /\ lines \in Seq(Lines) /\ (InAsm \/ Checked)
    BY ProcessLineIs
  <1>2. lines' = lines /\ GoodText(lines) /\ function \in FunctionStates
    BY IncludedAfter DEF TypeInv
  <1>3. CASE InAsm
    <2>1. skipped' # {}
      BY <1>3 DEF InAsm
    <2>. QED
      BY <2>1 DEF LengthInv
  <1>4. CASE Checked
    <2>. DEFINE it == CheckForFunctionLengths(line)
                told == LinesOf(errors, "readability/fn_size")
                new == LinesOf(it.errors, "readability/fn_size")
    <2>. SUFFICES ASSUME skipped' = {}
                  PROVE  /\ FunctionHolds(lines', function', line')
                         /\ {m \in LinesOf(errors, "readability/fn_size")' : EndAt(lines', m)} =
                              {m \in 1 .. line' - 1 : IsLong(lines', m)}
      BY DEF LengthInv
    <2>1. /\ FunctionHolds(lines, function, line)
          /\ {m \in told : EndAt(lines, m)} = {m \in 1 .. line - 1 : IsLong(lines, m)}
      BY <1>4 DEF Checked, LengthInv
    <2>2. /\ function' = FunctionAfter(lines, function, line)
          /\ new \subseteq {line}
          /\ EndAt(lines, line) =>
               (line \in new <=> function.lines_in_function > LimitOf(function.current_function))
      BY <1>1, <1>2, <1>4, LengthsTyped DEF Checked
    <2>3. FunctionHolds(lines', function', line')
      BY <1>1, <1>2, <2>1, <2>2, FunctionStep
    <2>4. LinesOf(errors, "readability/fn_size")' = told \cup new
      <3>1. "readability/fn_size" \notin NestingCategories /\ "readability/fn_size" \notin IncludeCategories
        BY DEF NestingCategories, IncludeCategories
      <3>2. LinesOf(CheckLanguage(line).errors, "readability/fn_size") = {}
        <4>1. line <= Len(lines)
          BY <1>1
        <4>2. CheckLanguage(line).errors \in Seq(Plain(IncludeCategories))
          BY <4>1, LanguageTyped
        <4>. QED
          BY <3>1, <4>2, KindsOfErrors
      <3>. QED
        BY <1>4, <3>1, <3>2 DEF Checked
    <2>5. EndAt(lines, line) => (line \in new <=> IsLong(lines, line))
      BY <1>1, <1>2, <2>1, <2>2, TooLongIs
    <2>6. IsLong(lines, line) => EndAt(lines, line)
      BY DEF IsLong
    <2>7. {m \in new : EndAt(lines, m)} = {m \in {line} : IsLong(lines, m)}
      BY <2>2, <2>5, <2>6
    <2>8. 1 .. line' - 1 = (1 .. line - 1) \cup {line}
      BY <1>1
    <2>9. {m \in told \cup new : EndAt(lines, m)} = {m \in 1 .. line' - 1 : IsLong(lines, m)}
      <3>. HIDE DEF told, new
      <3>. QED
        BY <2>1, <2>7, <2>8
    <2>. QED
      BY <1>2, <2>3, <2>4, <2>9
  <1>. QED
    BY <1>1, <1>3, <1>4

(* After the last line. *)
LEMMA LengthFinish ==
  ASSUME TypeInv, LengthInv, FinishFile
  PROVE  LengthInv'
  <1>1. /\ UNCHANGED <<text, line, function, skipped>>
        /\ LinesOf(errors, "readability/fn_size")' = LinesOf(errors, "readability/fn_size")
    BY FinishFileIs
  <1>2. lines' = lines
    BY <1>1 DEF lines
  <1>. QED
    BY <1>1, <1>2 DEF LengthInv

(* A function whose body has more lines than the limit is told at the braces *)
(* that follow it, and no other ever is, whatever the lines and the limits.  *)
THEOREM LongFunctions == Spec => []LongFunctionsAreTold
  <1>1. Init => TypeInv /\ LengthInv
    BY TypeInit, LengthInit
  <1>2. TypeInv /\ LengthInv /\ [Next]_vars => (TypeInv /\ LengthInv)'
    <2>. SUFFICES ASSUME TypeInv, LengthInv, [Next]_vars PROVE (TypeInv /\ LengthInv)'
      OBVIOUS
    <2>1. CASE ProcessLine
      BY <2>1, TypeLine, LengthLine
    <2>2. CASE FinishFile
      BY <2>2, TypeFinish, LengthFinish
    <2>3. CASE UNCHANGED vars
      <3>1. text' = text /\ UNCHANGED <<line, function, skipped, errors>>
        BY <2>3 DEF vars
      <3>2. lines' = lines
        BY <3>1 DEF lines
      <3>3. LengthInv'
        BY <3>1, <3>2 DEF LengthInv, LinesOf
      <3>. QED
        BY <2>3, <3>3, TypeUnchanged
    <2>. QED
      BY <2>1, <2>2, <2>3 DEF Next
  <1>3. TypeInv /\ LengthInv => LongFunctionsAreTold
    BY LengthReference
  <1>. QED
    BY <1>1, <1>2, <1>3, PTL DEF Spec

-----------------------------------------------------------------------------
(* The order of the includes, of a text, its name and the lines left out.  *)
(* Section: the headers that count in the section that line n is in.       *)
IsDirective(t, n) == t[n].pp # ""
Cuts(t, s) == {n \in DOMAIN t : IsDirective(t, n)} \ s
Counted(t, name, s, m) == m \notin s /\ t[m].include # NoInclude /\ ~IsForeign(name, t[m].include)
SectionOf(t, name, s, n) == {m \in 1 .. n - 1 : Counted(t, name, s, m) /\ Cuts(t, s) \cap m .. n - 1 = {}}
Above(t, name, s, n) == {m \in 1 .. n - 1 : Counted(t, name, s, m) /\ Cuts(t, s) \cap m .. n = {}}

TypeOf(t, name, n) == _ClassifyInclude(name, t[n].include)
RankIn(t, name, s, n) ==
  CASE TypeOf(t, name, n) = "c_system" -> 2
    [] TypeOf(t, name, n) = "cpp_system" -> 3
    [] TypeOf(t, name, n) = "other" -> 4
    [] TypeOf(t, name, n) \in Mine -> IF \E m \in Above(t, name, s, n) : TypeOf(t, name, m) \notin Mine THEN 4 ELSE 1
IsDisordered(t, name, s, n) ==
  /\ Counted(t, name, s, n) /\ RankIn(t, name, s, n) \in {2, 3}
  /\ \E m \in Above(t, name, s, n) : RankIn(t, name, s, m) > RankIn(t, name, s, n)

(* The section reached is that of the header of the latest kind in it. *)
SectionHolds(t, name, s, n, section) ==
  /\ \A m \in SectionOf(t, name, s, n) : RankIn(t, name, s, m) <= section
  /\ section # 0 => \E m \in SectionOf(t, name, s, n) : RankIn(t, name, s, m) = section

Agree(s, r, n) == \A m \in 1 .. n : m \in s <=> m \in r

(* What is left out after a line changes nothing before it. *)
LEMMA OrderBefore ==
  ASSUME NEW t, NEW name, NEW s, NEW r, NEW n \in Nat, Agree(s, r, n)
  PROVE  \A m \in 1 .. n : /\ Above(t, name, s, m) = Above(t, name, r, m)
                           /\ RankIn(t, name, s, m) = RankIn(t, name, r, m)
  <1>1. ASSUME NEW k \in 1 .. n PROVE Above(t, name, s, k) = Above(t, name, r, k)
    <2>1. ASSUME NEW m \in 1 .. k - 1
          PROVE  /\ Counted(t, name, s, m) <=> Counted(t, name, r, m)
                 /\ Cuts(t, s) \cap m .. k = Cuts(t, r) \cap m .. k
      <3>1. m \in 1 .. n /\ m .. k \subseteq 1 .. n
        OBVIOUS
      <3>2. m \in s <=> m \in r
        BY <3>1 DEF Agree
      <3>3. \A i \in m .. k : i \in s <=> i \in r
        BY <3>1 DEF Agree
      <3>. QED
        BY <3>2, <3>3 DEF Counted, Cuts
    <2>. QED
      BY <2>1 DEF Above
  <1>2. ASSUME NEW k \in 1 .. n PROVE RankIn(t, name, s, k) = RankIn(t, name, r, k)
    BY <1>1 DEF RankIn
  <1>. QED
    BY <1>1, <1>2

(* The section of the line after one. *)
LEMMA SectionNext ==
  ASSUME NEW t \in Seq(Lines), NEW name, NEW n \in 1 .. Len(t), NEW s \in SUBSET (1 .. n - 1)
  PROVE  /\ SectionOf(t, name, s \cup {n}, n + 1) = SectionOf(t, name, s, n)
         /\ IsDirective(t, n) => SectionOf(t, name, s, n + 1) = {}
         /\ ~IsDirective(t, n) =>
              /\ SectionOf(t, name, s, n + 1) =
                   SectionOf(t, name, s, n) \cup (IF Counted(t, name, s, n) THEN {n} ELSE {})
              /\ Above(t, name, s, n) = SectionOf(t, name, s, n)
  <1>. DEFINE cut == IsDirective(t, n)
  <1>1. n \in Nat \ {0} /\ (n + 1) - 1 = n /\ n \notin s
    BY LenProperties
  <1>2. 1 .. n = (1 .. n - 1) \cup {n} /\ n \notin 1 .. n - 1
    BY <1>1
  <1>3. \A m \in 1 .. n - 1 : m .. n = (m .. n - 1) \cup {n} /\ n \notin m .. n - 1
    BY <1>1
  <1>4. n .. n = {n}
    BY <1>1
  <1>5. n \in Cuts(t, s) <=> cut
    <2>1. n \in DOMAIN t
      BY LenProperties
    <2>. QED
      BY <1>1, <2>1 DEF Cuts
  <1>6. Cuts(t, s \cup {n}) = Cuts(t, s) \ {n}
    BY DEF Cuts
  <1>7. \A m \in 1 .. n - 1 : Counted(t, name, s \cup {n}, m) <=> Counted(t, name, s, m)
    BY <1>2 DEF Counted
  <1>8. ~Counted(t, name, s \cup {n}, n)
    BY DEF Counted
  <1>. HIDE DEF cut
  <1>9. \A m \in 1 .. n - 1 : Cuts(t, s \cup {n}) \cap m .. n = Cuts(t, s) \cap m .. n - 1
    BY <1>3, <1>6
  <1>10. SectionOf(t, name, s \cup {n}, n + 1) = SectionOf(t, name, s, n)
    <2>1. SectionOf(t, name, s \cup {n}, n + 1) =
            {m \in 1 .. n : Counted(t, name, s \cup {n}, m) /\ Cuts(t, s \cup {n}) \cap m .. n = {}}
      BY <1>1 DEF SectionOf
    <2>. QED
      BY <1>2, <1>7, <1>8, <1>9, <2>1 DEF SectionOf
  <1>11. SectionOf(t, name, s, n + 1) = {m \in 1 .. n : Counted(t, name, s, m) /\ Cuts(t, s) \cap m .. n = {}}
    BY <1>1 DEF SectionOf
  <1>12. cut => SectionOf(t, name, s, n + 1) = {}
    BY <1>2, <1>3, <1>4, <1>5, <1>11
  <1>13. ASSUME ~cut
         PROVE  /\ SectionOf(t, name, s, n + 1) =
                     SectionOf(t, name, s, n) \cup (IF Counted(t, name, s, n) THEN {n} ELSE {})
                /\ Above(t, name, s, n) = SectionOf(t, name, s, n)
    <2>1. \A m \in 1 .. n - 1 : Cuts(t, s) \cap m .. n = Cuts(t, s) \cap m .. n - 1
      BY <1>3, <1>5, <1>13
    <2>2. Cuts(t, s) \cap n .. n = {}
      BY <1>4, <1>5, <1>13
    <2>. QED
      BY <1>2, <1>11, <2>1, <2>2 DEF SectionOf, Above
  <1>. QED
    BY <1>10, <1>12, <1>13 DEF cut

(* The rank of a header by its kind. *)
LEMMA RankProperties ==
  ASSUME NEW t \in Seq(Lines), NEW name, NEW s, NEW n \in 1 .. Len(t), t[n].include # NoInclude
  PROVE  /\ TypeOf(t, name, n) \in {"c_system", "cpp_system", "other"} \cup Mine
         /\ TypeOf(t, name, n) = "c_system" => RankIn(t, name, s, n) = 2
         /\ TypeOf(t, name, n) = "cpp_system" => RankIn(t, name, s, n) = 3
         /\ TypeOf(t, name, n) = "other" => RankIn(t, name, s, n) = 4
         /\ TypeOf(t, name, n) \in Mine =>
              RankIn(t, name, s, n) = IF \E m \in Above(t, name, s, n) : TypeOf(t, name, m) \notin Mine THEN 4 ELSE 1
         /\ RankIn(t, name, s, n) \in 1 .. 4
         /\ TypeOf(t, name, n) \notin Mine => RankIn(t, name, s, n) > 1
  <1>. DEFINE type == TypeOf(t, name, n)
              later == \E m \in Above(t, name, s, n) : TypeOf(t, name, m) \notin Mine
  <1>1. t[n].include \in Headers
    <2>1. t[n] \in Lines
      BY ElementOfSeq, LenProperties
    <2>. QED
      BY <2>1 DEF Lines, Headers
  <1>2. type \in {"c_system", "cpp_system", "other"} \cup Mine
    BY <1>1, ClassifyTyped DEF TypeOf
  <1>3. RankIn(t, name, s, n) = CASE type = "c_system" -> 2
                                  [] type = "cpp_system" -> 3
                                  [] type = "other" -> 4
                                  [] type \in Mine -> IF later THEN 4 ELSE 1
    BY DEF RankIn
  <1>. HIDE DEF type, later
  <1>4. /\ type = "c_system" => RankIn(t, name, s, n) = 2
        /\ type = "cpp_system" => RankIn(t, name, s, n) = 3
        /\ type = "other" => RankIn(t, name, s, n) = 4
        /\ type \in Mine => RankIn(t, name, s, n) = IF later THEN 4 ELSE 1
    BY <1>2, <1>3 DEF Mine
  <1>5. RankIn(t, name, s, n) \in 1 .. 4 /\ (type \notin Mine => RankIn(t, name, s, n) > 1)
    BY <1>2, <1>4
  <1>. QED
    BY <1>2, <1>4, <1>5 DEF type, later

(* A header that counts: when it is told, and the section it leads to. *)
LEMMA SectionStep ==
  ASSUME NEW t \in Seq(Lines), NEW name, NEW n \in 1 .. Len(t), NEW s \in SUBSET (1 .. n - 1),
         NEW section \in 0 .. 4, SectionHolds(t, name, s, n, section), ~IsDirective(t, n), Counted(t, name, s, n)
  PROVE  /\ InOrder(section, TypeOf(t, name, n)) <=> ~IsDisordered(t, name, s, n)
         /\ SectionHolds(t, name, s, n + 1, SectionAfter(section, TypeOf(t, name, n)))
  <1>. DEFINE type == TypeOf(t, name, n)
              S == SectionOf(t, name, s, n)
              R(m) == RankIn(t, name, s, m)
              rank == R(n)
              next == SectionAfter(section, type)
  <1>1. Above(t, name, s, n) = S /\ SectionOf(t, name, s, n + 1) = S \cup {n}
    BY SectionNext
  <1>2. n \in Nat \ {0} /\ Len(t) \in Nat
    BY LenProperties
  <1>3. ASSUME NEW m \in S PROVE m \in 1 .. Len(t) /\ m \in 1 .. n - 1 /\ t[m].include # NoInclude
    BY <1>2 DEF SectionOf, Counted
  <1>4. \A m \in S : R(m) \in 1 .. 4 /\ R(m) <= section
    BY <1>3, RankProperties DEF SectionHolds
  <1>5. /\ type \in {"c_system", "cpp_system", "other"} \cup Mine /\ rank \in 1 .. 4
        /\ type = "c_system" => rank = 2
        /\ type = "cpp_system" => rank = 3
        /\ type = "other" => rank = 4
        /\ type \in Mine => rank = IF \E m \in S : TypeOf(t, name, m) \notin Mine THEN 4 ELSE 1
    BY <1>1, RankProperties DEF Counted
  <1>6. ASSUME NEW m \in S, TypeOf(t, name, m) \notin Mine PROVE section > 1
    <2>1. R(m) > 1
      BY <1>3, <1>6, RankProperties
    <2>2. R(m) \in 1 .. 4 /\ R(m) <= section
      BY <1>4
    <2>. HIDE DEF R
    <2>. QED
      BY <2>1, <2>2
  <1>7. ASSUME section > 1 PROVE \E m \in S : TypeOf(t, name, m) \notin Mine
    <2>1. PICK m \in S : R(m) = section
      BY <1>7 DEF SectionHolds
    <2>2. CASE TypeOf(t, name, m) \notin Mine
      BY <2>2
    <2>3. CASE TypeOf(t, name, m) \in Mine
      <3>1. R(m) = IF \E k \in Above(t, name, s, m) : TypeOf(t, name, k) \notin Mine THEN 4 ELSE 1
        BY <1>3, <2>3, RankProperties
      <3>2. PICK k \in Above(t, name, s, m) : TypeOf(t, name, k) \notin Mine
        BY <1>7, <2>1, <3>1
      <3>3. m \in 1 .. n - 1 /\ Cuts(t, s) \cap m .. n - 1 = {}
        BY DEF SectionOf
      <3>4. k \in 1 .. m - 1 /\ Counted(t, name, s, k) /\ Cuts(t, s) \cap k .. m = {}
        BY DEF Above
      <3>5. k \in 1 .. n - 1 /\ k .. n - 1 = (k .. m) \cup (m .. n - 1)
        BY <1>2, <3>3, <3>4
      <3>6. Cuts(t, s) \cap k .. n - 1 = {}
        BY <3>3, <3>4, <3>5
      <3>7. k \in S
        BY <3>4, <3>5, <3>6 DEF SectionOf
      <3>. QED
        BY <3>2, <3>7
    <2>. QED
      BY <2>2, <2>3
  <1>8. type \in Mine => rank = IF section <= 1 THEN 1 ELSE 4
    <2>1. (\E m \in S : TypeOf(t, name, m) \notin Mine) <=> section > 1
      BY <1>6, <1>7
    <2>. HIDE DEF S, type, R
    <2>. QED
      BY <1>5, <2>1
  <1>9. next = IF rank > section THEN rank ELSE section
    <2>1. next = CASE type = "c_system"   -> IF section <= 2 THEN 2 ELSE section
                   [] type = "cpp_system" -> IF section <= 3 THEN 3 ELSE section
                   [] type \in Mine       -> IF section <= 1 THEN 1 ELSE 4
                   [] type = "other"      -> 4
      BY DEF SectionAfter
    <2>. HIDE DEF next, type, R, rank
    <2>2. CASE type = "c_system"
      <3>1. next = IF section <= 2 THEN 2 ELSE section
        BY <2>1, <2>2 DEF Mine
      <3>. QED
        BY <1>5, <2>2, <3>1
    <2>3. CASE type = "cpp_system"
      <3>1. next = IF section <= 3 THEN 3 ELSE section
        BY <2>1, <2>3 DEF Mine
      <3>. QED
        BY <1>5, <2>3, <3>1
    <2>4. CASE type = "other"
      <3>1. next = 4
        BY <2>1, <2>4 DEF Mine
      <3>. QED
        BY <1>5, <2>4, <3>1
    <2>5. CASE type \in Mine
      <3>1. next = IF section <= 1 THEN 1 ELSE 4
        BY <2>1, <2>5 DEF Mine
      <3>2. rank = IF section <= 1 THEN 1 ELSE 4
        BY <1>8, <2>5
      <3>. QED
        BY <3>1, <3>2
    <2>. QED
      BY <1>5, <2>2, <2>3, <2>4, <2>5
  <1>10. (\E m \in S : R(m) > rank) <=> section > rank
    <2>1. ASSUME NEW m \in S, R(m) > rank PROVE section > rank
      <3>1. R(m) \in 1 .. 4 /\ R(m) <= section
        BY <1>4
      <3>. HIDE DEF R, rank
      <3>. QED
        BY <1>5, <2>1, <3>1
    <2>2. ASSUME section > rank PROVE \E m \in S : R(m) > rank
      <3>1. section # 0
        BY <1>5, <2>2
      <3>. QED
        BY <2>2, <3>1 DEF SectionHolds
    <2>. QED
      BY <2>1, <2>2
  <1>11. InOrder(section, type) <=> ~IsDisordered(t, name, s, n)
    <2>1. IsDisordered(t, name, s, n) <=> rank \in {2, 3} /\ section > rank
      BY <1>1, <1>10 DEF IsDisordered
    <2>2. InOrder(section, type) <=> section <= (IF type = "c_system" THEN 2 ELSE IF type = "cpp_system" THEN 3 ELSE 4)
      BY DEF InOrder
    <2>. HIDE DEF rank, type, R
    <2>3. CASE type = "c_system"
      BY <1>5, <2>1, <2>2, <2>3
    <2>4. CASE type = "cpp_system"
      BY <1>5, <2>1, <2>2, <2>4
    <2>5. CASE type \in Mine \cup {"other"}
      <3>1. rank \in {1, 4}
        BY <1>5, <1>8, <2>5
      <3>2. InOrder(section, type)
        BY <2>2, <2>5 DEF Mine
      <3>. QED
        BY <2>1, <3>1, <3>2
    <2>. QED
      BY <1>5, <2>3, <2>4, <2>5
  <1>12. SectionHolds(t, name, s, n + 1, next)
    <2>. HIDE DEF next
    <2>1. ASSUME NEW m \in S \cup {n} PROVE R(m) <= next
      <3>1. R(m) \in 1 .. 4 /\ (m \in S => R(m) <= section) /\ (m = n => R(m) = rank)
        BY <1>4, <1>5
      <3>. HIDE DEF S, R, rank
      <3>. QED
        BY <1>5, <1>9, <3>1
    <2>2. \E m \in S \cup {n} : R(m) = next
      <3>1. CASE rank > section
        BY <1>9, <3>1
      <3>2. CASE ~(rank > section)
        <4>1. section # 0 /\ next = section
          BY <1>5, <1>9, <3>2
        <4>. QED
          BY <4>1 DEF SectionHolds
      <3>. QED
        BY <3>1, <3>2
    <2>. QED
      BY <1>1, <2>1, <2>2 DEF SectionHolds
  <1>. QED
    BY <1>11, <1>12

(* The headers told by what is before them stay those. *)
LEMMA DisorderedBefore ==
  ASSUME NEW t, NEW name, NEW s, NEW r, NEW n \in Nat, Agree(s, r, n)
  PROVE  \A m \in 1 .. n : /\ RankIn(t, name, s, m) = RankIn(t, name, r, m)
                           /\ IsDisordered(t, name, s, m) <=> IsDisordered(t, name, r, m)
  <1>. SUFFICES ASSUME NEW m \in 1 .. n
                PROVE  /\ RankIn(t, name, s, m) = RankIn(t, name, r, m)
                       /\ IsDisordered(t, name, s, m) <=> IsDisordered(t, name, r, m)
    OBVIOUS
  <1>1. /\ Above(t, name, s, m) = Above(t, name, r, m)
        /\ \A k \in 1 .. n : RankIn(t, name, s, k) = RankIn(t, name, r, k)
    BY OrderBefore
  <1>2. Above(t, name, r, m) \subseteq 1 .. n
    BY DEF Above
  <1>3. Counted(t, name, s, m) <=> Counted(t, name, r, m)
    BY DEF Counted, Agree
  <1>. QED
    BY <1>1, <1>2, <1>3 DEF IsDisordered

(* While no header comes twice, the section is that of the headers before,   *)
(* and the headers told are those that are out of order.                     *)
Distinct(upto) == \A m, n \in Included(upto) : Path(m) = Path(n) => m = n
Disordered(t, name, s, n) == {m \in 1 .. n : IsDisordered(t, name, s, m)}

OrderInv ==
  Distinct(line - 1) =>
    /\ SectionHolds(lines, text.name, skipped, line, includes.section)
    /\ LinesOf(errors, "build/include_order") = Disordered(lines, text.name, skipped, line - 1)

(* A header that is in no list yet is no duplicate. *)
LEMMA NewHeader ==
  ASSUME TypeInv, line - 1 \in Nat, line \in Included(line), Distinct(line)
  PROVE  ~Duplicate(includes, lines[line].include.path)
  <1>. DEFINE E == Entries(lines, Included(line - 1))
              all == AllIncludes(includes)
              path == lines[line].include.path
              found == {i \in DOMAIN all : all[i].path = path}
  <1>1. all \in Seq(E)
    <2>1. includes \in IncludeStates(E)
      BY DEF TypeInv
    <2>. HIDE DEF E
    <2>2. includes.include_list \in Seq(Seq(E))
      BY <2>1 DEF IncludeStates
    <2>. QED
      BY <2>2, FlattenTyped DEF AllIncludes
  <1>2. \A e \in E : e.path # path
    <2>1. ASSUME NEW m \in Included(line - 1) PROVE Path(m) # path
      <3>1. m \in Included(line) /\ m # line
        BY DEF Included
      <3>. QED
        BY <3>1 DEF Distinct, Path
    <2>. QED
      BY <2>1 DEF Entries, Path
  <1>3. found = {}
    <2>1. \A i \in DOMAIN all : all[i] \in E
      BY <1>1, LenProperties, ElementOfSeq
    <2>. HIDE DEF all, E
    <2>. QED
      BY <1>2, <2>1
  <1>4. FindHeader(includes, path) = IF found = {} THEN -1 ELSE all[Min(found)].line
    BY DEF FindHeader
  <1>5. FindHeader(includes, path) = -1
    BY <1>3, <1>4
  <1>. QED
    BY <1>5 DEF Duplicate

(* The order of the includes, as the reference of the property reads it. *)
LEMMA OrderReference ==
  ASSUME TypeInv, OrderInv
  PROVE  OrderIsJudged
  <1>. DEFINE name == text.name
  <1>1. \A n : Foreign(n) <=> IsForeign(name, lines[n].include)
    BY DEF Foreign, IsForeign, Path
  <1>2. \A m, n : SameSection(m, n) <=> Cuts(lines, skipped) \cap m .. n = {}
    BY Zenon DEF SameSection, Cuts, Directives, IsDirective
  <1>3. \A n : Above(lines, name, skipped, n) = {m \in Included(n - 1) : SameSection(m, n) /\ ~Foreign(m)}
    BY <1>1, <1>2 DEF Above, Counted, Included
  <1>4. \A n : _ClassifyInclude(name, lines[n].include) = TypeOf(lines, name, n)
    BY DEF TypeOf
  <1>5. \A n : Rank(n) = RankIn(lines, name, skipped, n)
    <2>. SUFFICES ASSUME NEW n PROVE Rank(n) = RankIn(lines, name, skipped, n)
      OBVIOUS
    <2>1. (\E m \in Included(n - 1) : /\ SameSection(m, n) /\ ~Foreign(m)
                                      /\ _ClassifyInclude(name, lines[m].include) \notin Mine)
            <=> (\E m \in Above(lines, name, skipped, n) : TypeOf(lines, name, m) \notin Mine)
      BY <1>3, <1>4
    <2>2. Rank(n) = CASE TypeOf(lines, name, n) = "c_system" -> 2
                      [] TypeOf(lines, name, n) = "cpp_system" -> 3
                      [] TypeOf(lines, name, n) = "other" -> 4
                      [] TypeOf(lines, name, n) \in Mine ->
                           IF \E m \in Included(n - 1) : /\ SameSection(m, n) /\ ~Foreign(m)
                                                         /\ _ClassifyInclude(name, lines[m].include) \notin Mine
                           THEN 4 ELSE 1
      BY Zenon DEF Rank, Mine, TypeOf
    <2>. QED
      BY <2>1, <2>2 DEF RankIn
  <1>6. \A n : n \in Included(line - 1) <=> n \in 1 .. line - 1 /\ n \notin skipped /\ lines[n].include # NoInclude
    BY DEF Included
  <1>7. \A n \in 1 .. line - 1 : IsDisordered(lines, name, skipped, n) <=>
          /\ n \in Included(line - 1) /\ ~Foreign(n) /\ Rank(n) \in {2, 3}
          /\ \E m \in Included(n - 1) : SameSection(m, n) /\ ~Foreign(m) /\ Rank(m) > Rank(n)
    BY <1>1, <1>3, <1>5, <1>6 DEF IsDisordered, Counted
  <1>8. Disordered(lines, name, skipped, line - 1) =
          {n \in Included(line - 1) :
             /\ ~Foreign(n) /\ Rank(n) \in {2, 3}
             /\ \E m \in Included(n - 1) : SameSection(m, n) /\ ~Foreign(m) /\ Rank(m) > Rank(n)}
    BY <1>6, <1>7 DEF Disordered
  <1>9. Reported("build/include_order") = LinesOf(errors, "build/include_order")
    BY DEF Reported, LinesOf
  <1>10. (\A m, n \in Included(line - 1) : Path(m) = Path(n) => m = n) => Distinct(line - 1)
    BY DEF Distinct
  <1>. QED
    BY <1>8, <1>9, <1>10 DEF OrderIsJudged, OrderInv

(* At the start. *)
LEMMA OrderInit == Init => OrderInv
  <1>. SUFFICES ASSUME Init PROVE OrderInv
    OBVIOUS
  <1>1. line = 1 /\ errors = << >> /\ includes.section = 0
    BY DEF Init, EmptyIncludes
  <1>2. 1 .. line - 1 = {}
    BY <1>1
  <1>3. SectionOf(lines, text.name, skipped, line) = {} /\ Disordered(lines, text.name, skipped, line - 1) = {}
    BY <1>2 DEF SectionOf, Disordered
  <1>4. LinesOf(errors, "build/include_order") = {}
    BY <1>1 DEF LinesOf
  <1>. QED
    BY <1>1, <1>3, <1>4 DEF OrderInv, SectionHolds

(* The headers told up to a line, by those before it. *)
LEMMA DisorderedNext ==
  ASSUME NEW t, NEW name, NEW s, NEW n \in Nat \ {0}
  PROVE  Disordered(t, name, s, n) =
           Disordered(t, name, s, n - 1) \cup (IF IsDisordered(t, name, s, n) THEN {n} ELSE {})
  <1>1. 1 .. n = (1 .. n - 1) \cup {n}
    OBVIOUS
  <1>. QED
    BY <1>1 DEF Disordered

(* Over a line. *)
LEMMA OrderLine ==
  ASSUME TypeInv, OrderInv, ProcessLine
  PROVE  OrderInv'
  <1>. DEFINE name == text.name
              s == skipped
              told == LinesOf(errors, "build/include_order")
              section == includes.section
  <1>1. /\ text' = text /\ line' = line + 1 /\ line \in 1 .. Len(lines) /\ Len(lines) \in Nat /\ line - 1 \in Nat
        /\ lines \in Seq(Lines) /\ (InAsm \/ Checked) /\ line \notin skipped
    BY ProcessLineIs
  <1>2. /\ InAsm => Included(line - 1)' = Included(line - 1)
        /\ Checked => Included(line - 1)' = Included(line)
        /\ Included(line) = Included(line - 1) \cup (IF lines[line].include # NoInclude THEN {line} ELSE {})
        /\ lines' = lines
    BY IncludedAfter
  <1>3. skipped \in SUBSET (1 .. line - 1) /\ section \in 0 .. 4 /\ GoodText(lines) /\ function \in FunctionStates
    BY DEF TypeInv, IncludeStates
  <1>4. line \in Nat \ {0} /\ line' - 1 = line
    BY <1>1
  <1>5. "build/include_order" \notin NestingCategories
    BY DEF NestingCategories
  <1>6. Distinct(line - 1)' <=> \A m, n \in Included(line - 1)' : Path(m) = Path(n) => m = n
    BY <1>2 DEF Distinct, Path
  <1>7. SUFFICES ASSUME Distinct(line - 1)'
                 PROVE  /\ SectionHolds(lines, name, skipped', line + 1, includes'.section)
                        /\ LinesOf(errors, "build/include_order")' = Disordered(lines, name, skipped', line)
    BY <1>1, <1>2, <1>4 DEF OrderInv
  <1>8. Distinct(line - 1)
    BY <1>1, <1>2, <1>6, <1>7 DEF Distinct
  <1>9. SectionHolds(lines, name, s, line, section) /\ told = Disordered(lines, name, s, line - 1)
    BY <1>8 DEF OrderInv
  <1>10. SectionOf(lines, name, s, line) \subseteq 1 .. line - 1
    BY DEF SectionOf
  <1>11. CASE InAsm
    <2>1. skipped' = s \cup {line} /\ includes' = includes /\ LinesOf(errors, "build/include_order")' = told
      BY <1>5, <1>11 DEF InAsm
    <2>2. Agree(s, skipped', line - 1)
      BY <1>1, <2>1 DEF Agree
    <2>3. \A m \in 1 .. line - 1 : /\ RankIn(lines, name, s, m) = RankIn(lines, name, skipped', m)
                                   /\ IsDisordered(lines, name, s, m) <=> IsDisordered(lines, name, skipped', m)
      BY <1>1, <2>2, DisorderedBefore
    <2>4. SectionOf(lines, name, skipped', line + 1) = SectionOf(lines, name, s, line)
      BY <1>1, <1>3, <2>1, SectionNext
    <2>5. SectionHolds(lines, name, skipped', line + 1, section)
      BY <1>9, <1>10, <2>3, <2>4 DEF SectionHolds
    <2>6. ~IsDisordered(lines, name, skipped', line)
      BY <2>1 DEF IsDisordered, Counted
    <2>7. Disordered(lines, name, skipped', line) = Disordered(lines, name, skipped', line - 1)
      BY <1>4, <2>6, DisorderedNext
    <2>8. Disordered(lines, name, skipped', line - 1) = Disordered(lines, name, s, line - 1)
      BY <2>3 DEF Disordered
    <2>. QED
      BY <1>9, <2>1, <2>5, <2>7, <2>8
  <1>12. CASE Checked
    <2>. DEFINE it == CheckLanguage(line)
                include == lines[line].include
                new == LinesOf(it.errors, "build/include_order")
    <2>1. skipped' = s /\ includes' = it.state /\ LinesOf(errors, "build/include_order")' = told \cup new
      <3>1. LinesOf(CheckForFunctionLengths(line).errors, "build/include_order") = {}
        <4>1. CheckForFunctionLengths(line).errors \in Seq(LengthErrors)
          BY <1>1, <1>3, LengthsTyped
        <4>. QED
          BY <4>1, KindsOfErrors
      <3>. QED
        BY <1>5, <1>12, <3>1 DEF Checked
    <2>2. /\ include = NoInclude => /\ it.errors = << >>
                                    /\ it.state = IF lines[line].pp = "" THEN includes
                                                  ELSE ResetSection(includes, lines[line].pp)
          /\ include # NoInclude => IncludeLineIs(it, Entries(lines, Included(line)), includes, include, name, line)
      <3>1. line <= Len(lines)
        BY <1>1
      <3>. QED
        BY <3>1, LanguageTyped
    <2>3. /\ IsDirective(lines, line) => SectionOf(lines, name, s, line + 1) = {}
          /\ ~IsDirective(lines, line) =>
               SectionOf(lines, name, s, line + 1) =
                 SectionOf(lines, name, s, line) \cup (IF Counted(lines, name, s, line) THEN {line} ELSE {})
      BY <1>1, <1>3, SectionNext
    <2>4. Disordered(lines, name, s, line) = told \cup (IF IsDisordered(lines, name, s, line) THEN {line} ELSE {})
      BY <1>4, <1>9, DisorderedNext
    <2>. HIDE DEF it, new, told, s, name, section
    <2>5. CASE ~Counted(lines, name, s, line) /\ ~IsDirective(lines, line) /\ it.state = includes /\ new = {}
      <3>1. SectionHolds(lines, name, s, line + 1, section)
        BY <1>9, <2>3, <2>5 DEF SectionHolds
      <3>2. ~IsDisordered(lines, name, s, line)
        BY <2>5 DEF IsDisordered
      <3>. QED
        BY <2>1, <2>4, <2>5, <3>1, <3>2 DEF section
    <2>6. CASE include = NoInclude
      <3>4. it.errors = << >>
        BY <2>2, <2>6
      <3>1. ~Counted(lines, name, s, line) /\ new = {} /\ ~IsDisordered(lines, name, s, line)
        BY <2>6, <3>4 DEF Counted, new, LinesOf, IsDisordered
      <3>2. CASE IsDirective(lines, line)
        <4>1. it.state.section = 0
          <5>1. it.state = ResetSection(includes, lines[line].pp)
            BY <2>2, <2>6, <3>2 DEF IsDirective
          <5>. QED
            BY <5>1 DEF ResetSection
        <4>2. SectionHolds(lines, name, s, line + 1, 0)
          BY <2>3, <3>2 DEF SectionHolds
        <4>. QED
          BY <2>1, <2>4, <3>1, <4>1, <4>2
      <3>3. CASE ~IsDirective(lines, line)
        <4>1. it.state = includes
          BY <2>2, <2>6, <3>3 DEF IsDirective
        <4>. QED
          BY <2>5, <3>1, <3>3, <4>1
      <3>. QED
        BY <3>2, <3>3
    <2>7. CASE include # NoInclude
      <3>1. ~IsDirective(lines, line)
        BY <1>1, <1>3, <2>7 DEF GoodText, IsDirective
      <3>2. line \in Included(line)
        BY <1>1, <1>2, <2>7
      <3>3. Distinct(line)
        BY <1>2, <1>6, <1>7, <1>12 DEF Distinct
      <3>4. ~Duplicate(includes, include.path)
        BY <1>1, <3>2, <3>3, NewHeader
      <3>5. Rejected(name, includes, include) <=> ~Counted(lines, name, s, line)
        BY <1>1, <2>7, <3>4 DEF Rejected, Counted, s
      <3>6. CASE Rejected(name, includes, include)
        <4>1. it.state = includes /\ new = {}
          BY <2>2, <2>7, <3>6 DEF IncludeLineIs, new
        <4>. QED
          BY <2>5, <3>1, <3>5, <3>6, <4>1
      <3>7. CASE ~Rejected(name, includes, include)
        <4>1. /\ it.state.section = SectionAfter(section, TypeOf(lines, name, line))
              /\ new = IF InOrder(section, TypeOf(lines, name, line)) THEN {} ELSE {line}
          BY <2>2, <2>7, <3>7 DEF IncludeLineIs, new, section, TypeOf
        <4>2. s \in SUBSET (1 .. line - 1) /\ section \in 0 .. 4
          BY <1>3 DEF s, section
        <4>3. /\ InOrder(section, TypeOf(lines, name, line)) <=> ~IsDisordered(lines, name, s, line)
              /\ SectionHolds(lines, name, s, line + 1, SectionAfter(section, TypeOf(lines, name, line)))
          BY <1>1, <1>9, <3>1, <3>5, <3>7, <4>2, SectionStep
        <4>. QED
          BY <2>1, <2>4, <4>1, <4>3
      <3>. QED
        BY <3>6, <3>7
    <2>. QED
      BY <2>6, <2>7
  <1>. QED
    BY <1>1, <1>11, <1>12

(* After the last line. *)
LEMMA OrderFinish ==
  ASSUME TypeInv, OrderInv, FinishFile
  PROVE  OrderInv'
  <1>1. /\ UNCHANGED <<text, line, includes, skipped>>
        /\ LinesOf(errors, "build/include_order")' = LinesOf(errors, "build/include_order")
    BY FinishFileIs
  <1>2. lines' = lines
    BY <1>1 DEF lines
  <1>3. Distinct(line - 1)' <=> Distinct(line - 1)
    BY <1>1, <1>2 DEF Distinct, Included, Path
  <1>. QED
    BY <1>1, <1>2, <1>3 DEF OrderInv

(* A header of the system is told to be out of order when, and only when, one *)
(* of a later kind stands before it in its section, whatever the lines.       *)
THEOREM IncludesInOrder == Spec => []OrderIsJudged
  <1>1. Init => TypeInv /\ OrderInv
    BY TypeInit, OrderInit
  <1>2. TypeInv /\ OrderInv /\ [Next]_vars => (TypeInv /\ OrderInv)'
    <2>. SUFFICES ASSUME TypeInv, OrderInv, [Next]_vars PROVE (TypeInv /\ OrderInv)'
      OBVIOUS
    <2>1. CASE ProcessLine
      BY <2>1, TypeLine, OrderLine
    <2>2. CASE FinishFile
      BY <2>2, TypeFinish, OrderFinish
    <2>3. CASE UNCHANGED vars
      <3>1. UNCHANGED <<text, line, includes, skipped, errors>>
        BY <2>3 DEF vars
      <3>2. lines' = lines
        BY <3>1 DEF lines
      <3>3. Distinct(line - 1)' <=> Distinct(line - 1)
        BY <3>1, <3>2 DEF Distinct, Included, Path
      <3>4. OrderInv'
        BY <3>1, <3>2, <3>3 DEF OrderInv, LinesOf
      <3>. QED
        BY <2>3, <3>4, TypeUnchanged
    <2>. QED
      BY <2>1, <2>2, <2>3 DEF Next
  <1>3. TypeInv /\ OrderInv => OrderIsJudged
    BY OrderReference
  <1>. QED
    BY <1>1, <1>2, <1>3, PTL DEF Spec

-----------------------------------------------------------------------------
(* The lists of includes.  What is told of a line in "build/include".       *)
IncludeTells(it, state, include, name, n) ==
  /\ LinesOf(it.errors, "build/include") \subseteq {n}
  /\ Duplicate(state, include.path) => n \in LinesOf(it.errors, "build/include")
  /\ n \in LinesOf(it.errors, "build/include") =>
       Duplicate(state, include.path) \/ IsForeign(name, include) \/ LastSlash(include.path) = 0

(* CheckIncludeLine tells it. *)
LEMMA IncludeLineTells ==
  ASSUME NEW entries, NEW state \in IncludeStates(entries), NEW include \in Headers, NEW name,
         NEW n \in Nat, NEW after \in BOOLEAN, [path |-> include.path, line |-> n] \in entries
  PROVE  IncludeTells(CheckIncludeLine(name, state, include, n, after), state, include, name, n)
  <1>. DEFINE it == CheckIncludeLine(name, state, include, n, after)
              path == include.path
              entry == [path |-> path, line |-> n]
              unplaced == /\ ~include.system /\ LastSlash(path) = 0 /\ Extension(path) = ".h"
                          /\ ~include.third_party
              duplicate == FindHeader(state, path) >= 0
              foreign == Extension(path) = ".cc" /\ DirName(name) # DirName(path)
              told == duplicate \/ foreign
              list == Front(state.include_list) \o <<Append(Last(state.include_list), entry)>>
              order == CheckNextIncludeOrder([state EXCEPT !.include_list = list], _ClassifyInclude(name, include))
              disordered == ~order.ok
              unsorted == ~IsInAlphabeticalOrder(order.state, include.key, after)
              first == Raised(unplaced, n, "build/include")
              again == Raised(told, n, "build/include")
              moved == Raised(disordered, n, "build/include_order")
              late == Raised(unsorted, n, "build/include_alpha")
  <1>1. it = IF duplicate \/ foreign \/ include.third_party
             THEN [state |-> state, errors |-> first \o again]
             ELSE [state |-> SetLastHeader(order.state, include.key), errors |-> (first \o moved) \o late]
    BY Zenon DEF CheckIncludeLine
  <1>2. /\ duplicate <=> Duplicate(state, path)
        /\ IsForeign(name, include) <=> foreign \/ include.third_party
    BY DEF Duplicate, IsForeign
  <1>3. unplaced \in BOOLEAN /\ told \in BOOLEAN /\ disordered \in BOOLEAN /\ unsorted \in BOOLEAN
        /\ duplicate \in BOOLEAN /\ foreign \in BOOLEAN /\ include.third_party \in BOOLEAN
    <2>1. unsorted \in BOOLEAN /\ disordered \in BOOLEAN
      BY Zenon
    <2>2. told \in BOOLEAN /\ duplicate \in BOOLEAN /\ foreign \in BOOLEAN
      OBVIOUS
    <2>3. unplaced \in BOOLEAN
      BY Zenon
    <2>4. include.third_party \in BOOLEAN
      BY DEF Headers
    <2>. HIDE DEF unsorted, disordered, told, duplicate, foreign, unplaced
    <2>. QED
      BY <2>1, <2>2, <2>3, <2>4
  <1>4. unplaced => LastSlash(path) = 0
    OBVIOUS
  <1>5. told <=> duplicate \/ foreign
    OBVIOUS
  <1>. HIDE DEF it, unplaced, duplicate, foreign, told, order, disordered, unsorted
  <1>. DEFINE C == Seq(Plain(IncludeCategories))
  <1>6. /\ first \in C /\ LinesOf(first, "build/include") = IF unplaced THEN {n} ELSE {}
        /\ again \in C /\ LinesOf(again, "build/include") = IF told THEN {n} ELSE {}
        /\ moved \in C /\ LinesOf(moved, "build/include") = {}
        /\ late \in C /\ LinesOf(late, "build/include") = {}
    <2>1. \A category \in IncludeCategories : Seq(Plain({category})) \subseteq C
      BY PlainMonotonic
    <2>2. /\ first \in Seq(Plain({"build/include"})) /\ LinesOf(first, "build/include") = IF unplaced THEN {n} ELSE {}
          /\ again \in Seq(Plain({"build/include"})) /\ LinesOf(again, "build/include") = IF told THEN {n} ELSE {}
          /\ moved \in Seq(Plain({"build/include_order"})) /\ late \in Seq(Plain({"build/include_alpha"}))
      BY <1>3, ToldTyped
    <2>3. /\ \A e \in Plain({"build/include_order"}) : e.category # "build/include"
          /\ \A e \in Plain({"build/include_alpha"}) : e.category # "build/include"
      BY DEF Plain
    <2>. HIDE DEF first, again, moved, late, C
    <2>4. LinesOf(moved, "build/include") = {} /\ LinesOf(late, "build/include") = {}
      BY <2>2, <2>3, OthersTellNothing
    <2>5. first \in C /\ again \in C /\ moved \in C /\ late \in C
      BY <2>1, <2>2 DEF IncludeCategories
    <2>. QED
      BY <2>2, <2>4, <2>5
  <1>. HIDE DEF first, again, moved, late
  <1>7. LinesOf(first \o again, "build/include") = LinesOf(first, "build/include") \cup LinesOf(again, "build/include")
    BY <1>6, LinesOfBoth
  <1>8. LinesOf((first \o moved) \o late, "build/include") = LinesOf(first, "build/include")
    <2>1. /\ first \o moved \in C
          /\ LinesOf(first \o moved, "build/include") = LinesOf(first, "build/include") \cup LinesOf(moved, "build/include")
      BY <1>6, LinesOfBoth
    <2>. DEFINE both == first \o moved
    <2>3. both \in C
      BY <2>1
    <2>. HIDE DEF both
    <2>2. LinesOf(both \o late, "build/include") = LinesOf(both, "build/include") \cup LinesOf(late, "build/include")
      BY <1>6, <2>3, LinesOfBoth
    <2>. QED
      BY <1>6, <2>1, <2>2 DEF both
  <1>9. it.errors = IF duplicate \/ foreign \/ include.third_party THEN first \o again ELSE (first \o moved) \o late
    BY <1>1, <1>3
  <1>10. LinesOf(it.errors, "build/include") =
           IF duplicate \/ foreign \/ include.third_party
           THEN (IF unplaced THEN {n} ELSE {}) \cup (IF told THEN {n} ELSE {})
           ELSE IF unplaced THEN {n} ELSE {}
    BY <1>3, <1>6, <1>7, <1>8, <1>9
  <1>. HIDE DEF path
  <1>11. /\ LinesOf(it.errors, "build/include") \subseteq {n}
         /\ duplicate => n \in LinesOf(it.errors, "build/include")
         /\ n \in LinesOf(it.errors, "build/include") =>
              duplicate \/ (foreign \/ include.third_party) \/ LastSlash(path) = 0
    BY <1>3, <1>4, <1>5, <1>10
  <1>12. /\ LinesOf(it.errors, "build/include") \subseteq {n}
         /\ Duplicate(state, path) => n \in LinesOf(it.errors, "build/include")
         /\ n \in LinesOf(it.errors, "build/include") =>
              Duplicate(state, path) \/ IsForeign(name, include) \/ LastSlash(path) = 0
    BY <1>2, <1>11
  <1>. QED
    BY Zenon, <1>12 DEF IncludeTells, it, path

Listed(state, path) ==
  \E k \in DOMAIN state.include_list : \E i \in DOMAIN state.include_list[k] : state.include_list[k][i].path = path

(* A header is a duplicate when an entry in some list has its path. *)
LEMMA DuplicateIs ==
  ASSUME NEW t, NEW s \in SUBSET Nat, NEW state \in IncludeStates(Entries(t, s)), NEW path
  PROVE  Duplicate(state, path) <=> Listed(state, path)
  <1>. DEFINE E == Entries(t, s)
              all == AllIncludes(state)
              found == {i \in DOMAIN all : all[i].path = path}
  <1>0. \A e \in E : e.line \in Nat
    <2>1. ASSUME NEW m \in s PROVE [path |-> t[m].include.path, line |-> m].line \in Nat
      OBVIOUS
    <2>. QED
      BY <2>1 DEF Entries
  <1>. HIDE DEF E
  <1>1. state.include_list \in Seq(Seq(E))
    BY DEF IncludeStates, E
  <1>2. /\ all \in Seq(E)
        /\ \A x \in E : (\E i \in DOMAIN all : all[i] = x)
             <=> (\E k \in DOMAIN state.include_list : \E i \in DOMAIN state.include_list[k] : state.include_list[k][i] = x)
    BY <1>1, FlattenElements DEF AllIncludes, Together
  <1>3. \A k \in DOMAIN state.include_list : \A i \in DOMAIN state.include_list[k] : state.include_list[k][i] \in E
    <2>1. \A k \in DOMAIN state.include_list : state.include_list[k] \in Seq(E)
      BY <1>1, LenProperties, ElementOfSeq
    <2>. QED
      BY <2>1, LenProperties, ElementOfSeq
  <1>4. (\A i \in DOMAIN all : all[i] \in E) /\ DOMAIN all = 1 .. Len(all) /\ Len(all) \in Nat
    BY <1>2, LenProperties, ElementOfSeq
  <1>5. FindHeader(state, path) = IF found = {} THEN -1 ELSE all[Min(found)].line
    BY Zenon DEF FindHeader
  <1>. HIDE DEF all
  <1>6. ASSUME found # {} PROVE Duplicate(state, path)
    <2>1. Min(found) \in found
      BY <1>4, <1>6, LeastExists
    <2>2. all[Min(found)].line \in Nat
      BY <1>0, <1>4, <2>1
    <2>. HIDE DEF found
    <2>. QED
      BY <1>5, <1>6, <2>2 DEF Duplicate
  <1>7. ASSUME found = {} PROVE ~Duplicate(state, path)
    <2>1. FindHeader(state, path) = -1
      BY <1>5, <1>7
    <2>. QED
      BY <2>1 DEF Duplicate
  <1>8. found # {} <=> Listed(state, path)
    <2>1. found # {} <=> \E x \in E : x.path = path /\ \E i \in DOMAIN all : all[i] = x
      BY <1>4
    <2>2. Listed(state, path) <=>
            \E x \in E : x.path = path
              /\ \E k \in DOMAIN state.include_list : \E i \in DOMAIN state.include_list[k] : state.include_list[k][i] = x
      BY <1>3 DEF Listed
    <2>. QED
      BY <1>2, <2>1, <2>2
  <1>. QED
    BY <1>6, <1>7, <1>8

(* What the line in hand tells. *)
LEMMA LanguageTells ==
  ASSUME TypeInv, line <= Len(lines), NEW it, it = CheckLanguage(line),
         NEW include, include = lines[line].include, include # NoInclude
  PROVE  IncludeTells(it, includes, include, text.name, line)
  <1>. DEFINE E == Entries(lines, Included(line))
              l == lines[line]
              after == line > 1 /\ lines[line - 1].include # NoInclude
  <1>1. line \in Nat \ {0} /\ lines \in Seq(Lines) /\ line \in 1 .. Len(lines) /\ line \notin skipped
    <2>1. lines \in Seq(Lines) /\ line \in 1 .. Len(lines) + 1 /\ skipped \in SUBSET (1 .. line - 1)
      BY DEF TypeInv, GoodText
    <2>2. Len(lines) \in Nat
      BY <2>1, LenProperties
    <2>. QED
      BY <2>1, <2>2
  <1>2. l \in Lines
    BY <1>1, ElementOfSeq
  <1>3. include \in Headers
    BY <1>2 DEF Lines, Headers
  <1>4. includes \in IncludeStates(E)
    <2>1. Included(line - 1) \subseteq Included(line)
      BY <1>1 DEF Included
    <2>2. Entries(lines, Included(line - 1)) \subseteq E
      BY <2>1 DEF Entries
    <2>3. includes \in IncludeStates(Entries(lines, Included(line - 1)))
      BY DEF TypeInv
    <2>. QED
      BY <2>2, <2>3, IncludeStatesMonotonic
  <1>5. it = CheckIncludeLine(text.name, includes, include, line, after)
    BY DEF CheckLanguage
  <1>6. after \in BOOLEAN
    OBVIOUS
  <1>7. [path |-> include.path, line |-> line] \in E
    <2>1. line \in Included(line)
      BY <1>1 DEF Included
    <2>. QED
      BY <2>1 DEF Entries
  <1>8. line \in Nat
    BY <1>1
  <1>. HIDE DEF after, E
  <1>. QED
    BY <1>3, <1>4, <1>5, <1>6, <1>7, <1>8, IncludeLineTells

(* The kinds of directives. *)
LEMMA DirectiveKinds ==
  ASSUME NEW n \in DOMAIN lines
  PROVE  /\ n \notin Directives => lines[n].pp \notin {"if", "else", "endif"}
         /\ n \notin Directives <=> ~IsDirective(lines, n)
  <1>1. n \notin Directives => lines[n].pp \notin {"if", "else", "endif"}
    BY Zenon DEF Directives
  <1>2. n \notin Directives <=> ~IsDirective(lines, n)
    BY Zenon DEF Directives, IsDirective
  <1>. QED
    BY <1>1, <1>2

(* What each does to the lists. *)
LEMMA ResetLists ==
  ASSUME NEW n, NEW new, new = IF lines[n].pp = "" THEN includes ELSE ResetSection(includes, lines[n].pp)
  PROVE  /\ lines[n].pp = "if" => new.include_list = Append(includes.include_list, << >>)
         /\ lines[n].pp = "else" => new.include_list = Append(Front(includes.include_list), << >>)
         /\ lines[n].pp \notin {"if", "else"} => new.include_list = includes.include_list
  <1>. DEFINE pp == lines[n].pp
              old == includes.include_list
  <1>1. \A p : p = "if" => ResetSection(includes, p).include_list = Append(old, << >>)
    BY DEF ResetSection
  <1>2. \A p : p = "else" => ResetSection(includes, p).include_list = Append(Front(old), << >>)
    BY DEF ResetSection
  <1>3. \A p : p \notin {"if", "else"} => ResetSection(includes, p).include_list = old
    BY DEF ResetSection
  <1>4. pp = "if" => new = ResetSection(includes, pp)
    BY Zenon
  <1>5. pp = "else" => new = ResetSection(includes, pp)
    BY Zenon
  <1>6. new = includes \/ new = ResetSection(includes, pp)
    BY Zenon
  <1>. HIDE DEF pp, old
  <1>7. /\ pp = "if" => new.include_list = Append(old, << >>)
        /\ pp = "else" => new.include_list = Append(Front(old), << >>)
    BY <1>1, <1>2, <1>4, <1>5, Zenon
  <1>8. pp \notin {"if", "else"} => new.include_list = old
    BY <1>3, <1>6, Zenon DEF old
  <1>. QED
    BY <1>7, <1>8, Zenon DEF pp, old

(* The last list of some, put in place of the one that was last. *)
LEMMA LastReplaced ==
  ASSUME NEW E, NEW l \in Seq(Seq(E)), l # << >>, NEW new \in Seq(E)
  PROVE  /\ Append(Front(l), new) = Front(l) \o <<new>>
         /\ Len(l) \in Nat \ {0} /\ DOMAIN l = 1 .. Len(l) /\ Last(l) = l[Len(l)]
         /\ DOMAIN Append(Front(l), new) = 1 .. Len(l) /\ Len(Append(Front(l), new)) = Len(l)
         /\ (\A k \in 1 .. Len(l) - 1 : Append(Front(l), new)[k] = l[k]) /\ Append(Front(l), new)[Len(l)] = new
  <1>1. /\ Front(l) \in Seq(Seq(E)) /\ Len(Front(l)) = Len(l) - 1 /\ Len(l) \in Nat \ {0}
        /\ (\A i \in 1 .. Len(l) - 1 : Front(l)[i] = l[i]) /\ Last(l) = l[Len(l)]
    BY FrontTyped
  <1>. DEFINE f == Front(l)
              c == Append(f, new)
              d == f \o <<new>>
  <1>. HIDE DEF f
  <1>2. /\ f \in Seq(Seq(E)) /\ Len(f) = Len(l) - 1 /\ \A i \in 1 .. Len(l) - 1 : f[i] = l[i]
    BY <1>1 DEF f
  <1>3. /\ c \in Seq(Seq(E)) /\ Len(c) = Len(f) + 1 /\ (\A i \in 1 .. Len(f) : c[i] = f[i]) /\ c[Len(f) + 1] = new
        /\ DOMAIN c = 1 .. Len(c)
    BY <1>2, AppendProperties, LenProperties
  <1>4. c = d
    BY <1>2
  <1>5. DOMAIN l = 1 .. Len(l)
    BY LenProperties
  <1>. HIDE DEF c, d
  <1>6. Len(c) = Len(l) /\ c[Len(l)] = new /\ \A k \in 1 .. Len(l) - 1 : c[k] = l[k]
    BY <1>1, <1>2, <1>3
  <1>7. Append(Front(l), new) = c /\ Front(l) \o <<new>> = d
    BY DEF c, d, f
  <1>. QED
    BY <1>1, <1>3, <1>4, <1>5, <1>6, <1>7

-----------------------------------------------------------------------------
(* The conditionals around the lines, of a text. *)
Opens == [start : Nat, branch : Nat]
AroundNext(t, outer, n) ==
  CASE t[n].pp = "if" -> Append(outer, [start |-> n, branch |-> n])
    [] t[n].pp = "else" /\ outer # << >> -> Append(Front(outer), [Last(outer) EXCEPT !.branch = n])
    [] t[n].pp = "endif" /\ outer # << >> -> Front(outer)
    [] OTHER -> outer

(* One line after the other, they are lists of conditionals. *)
LEMMA AroundIs ==
  ASSUME Len(lines) \in Nat
  PROVE  /\ Around \in [0 .. Len(lines) -> Seq(Opens)] /\ Around[0] = << >>
         /\ \A n \in 1 .. Len(lines) : Around[n] = AroundNext(lines, Around[n - 1], n)
  <1>. DEFINE last == Len(lines)
              F(f, m) == [i \in 0 .. m |-> IF i = 0 THEN << >> ELSE AroundNext(lines, f[i - 1], i)]
              Table(m) == \E f \in [0 .. m -> Seq(Opens)] : f = F(f, m)
              P == {m \in Nat : Table(m)}
              g == CHOOSE f : f = F(f, last)
              Q == {m \in Nat : m <= last => g[m] \in Seq(Opens)}
  <1>1. ASSUME NEW outer \in Seq(Opens), NEW n \in Nat PROVE AroundNext(lines, outer, n) \in Seq(Opens)
    <2>1. [start |-> n, branch |-> n] \in Opens
      BY DEF Opens
    <2>2. Append(outer, [start |-> n, branch |-> n]) \in Seq(Opens)
      BY <2>1, AppendProperties
    <2>3. ASSUME outer # << >>
          PROVE  /\ Front(outer) \in Seq(Opens)
                 /\ Append(Front(outer), [Last(outer) EXCEPT !.branch = n]) \in Seq(Opens)
      <3>1. Front(outer) \in Seq(Opens) /\ Last(outer) \in Opens
        BY <2>3, FrontTyped
      <3>2. [Last(outer) EXCEPT !.branch = n] \in Opens
        BY <3>1 DEF Opens
      <3>. QED
        BY <3>1, <3>2, AppendProperties
    <2>. QED
      BY <2>2, <2>3 DEF AroundNext
  <1>2. 0 \in P
    <2>. DEFINE f == [i \in 0 .. 0 |-> << >>]
    <2>1. f \in [0 .. 0 -> Seq(Opens)] /\ f = F(f, 0)
      OBVIOUS
    <2>. HIDE DEF F, f
    <2>. QED
      BY <2>1
  <1>3. ASSUME NEW m \in Nat, m \in P PROVE m + 1 \in P
    <2>1. PICK e \in [0 .. m -> Seq(Opens)] : e = F(e, m)
      BY <1>3, Zenon
    <2>. DEFINE new == AroundNext(lines, e[m], m + 1)
                f == [i \in 0 .. m + 1 |-> IF i = m + 1 THEN new ELSE e[i]]
    <2>2. new \in Seq(Opens)
      BY <1>1
    <2>. HIDE DEF new
    <2>3. f \in [0 .. m + 1 -> Seq(Opens)]
      BY <2>2
    <2>4. ASSUME NEW i \in 0 .. m + 1
          PROVE  f[i] = IF i = 0 THEN << >> ELSE AroundNext(lines, f[i - 1], i)
      <3>1. CASE i = m + 1
        <4>1. f[i] = new /\ f[i - 1] = e[m] /\ i # 0
          BY <3>1
        <4>. QED
          BY <3>1, <4>1 DEF new
      <3>2. CASE i # m + 1
        <4>1. i \in 0 .. m /\ f[i] = e[i] /\ (i # 0 => i - 1 \in 0 .. m /\ f[i - 1] = e[i - 1])
          BY <3>2
        <4>. HIDE DEF f
        <4>2. e[i] = IF i = 0 THEN << >> ELSE AroundNext(lines, e[i - 1], i)
          BY <2>1, <4>1
        <4>. QED
          BY <4>1, <4>2
      <3>. QED
        BY <3>1, <3>2
    <2>5. f = F(f, m + 1)
      <3>1. f = [i \in 0 .. m + 1 |-> f[i]]
        BY <2>3
      <3>. HIDE DEF f
      <3>. QED
        BY <2>4, <3>1, Zenon
    <2>. HIDE DEF f, F
    <2>6. Table(m + 1)
      BY <2>3, <2>5, Zenon
    <2>. HIDE DEF Table
    <2>. QED
      BY <2>6
  <1>4. Nat \subseteq P
    <2>. HIDE DEF P
    <2>. QED
      BY <1>2, <1>3, SetInduction
  <1>5. \E f : f = F(f, last)
    <2>. HIDE DEF F
    <2>. QED
      BY <1>4, Zenon
  <1>6. g = F(g, last)
    BY <1>5, Zenon
  <1>7. Around = g
    BY Zenon DEF Around, AroundNext
  <1>. HIDE DEF g
  <1>8. g[0] = << >> /\ \A n \in 1 .. last : g[n] = AroundNext(lines, g[n - 1], n)
    <2>1. g[0] = << >>
      BY <1>6
    <2>2. ASSUME NEW n \in 1 .. last PROVE g[n] = AroundNext(lines, g[n - 1], n)
      <3>1. n \in 0 .. last /\ n # 0
        OBVIOUS
      <3>. HIDE DEF last
      <3>. QED
        BY <1>6, <3>1, Zenon
    <2>. QED
      BY <2>1, <2>2
  <1>9. Nat \subseteq Q
    <2>1. 0 \in Q
      <3>1. g[0] \in Seq(Opens)
        BY <1>8, EmptySeq
      <3>. QED
        BY <3>1
    <2>2. ASSUME NEW m \in Nat, m \in Q PROVE m + 1 \in Q
      <3>1. ASSUME m + 1 <= last PROVE g[m + 1] \in Seq(Opens)
        <4>1. m + 1 \in 1 .. last /\ (m + 1) - 1 = m /\ m <= last
          BY <3>1
        <4>2. g[m] \in Seq(Opens) /\ g[m + 1] = AroundNext(lines, g[m], m + 1)
          BY <1>8, <2>2, <4>1
        <4>. QED
          BY <1>1, <4>2
      <3>. QED
        BY <3>1
    <2>. HIDE DEF Q
    <2>. QED
      BY <2>1, <2>2, SetInduction
  <1>10. g = [i \in 0 .. last |-> g[i]] /\ \A i \in 0 .. last : g[i] \in Seq(Opens)
    <2>1. \A i \in 0 .. last : g[i] \in Seq(Opens)
      BY <1>9
    <2>2. g = [i \in 0 .. last |-> g[i]]
      BY <1>6, Zenon
    <2>. QED
      BY <2>1, <2>2
  <1>11. g \in [0 .. last -> Seq(Opens)]
    BY <1>10
  <1>. QED
    BY <1>7, <1>8, <1>11

-----------------------------------------------------------------------------
(* What of a file is kept through conditionals and assembly.  A directive is *)
(* a word to the blocks: the stack of it is the one that UpdatePreprocessor  *)
(* brings back, but for the end of a list of inline assembly.                *)
Word == <<"word">>
AsmAt(stack) == InAsmBlock(CountParentheses(stack, Word))

(* No namespace begins with it. *)
LEMMA NoNamespace == LeadingNamespaces(Word) = [braces |-> << >>, rest |-> 1]
  <1>. DEFINE F(f) == [i \in 1 .. Len(Word) + 1 |->
                         IF i > Len(Word) \/ Word[i] # "namespace" THEN [braces |-> << >>, rest |-> i]
                         ELSE LET open == {j \in i + 1 .. Len(Word) : Word[j] = "{"}
                                  next == f[IF open = {} THEN i + 1 ELSE Min(open) + 1]
                              IN [next EXCEPT !.braces = <<open # {}>> \o @]]
              h == [i \in 1 .. Len(Word) + 1 |-> [braces |-> << >>, rest |-> i]]
              g == CHOOSE f : f = F(f)
  <1>1. Len(Word) = 1 /\ Word[1] # "namespace"
    BY DEF Word
  <1>2. \A i \in 1 .. Len(Word) + 1 : i > Len(Word) \/ Word[i] # "namespace"
    BY <1>1
  <1>3. \A f : F(f) = h
    BY <1>2, Zenon
  <1>. HIDE DEF F, h
  <1>4. h = F(h)
    BY <1>3
  <1>5. g = F(g)
    BY <1>4, Zenon
  <1>6. g = h
    BY <1>3, <1>5
  <1>7. LeadingNamespaces(Word) = g[1]
    BY Zenon DEF LeadingNamespaces, F
  <1>8. h[1] = [braces |-> << >>, rest |-> 1]
    BY <1>1 DEF h
  <1>. HIDE DEF g
  <1>. QED
    BY <1>6, <1>7, <1>8

(* No block begins or ends with it. *)
LEMMA WordConsumed ==
  ASSUME NEW stack, NEW l, l.toks = Word, NEW n
  PROVE  Consume(stack, l, n, 1).stack = stack
  <1>. DEFINE toks == l.toks
              Start(i) == Max({1} \cup {j + 1 : j \in {k \in 1 .. i - 1 : toks[k] \in Separators}})
              Opened(i) == CASE SubSeq(toks, Start(i), i) = <<"extern", "{">> /\ (Start(i) = 1 => ~l.indent) ->
                                  Block("extern", TRUE, n)
                             [] StartsAsm(SubSeq(toks, Start(i), i)) ->
                                  [Block("block", TRUE, n) EXCEPT !.inline_asm = "block"]
                             [] OTHER -> Block("block", TRUE, n)
              Step(s, i) ==
                CASE toks[i] = "{" /\ ~SeenOpenBrace(s.stack) ->
                       [s EXCEPT !.stack = OnTop(@, [Last(@) EXCEPT !.seen_open_brace = TRUE])]
                  [] toks[i] = "{" /\ SeenOpenBrace(s.stack) -> [s EXCEPT !.stack = Append(@, Opened(i))]
                  [] toks[i] \in {";", ")"} /\ ~SeenOpenBrace(s.stack) -> [s EXCEPT !.stack = Front(@)]
                  [] toks[i] = "}" /\ s.stack # << >> ->
                       [stack |-> Front(s.stack), errors |-> s.errors \o CheckEnd(Last(s.stack), l, n)]
                  [] OTHER -> s
              D == 1 .. Len(toks) + 1 - 1
              seq == [k \in D |-> 1 + k - 1]
              base == [stack |-> stack, errors |-> << >>]
              F(f) == [s \in SUBSET D |-> IF s = {} THEN base ELSE Step(f[s \ {Max(s)}], seq[Max(s)])]
              h == [s \in SUBSET D |-> base]
              g == CHOOSE f : f = F(f)
  <1>1. D = {1} /\ seq[1] = 1 /\ toks[1] = "word"
    BY DEF Word
  <1>2. \A s : Step(s, 1) = s
    <2>1. /\ toks[1] # "{" /\ toks[1] \notin {";", ")"} /\ toks[1] # "}"
      BY <1>1
    <2>. HIDE DEF toks
    <2>. QED
      BY <2>1
  <1>3. Consume(stack, l, n, 1) = g[D]
    <2>1. DOMAIN seq = D
      OBVIOUS
    <2>. QED
      BY <2>1, Zenon DEF Consume, FoldLeft, MapThenFoldSet
  <1>4. \A s \in SUBSET D : s # {} => s = {1} /\ Max(s) = 1 /\ s \ {Max(s)} = {}
    <2>1. Max({1}) = 1
      BY GreatestExists DEF Max
    <2>. HIDE DEF D
    <2>. QED
      BY <1>1, <2>1
  <1>. HIDE DEF Step, seq, base, D
  <1>5. ASSUME NEW f, f = F(f) PROVE f[D] = base
    <2>1. {} \in SUBSET D /\ D \in SUBSET D /\ D # {}
      BY <1>1
    <2>2. f[{}] = base
      BY <1>5, <2>1, Zenon
    <2>3. f[D] = Step(f[D \ {Max(D)}], seq[Max(D)])
      BY <1>5, <2>1, Zenon
    <2>. QED
      BY <1>1, <1>2, <1>4, <2>1, <2>2, <2>3
  <1>6. h = F(h)
    <2>1. ASSUME NEW s \in SUBSET D
          PROVE  base = IF s = {} THEN base ELSE Step(h[s \ {Max(s)}], seq[Max(s)])
      <3>1. s # {} => h[s \ {Max(s)}] = base /\ seq[Max(s)] = 1
        BY <1>1, <1>4
      <3>. HIDE DEF h
      <3>. QED
        BY <1>2, <3>1
    <2>2. \A s \in SUBSET D : h[s] = base
      OBVIOUS
    <2>. DEFINE k == F(h)
    <2>3. \A s \in SUBSET D : k[s] = base
      BY <2>1
    <2>4. h = [s \in SUBSET D |-> base] /\ k = [s \in SUBSET D |-> base]
      <3>. HIDE DEF h
      <3>1. k = [s \in SUBSET D |-> base]
        BY <2>1, Zenon
      <3>. QED
        BY <3>1 DEF h
    <2>. QED
      BY <2>4
  <1>7. g = F(g)
    <2>. HIDE DEF F, h
    <2>. QED
      BY <1>6, Zenon
  <1>. HIDE DEF g, F
  <1>8. g[D] = base
    BY <1>5, <1>7
  <1>. QED
    BY <1>3, <1>8 DEF base

(* Of the conditionals a line changes what UpdatePreprocessor does, and of   *)
(* the blocks a directive does no more.                                      *)
LEMMA DirectiveUpdates ==
  ASSUME NEW it \in Nestings, NEW t \in Seq(Lines), NEW n \in 1 .. Len(t),
         NEW pp, pp = UpdatePreprocessor(it, t[n].pp)
  PROVE  /\ pp \in Nestings
         /\ Update(it, t, n).nest.pp_stack = pp.pp_stack
         /\ t[n].toks = Word => Update(it, t, n).nest.stack = CountParentheses(pp.stack, Word)
  <1>. DEFINE l == t[n]
              counted == CountParentheses(pp.stack, l.toks)
              lead == LeadingNamespaces(l.toks)
              spaces == [k \in DOMAIN lead.braces |-> Block("namespace", lead.braces[k], n)]
              inside == counted \o spaces
              class == /\ lead.rest <= Len(l.toks)
                       /\ l.toks[lead.rest] \in ClassWords
                       /\ inside = << >> \/ Last(inside).open_parentheses = 0
                       /\ lead.rest # 1 \/ ~InTemplateArgumentList(t, n, 2)
              rest == IF class THEN lead.rest + 1 ELSE lead.rest
              info == ClassInfo(t, n, l.toks[lead.rest])
              begun == IF class THEN Append(inside, info) ELSE inside
              after == SubSeq(l.toks, rest, Len(l.toks))
              left == Consume(SetAccess(begun, after), l, n, rest)
  <1>0. pp \in Nestings
    <2>1. t[n] \in Lines
      BY LenProperties, ElementOfSeq
    <2>2. t[n].pp \in {"", "if", "else", "endif"}
      BY <2>1 DEF Lines
    <2>. QED
      BY <2>2, UpdatePreprocessorTyped
  <1>1. Update(it, t, n) = [nest |-> [pp EXCEPT !.stack = left.stack, !.previous_stack_top = Len(it.stack)],
                            errors |-> left.errors]
    BY Zenon DEF Update
  <1>2. Update(it, t, n).nest.stack = left.stack /\ Update(it, t, n).nest.pp_stack = pp.pp_stack
    <2>. DEFINE new == [pp EXCEPT !.stack = left.stack, !.previous_stack_top = Len(it.stack)]
    <2>. HIDE DEF left
    <2>1. new.stack = left.stack /\ new.pp_stack = pp.pp_stack
      BY <1>0 DEF Nestings
    <2>2. Update(it, t, n).nest = new
      BY <1>1
    <2>. QED
      BY <2>1, <2>2
  <1>. SUFFICES ASSUME t[n].toks = Word PROVE left.stack = CountParentheses(pp.stack, Word)
    BY <1>0, <1>2
  <1>3. l.toks = Word /\ lead.braces = << >> /\ lead.rest = 1
    BY NoNamespace
  <1>4. counted = CountParentheses(pp.stack, Word)
    BY <1>3
  <1>11. counted \in Seq(Blocks)
    <2>1. pp.stack \in Seq(Blocks)
      BY <1>0 DEF Nestings
    <2>2. Word \in Seq(Tokens)
      BY DEF Word, Tokens
    <2>. QED
      BY <1>3, <2>1, <2>2, CountParenthesesTyped
  <1>. HIDE DEF counted, lead, l
  <1>5. inside = counted
    <2>1. spaces = << >>
      BY <1>3
    <2>. HIDE DEF spaces
    <2>. QED
      BY <1>11, <2>1
  <1>6. ~class
    <2>1. l.toks[lead.rest] = "word" /\ "word" \notin ClassWords
      BY <1>3 DEF Word, ClassWords
    <2>. QED
      BY <2>1
  <1>. HIDE DEF inside, class, info
  <1>7. begun = counted /\ rest = 1
    BY <1>3, <1>5, <1>6
  <1>8. SetAccess(begun, after) = begun
    <2>. HIDE DEF rest
    <2>3. after = SubSeq(Word, 1, Len(Word)) /\ Len(Word) = 1
      BY <1>3, <1>7 DEF Word
    <2>4. \A j \in DOMAIN SubSeq(Word, 1, 1) : SubSeq(Word, 1, 1)[j] = "word"
      BY DEF Word
    <2>1. \A j \in DOMAIN after : after[j] = "word"
      BY <2>3, <2>4
    <2>2. {j \in DOMAIN after : after[j] \in Labels} = {}
      BY <2>1 DEF Labels
    <2>. HIDE DEF after, begun
    <2>. QED
      BY <2>2 DEF SetAccess
  <1>9. left = Consume(counted, l, n, 1)
    BY <1>7, <1>8
  <1>10. left.stack = counted
    BY <1>3, <1>9, WordConsumed
  <1>. QED
    BY <1>4, <1>10

(* What the directives do to the conditionals. *)
LEMMA PreprocessorIs ==
  ASSUME NEW it \in Nestings, NEW pp, NEW new, new = UpdatePreprocessor(it, pp)
  PROVE  /\ pp = "if" => /\ new.stack = it.stack
                         /\ \E top \in Branches : /\ top.stack_before_if = it.stack
                                                  /\ new.pp_stack = Append(it.pp_stack, top)
         /\ pp = "else" /\ it.pp_stack # << >> =>
              /\ new.stack = Last(it.pp_stack).stack_before_if
              /\ Len(new.pp_stack) = Len(it.pp_stack)
              /\ \A k \in 1 .. Len(it.pp_stack) :
                   new.pp_stack[k].stack_before_if = it.pp_stack[k].stack_before_if
         /\ pp = "endif" /\ it.pp_stack # << >> => new.pp_stack = Front(it.pp_stack)
         /\ pp \notin {"if", "else", "endif"} \/ (pp # "if" /\ it.pp_stack = << >>) => new = it
  <1>. DEFINE top == Last(it.pp_stack)
              begun == [stack_before_if |-> it.stack, stack_before_else |-> << >>, seen_else |-> FALSE]
              else == [top EXCEPT !.seen_else = TRUE, !.stack_before_else = it.stack]
  <1>1. /\ it.stack \in Seq(Blocks) /\ it.pp_stack \in Seq(Branches)
        /\ it = [stack |-> it.stack, previous_stack_top |-> it.previous_stack_top, pp_stack |-> it.pp_stack]
    BY DEF Nestings
  <1>2. new = CASE pp = "if" -> [it EXCEPT !.pp_stack = Append(it.pp_stack, begun)]
                [] pp = "else" /\ it.pp_stack # << >> ->
                     [it EXCEPT !.stack = top.stack_before_if,
                                !.pp_stack = IF top.seen_else THEN it.pp_stack ELSE OnTop(it.pp_stack, else)]
                [] pp = "endif" /\ it.pp_stack # << >> ->
                     [it EXCEPT !.stack = IF top.seen_else THEN top.stack_before_else ELSE it.stack,
                                !.pp_stack = Front(it.pp_stack)]
                [] OTHER -> it
    BY DEF UpdatePreprocessor
  <1>3. begun \in Branches /\ begun.stack_before_if = it.stack
    BY <1>1, EmptySeq DEF Branches
  <1>4. ASSUME it.pp_stack # << >>
        PROVE  LET grown == OnTop(it.pp_stack, else) IN
               /\ Len(grown) = Len(it.pp_stack)
               /\ \A k \in 1 .. Len(it.pp_stack) : grown[k].stack_before_if = it.pp_stack[k].stack_before_if
    <2>1. /\ top \in Branches /\ top = it.pp_stack[Len(it.pp_stack)] /\ Front(it.pp_stack) \in Seq(Branches)
          /\ Len(Front(it.pp_stack)) = Len(it.pp_stack) - 1 /\ Len(it.pp_stack) \in Nat \ {0}
          /\ \A i \in 1 .. Len(it.pp_stack) - 1 : Front(it.pp_stack)[i] = it.pp_stack[i]
      BY <1>1, <1>4, FrontTyped
    <2>2. else \in Branches /\ else.stack_before_if = top.stack_before_if
      BY <1>1, <2>1 DEF Branches
    <2>. DEFINE f == Front(it.pp_stack)
    <2>. HIDE DEF f, else, top
    <2>3. f \in Seq(Branches) /\ Len(f) = Len(it.pp_stack) - 1 /\ \A i \in 1 .. Len(it.pp_stack) - 1 : f[i] = it.pp_stack[i]
      BY <2>1 DEF f
    <2>4. /\ Len(f \o <<else>>) = Len(f) + 1 /\ (f \o <<else>>)[Len(f) + 1] = else
          /\ \A i \in 1 .. Len(f) : (f \o <<else>>)[i] = f[i]
      <3>1. f \in Seq(Branches) /\ else \in Branches
        BY <2>2, <2>3
      <3>2. f \o <<else>> = Append(f, else)
        BY <3>1
      <3>3. /\ Len(Append(f, else)) = Len(f) + 1 /\ Append(f, else)[Len(f) + 1] = else
            /\ \A i \in 1 .. Len(f) : Append(f, else)[i] = f[i]
        BY <3>1, AppendProperties
      <3>. QED
        BY <3>2, <3>3
    <2>5. OnTop(it.pp_stack, else) = f \o <<else>>
      BY DEF OnTop, f
    <2>. QED
      BY <2>1, <2>2, <2>3, <2>4, <2>5
  <1>. HIDE DEF top, begun, else
  <1>5. CASE pp = "if"
    <2>1. new = [it EXCEPT !.pp_stack = Append(it.pp_stack, begun)]
      BY <1>2, <1>5
    <2>. QED
      BY <1>1, <1>3, <1>5, <2>1
  <1>6. CASE pp = "else" /\ it.pp_stack # << >>
    <2>1. new = [it EXCEPT !.stack = top.stack_before_if,
                           !.pp_stack = IF top.seen_else THEN it.pp_stack ELSE OnTop(it.pp_stack, else)]
      BY <1>2, <1>6
    <2>. QED
      BY <1>1, <1>4, <1>6, <2>1 DEF top
  <1>7. CASE pp = "endif" /\ it.pp_stack # << >>
    <2>1. new = [it EXCEPT !.stack = IF top.seen_else THEN top.stack_before_else ELSE it.stack,
                           !.pp_stack = Front(it.pp_stack)]
      BY <1>2, <1>7
    <2>. QED
      BY <1>1, <1>7, <2>1
  <1>8. CASE ~(pp = "if" \/ (pp \in {"else", "endif"} /\ it.pp_stack # << >>))
    <2>1. new = it
      BY <1>2, <1>8
    <2>. QED
      BY <1>8, <2>1
  <1>. QED
    BY <1>5, <1>6, <1>7, <1>8

(* A line is left out when the blocks then stand in assembly. *)
LEMMA SkippedIs ==
  ASSUME TypeInv, ProcessLine
  PROVE  /\ nest' = Update(nest, lines, line).nest
         /\ line \in skipped' <=> InAsmBlock(nest'.stack)
         /\ Agree(skipped, skipped', line - 1)
         /\ line \in skipped' <=> InAsm
         /\ line \notin skipped' <=> Checked
  <1>1. line \notin skipped /\ line \in 1 .. Len(lines) /\ Len(lines) \in Nat /\ (InAsm \/ Checked)
    BY ProcessLineIs
  <1>2. /\ nest' = Update(nest, lines, line).nest
        /\ IF InAsmBlock(Update(nest, lines, line).nest.stack) THEN skipped' = skipped \cup {line} ELSE skipped' = skipped
    BY Zenon DEF ProcessLine
  <1>3. (InAsm => skipped' = skipped \cup {line}) /\ (Checked => skipped' = skipped)
    BY DEF InAsm, Checked
  <1>4. line \in skipped' <=> InAsmBlock(nest'.stack)
    BY <1>1, <1>2
  <1>5. Agree(skipped, skipped', line - 1)
    BY <1>1, <1>3 DEF Agree
  <1>. QED
    BY <1>1, <1>2, <1>3, <1>4, <1>5

(* The conditionals that are open after line n, one record for each, and     *)
(* which of them were begun, or would be gone on with, in assembly.          *)
Branching(stack, opens, s, n) ==
  /\ Len(stack) = Len(opens)
  /\ \A k \in 1 .. Len(opens) : /\ opens[k].start \in 1 .. n
                                /\ AsmAt(stack[k].stack_before_if) <=> opens[k].start \in s

BranchesInv == Branching(nest.pp_stack, Around[line - 1], skipped, line - 1)

(* At the start no conditional is open. *)
LEMMA BranchesInit ==
  ASSUME TypeInv, Init
  PROVE  BranchesInv
  <1>1. line = 1 /\ nest.pp_stack = << >>
    BY DEF Init, EmptyNesting
  <1>2. Len(lines) \in Nat
    BY LenProperties DEF TypeInv, GoodText
  <1>3. Around[0] = << >>
    BY <1>2, AroundIs
  <1>4. line - 1 = 0
    BY <1>1
  <1>5. Branching(<< >>, << >>, skipped, 0)
    BY DEF Branching
  <1>. QED
    BY <1>1, <1>3, <1>4, <1>5 DEF BranchesInv

(* Over a line, and what an #else is. *)
LEMMA BranchesLine ==
  ASSUME TypeInv, BranchesInv, ProcessLine
  PROVE  /\ BranchesInv'
         /\ lines[line].pp = "else" /\ Around[line - 1] # << >> =>
              (Last(Around[line - 1]).start \in skipped <=> line \in skipped')
  <1>. DEFINE a == Around
              old == nest.pp_stack
              new == UpdatePreprocessor(nest, lines[line].pp)
              outer == a[line - 1]
              s == skipped'
  <1>1. /\ text' = text /\ line' = line + 1 /\ line \in 1 .. Len(lines) /\ Len(lines) \in Nat
        /\ line - 1 \in Nat /\ lines \in Seq(Lines) /\ lines[line] \in Lines
    BY ProcessLineIs
  <1>2. lines' = lines
    BY <1>1 DEF lines
  <1>3. Around' = Around
    BY <1>2 DEF Around
  <1>4. nest \in Nestings /\ old \in Seq(Branches)
    BY DEF TypeInv, Nestings
  <1>5. /\ new \in Nestings /\ nest'.pp_stack = new.pp_stack /\ new.pp_stack \in Seq(Branches)
        /\ lines[line].toks = Word => nest'.stack = CountParentheses(new.stack, Word)
    <2>1. /\ new \in Nestings
          /\ Update(nest, lines, line).nest.pp_stack = new.pp_stack
          /\ lines[line].toks = Word => Update(nest, lines, line).nest.stack = CountParentheses(new.stack, Word)
      BY <1>1, <1>4, DirectiveUpdates
    <2>2. nest' = Update(nest, lines, line).nest
      BY SkippedIs
    <2>. QED
      BY <2>1, <2>2 DEF Nestings
  <1>6. /\ lines[line].pp = "if" => /\ new.stack = nest.stack
                                    /\ \E top \in Branches : /\ top.stack_before_if = nest.stack
                                                             /\ new.pp_stack = Append(old, top)
        /\ lines[line].pp = "else" /\ old # << >> =>
             /\ new.stack = Last(old).stack_before_if
             /\ Len(new.pp_stack) = Len(old)
             /\ \A k \in 1 .. Len(old) : new.pp_stack[k].stack_before_if = old[k].stack_before_if
        /\ lines[line].pp = "endif" /\ old # << >> => new.pp_stack = Front(old)
        /\ lines[line].pp \notin {"if", "else", "endif"} \/ (lines[line].pp # "if" /\ old = << >>) => new = nest
    BY <1>4, PreprocessorIs
  <1>7. lines[line].pp \in {"if", "else"} => (line \in s <=> AsmAt(new.stack))
    <2>. SUFFICES ASSUME lines[line].pp \in {"if", "else"} PROVE line \in s <=> AsmAt(new.stack)
      OBVIOUS
    <2>1. lines[line].pp # "" => lines[line].toks = <<"word">>
      BY <1>1, Zenon DEF TypeInv, GoodText
    <2>2. lines[line].pp # ""
      BY Zenon
    <2>3. lines[line].toks = Word
      BY <2>1, <2>2, Zenon DEF Word
    <2>. QED
      BY <1>5, <2>3, SkippedIs DEF AsmAt
  <1>8. a \in [0 .. Len(lines) -> Seq(Opens)] /\ a[line] = AroundNext(lines, outer, line)
    BY <1>1, AroundIs
  <1>9. outer \in Seq(Opens) /\ line - 1 \in 0 .. Len(lines)
    BY <1>1, <1>8
  <1>10. Branching(old, outer, skipped, line - 1)
    BY DEF BranchesInv
  <1>11. Agree(skipped, s, line - 1)
    BY SkippedIs
  <1>. HIDE DEF a, new, outer, old, s
  <1>12. /\ Len(outer) \in Nat /\ Len(old) = Len(outer) /\ (outer = << >> <=> old = << >>)
         /\ DOMAIN outer = 1 .. Len(outer) /\ DOMAIN old = 1 .. Len(outer)
         /\ outer # << >> => Len(outer) \in Nat \ {0}
    <2>1. Len(outer) = Len(old)
      BY <1>10 DEF Branching
    <2>2. /\ Len(outer) \in Nat /\ Len(old) \in Nat /\ DOMAIN outer = 1 .. Len(outer) /\ DOMAIN old = 1 .. Len(old)
          /\ (outer = << >> <=> Len(outer) = 0) /\ (old = << >> <=> Len(old) = 0)
      BY <1>4, <1>9, LenProperties, EmptySeq
    <2>. QED
      BY <2>1, <2>2
  <1>13. \A k \in 1 .. Len(outer) : /\ outer[k].start \in 1 .. line - 1
                                    /\ outer[k].start \in s <=> outer[k].start \in skipped
                                    /\ AsmAt(old[k].stack_before_if) <=> outer[k].start \in s
    BY <1>10, <1>11 DEF Branching, Agree
  <1>14. Branching(old, outer, s, line)
    <2>1. \A i \in 1 .. line - 1 : i \in 1 .. line
      BY <1>1
    <2>. QED
      BY <1>12, <1>13, <2>1 DEF Branching
  <1>15. ASSUME outer # << >>
         PROVE  /\ Last(outer) = outer[Len(outer)] /\ Last(old) = old[Len(outer)] /\ Len(outer) \in 1 .. Len(outer)
                /\ Front(outer) \in Seq(Opens) /\ Len(Front(outer)) = Len(outer) - 1 /\ Last(outer) \in Opens
                /\ Front(old) \in Seq(Branches) /\ Len(Front(old)) = Len(outer) - 1
                /\ \A k \in 1 .. Len(outer) - 1 : Front(outer)[k] = outer[k] /\ Front(old)[k] = old[k]
    <2>1. /\ Last(outer) = outer[Len(outer)] /\ Front(outer) \in Seq(Opens) /\ Last(outer) \in Opens
          /\ Len(Front(outer)) = Len(outer) - 1 /\ \A k \in 1 .. Len(outer) - 1 : Front(outer)[k] = outer[k]
      BY <1>9, <1>15, FrontTyped
    <2>2. /\ Last(old) = old[Len(old)] /\ Front(old) \in Seq(Branches)
          /\ Len(Front(old)) = Len(old) - 1 /\ \A k \in 1 .. Len(old) - 1 : Front(old)[k] = old[k]
      BY <1>4, <1>12, <1>15, FrontTyped
    <2>3. Len(outer) \in 1 .. Len(outer)
      BY <1>12, <1>15
    <2>. QED
      BY <1>12, <2>1, <2>2, <2>3
  <1>16. SUFFICES /\ Branching(new.pp_stack, a[line], s, line)
                  /\ lines[line].pp = "else" /\ outer # << >> => (Last(outer).start \in skipped <=> line \in s)
    <2>1. line' - 1 = line
      BY <1>1
    <2>2. Branching(nest'.pp_stack, Around'[line' - 1], skipped', line' - 1)
      BY <1>3, <1>5, <1>16, <2>1 DEF a, s
    <2>3. BranchesInv'
      BY <2>2 DEF BranchesInv
    <2>. QED
      BY <1>16, <2>3, Zenon DEF a, outer, s
  <1>17. CASE lines[line].pp = "if"
    <2>1. PICK top \in Branches : top.stack_before_if = nest.stack /\ new.pp_stack = Append(old, top)
      BY <1>6, <1>17
    <2>. DEFINE open == [start |-> line, branch |-> line]
    <2>2. a[line] = Append(outer, open) /\ open \in Opens /\ open.start = line
      BY <1>1, <1>8, <1>17 DEF AroundNext, Opens
    <2>3. AsmAt(top.stack_before_if) <=> open.start \in s
      BY <1>6, <1>7, <1>17, <2>1, <2>2
    <2>. HIDE DEF open
    <2>4. /\ Len(Append(outer, open)) = Len(outer) + 1 /\ Append(outer, open)[Len(outer) + 1] = open
          /\ \A k \in 1 .. Len(outer) : Append(outer, open)[k] = outer[k]
      BY <1>9, <2>2, AppendProperties
    <2>5. /\ Len(Append(old, top)) = Len(outer) + 1 /\ Append(old, top)[Len(outer) + 1] = top
          /\ \A k \in 1 .. Len(outer) : Append(old, top)[k] = old[k]
      BY <1>4, <1>12, AppendProperties
    <2>6. line \in 1 .. line /\ 1 .. Len(outer) + 1 = (1 .. Len(outer)) \cup {Len(outer) + 1}
      BY <1>1, <1>12
    <2>. QED
      BY <1>14, <1>17, <2>1, <2>2, <2>3, <2>4, <2>5, <2>6 DEF Branching
  <1>18. CASE lines[line].pp = "else" /\ outer # << >>
    <2>. DEFINE open == [Last(outer) EXCEPT !.branch = line]
    <2>1. a[line] = Append(Front(outer), open)
      BY <1>8, <1>18 DEF AroundNext
    <2>2. open \in Opens /\ open.start = outer[Len(outer)].start
      BY <1>1, <1>15, <1>18 DEF Opens
    <2>. HIDE DEF open
    <2>3. /\ Len(Append(Front(outer), open)) = Len(outer) /\ Append(Front(outer), open)[Len(outer)] = open
          /\ \A k \in 1 .. Len(outer) - 1 : Append(Front(outer), open)[k] = outer[k]
      <3>. DEFINE f == Front(outer)
      <3>. HIDE DEF f
      <3>1. /\ f \in Seq(Opens) /\ Len(f) = Len(outer) - 1 /\ \A k \in 1 .. Len(outer) - 1 : f[k] = outer[k]
        BY <1>15, <1>18 DEF f
      <3>2. /\ Len(Append(f, open)) = Len(f) + 1 /\ Append(f, open)[Len(f) + 1] = open
            /\ \A k \in 1 .. Len(f) : Append(f, open)[k] = f[k]
        BY <2>2, <3>1, AppendProperties
      <3>3. Len(outer) - 1 + 1 = Len(outer)
        BY <1>12
      <3>. QED
        BY <3>1, <3>2, <3>3 DEF f
    <2>8. /\ Len(a[line]) = Len(outer) /\ a[line][Len(outer)] = open
          /\ \A k \in 1 .. Len(outer) - 1 : a[line][k] = outer[k]
      BY <2>1, <2>3, Zenon
    <2>4. /\ Len(new.pp_stack) = Len(outer)
          /\ \A k \in 1 .. Len(outer) : new.pp_stack[k].stack_before_if = old[k].stack_before_if
          /\ new.stack = old[Len(outer)].stack_before_if
      BY <1>6, <1>12, <1>15, <1>18
    <2>5. \A k \in 1 .. Len(outer) : a[line][k].start = outer[k].start
      <3>. SUFFICES ASSUME NEW k \in 1 .. Len(outer) PROVE a[line][k].start = outer[k].start
        OBVIOUS
      <3>1. CASE k = Len(outer)
        BY <2>2, <2>8, <3>1
      <3>2. CASE k # Len(outer)
        <4>1. \A last \in Nat : \A i \in 1 .. last : i # last => i \in 1 .. last - 1
          OBVIOUS
        <4>2. k \in 1 .. Len(outer) - 1
          BY <1>12, <3>2, <4>1
        <4>. QED
          BY <2>8, <4>2
      <3>. QED
        BY <3>1, <3>2
    <2>6. Branching(new.pp_stack, a[line], s, line)
      <3>1. Len(a[line]) = Len(outer)
        BY <2>8
      <3>2. \A k \in 1 .. Len(outer) :
              outer[k].start \in 1 .. line /\ (AsmAt(old[k].stack_before_if) <=> outer[k].start \in s)
        BY <1>14 DEF Branching
      <3>. QED
        BY <2>4, <2>5, <3>1, <3>2 DEF Branching
    <2>7. Last(outer).start \in skipped <=> line \in s
      BY <1>7, <1>13, <1>15, <1>18, <2>4
    <2>. QED
      BY <2>6, <2>7
  <1>19. CASE lines[line].pp = "endif" /\ outer # << >>
    <2>1. a[line] = Front(outer) /\ new.pp_stack = Front(old)
      BY <1>6, <1>8, <1>12, <1>19 DEF AroundNext
    <2>2. \A k \in 1 .. Len(outer) - 1 : k \in 1 .. Len(outer)
      BY <1>12
    <2>3. Branching(Front(old), Front(outer), s, line)
      BY <1>14, <1>15, <1>19, <2>2 DEF Branching
    <2>. QED
      BY <1>19, <2>1, <2>3
  <1>20. CASE lines[line].pp \notin {"if", "else", "endif"} \/ (lines[line].pp # "if" /\ outer = << >>)
    <2>1. new.pp_stack = old
      BY <1>6, <1>12, <1>20 DEF old
    <2>2. a[line] = outer
      BY <1>8, <1>20 DEF AroundNext
    <2>. QED
      BY <1>14, <1>20, <2>1, <2>2
  <1>. QED
    BY <1>17, <1>18, <1>19, <1>20

(* A path stands in a list that the directives to come leave alone: not in   *)
(* the last one while it is that of a branch.                                *)
InList(list, path) == \E i \in DOMAIN list : list[i].path = path
PathSafe(l, path, shut) == \E k \in DOMAIN l : (shut => k # Len(l)) /\ InList(l[k], path)

(* An #if begins a list. *)
LEMMA SafeGrown ==
  ASSUME NEW E, NEW l \in Seq(Seq(E))
  PROVE  /\ \A path, shut, still : PathSafe(l, path, shut) => PathSafe(Append(l, << >>), path, still)
         /\ \A k \in DOMAIN Append(l, << >>) : \A i \in DOMAIN Append(l, << >>)[k] :
              k \in DOMAIN l /\ k # Len(Append(l, << >>)) /\ Append(l, << >>)[k] = l[k]
  <1>. DEFINE none == << >>
              new == Append(l, none)
  <1>1. none \in Seq(E) /\ DOMAIN none = {}
    OBVIOUS
  <1>. HIDE DEF none
  <1>2. /\ Len(l) \in Nat /\ DOMAIN l = 1 .. Len(l) /\ DOMAIN new = 1 .. Len(new) /\ Len(new) = Len(l) + 1
        /\ (\A k \in 1 .. Len(l) : new[k] = l[k]) /\ new[Len(l) + 1] = none
    BY <1>1, AppendProperties, LenProperties
  <1>. HIDE DEF new
  <1>3. \A path, shut, still : PathSafe(l, path, shut) => PathSafe(new, path, still)
    <2>1. \A k \in DOMAIN l : k \in DOMAIN new /\ k # Len(new) /\ new[k] = l[k]
      BY <1>2
    <2>. QED
      BY <2>1, Zenon DEF PathSafe
  <1>4. \A k \in DOMAIN new : \A i \in DOMAIN new[k] : k \in DOMAIN l /\ k # Len(new) /\ new[k] = l[k]
    BY <1>1, <1>2
  <1>. QED
    BY <1>3, <1>4 DEF none, new

(* An #else empties the last list. *)
LEMMA SafeRestarted ==
  ASSUME NEW E, NEW l \in Seq(Seq(E)), l # << >>
  PROVE  /\ \A path, still : PathSafe(l, path, TRUE) => PathSafe(Append(Front(l), << >>), path, still)
         /\ \A k \in DOMAIN Append(Front(l), << >>) : \A i \in DOMAIN Append(Front(l), << >>)[k] :
              /\ k \in DOMAIN l /\ k # Len(l) /\ k # Len(Append(Front(l), << >>))
              /\ Append(Front(l), << >>)[k] = l[k]
  <1>. DEFINE none == << >>
              new == Append(Front(l), none)
  <1>1. none \in Seq(E)
    OBVIOUS
  <1>6. \A i \in DOMAIN none : FALSE
    OBVIOUS
  <1>. HIDE DEF none
  <1>2. /\ Len(l) \in Nat \ {0} /\ DOMAIN l = 1 .. Len(l) /\ DOMAIN new = 1 .. Len(l) /\ Len(new) = Len(l)
        /\ (\A k \in 1 .. Len(l) - 1 : new[k] = l[k]) /\ new[Len(l)] = none
    <2>1. /\ Append(Front(l), none) = Front(l) \o <<none>>
          /\ Len(l) \in Nat \ {0} /\ DOMAIN l = 1 .. Len(l) /\ Last(l) = l[Len(l)]
          /\ DOMAIN Append(Front(l), none) = 1 .. Len(l) /\ Len(Append(Front(l), none)) = Len(l)
          /\ (\A k \in 1 .. Len(l) - 1 : Append(Front(l), none)[k] = l[k]) /\ Append(Front(l), none)[Len(l)] = none
      BY <1>1, LastReplaced
    <2>. QED
      BY <2>1
  <1>. HIDE DEF new
  <1>3. \A k \in DOMAIN l : k # Len(l) => k \in DOMAIN new /\ k # Len(new) /\ new[k] = l[k]
    <2>1. \A n \in Nat : \A k \in 1 .. n : k # n => k \in 1 .. n - 1
      OBVIOUS
    <2>. QED
      BY <1>2, <2>1
  <1>4. \A path, still : PathSafe(l, path, TRUE) => PathSafe(new, path, still)
    BY <1>3, Zenon DEF PathSafe
  <1>5. \A k \in DOMAIN new : \A i \in DOMAIN new[k] :
          k \in DOMAIN l /\ k # Len(l) /\ k # Len(new) /\ new[k] = l[k]
    BY <1>2, <1>3, <1>6
  <1>. QED
    BY <1>4, <1>5 DEF none, new

Added(l, new, entry) ==
  /\ \A path, shut : PathSafe(l, path, shut) => PathSafe(new, path, shut)
  /\ PathSafe(new, entry.path, FALSE)
  /\ Len(new) = Len(l)
  /\ \A k \in DOMAIN new : \A i \in DOMAIN new[k] :
       (k = Len(l) /\ new[k][i] = entry) \/ (k \in DOMAIN l /\ i \in DOMAIN l[k] /\ new[k][i] = l[k][i])

(* An #include is put into the last list, and nothing is lost. *)
LEMMA SafeAdded ==
  ASSUME NEW E, NEW l \in Seq(Seq(E)), l # << >>, NEW entry \in E,
         NEW new, new = Front(l) \o <<Append(Last(l), entry)>>
  PROVE  Added(l, new, entry)
  <1>. DEFINE last == Append(Last(l), entry)
  <1>1. Last(l) \in Seq(E)
    BY FrontTyped
  <1>2. /\ last \in Seq(E) /\ Len(Last(l)) \in Nat
        /\ DOMAIN Last(l) = 1 .. Len(Last(l)) /\ DOMAIN last = 1 .. Len(Last(l)) + 1
        /\ (\A i \in 1 .. Len(Last(l)) : last[i] = Last(l)[i]) /\ last[Len(Last(l)) + 1] = entry
    <2>. DEFINE list == Last(l)
    <2>. HIDE DEF list
    <2>1. list \in Seq(E)
      BY <1>1 DEF list
    <2>2. /\ Append(list, entry) \in Seq(E) /\ Len(list) \in Nat
          /\ DOMAIN list = 1 .. Len(list) /\ DOMAIN Append(list, entry) = 1 .. Len(list) + 1
          /\ (\A i \in 1 .. Len(list) : Append(list, entry)[i] = list[i]) /\ Append(list, entry)[Len(list) + 1] = entry
      BY <2>1, AppendProperties, LenProperties
    <2>. QED
      BY <2>2 DEF list
  <1>3. new = Front(l) \o <<last>>
    OBVIOUS
  <1>. HIDE DEF last
  <1>4. /\ Len(l) \in Nat \ {0} /\ DOMAIN l = 1 .. Len(l) /\ DOMAIN new = 1 .. Len(l) /\ Len(new) = Len(l)
        /\ (\A k \in 1 .. Len(l) - 1 : new[k] = l[k]) /\ new[Len(l)] = last /\ Last(l) = l[Len(l)]
    <2>1. /\ Append(Front(l), last) = Front(l) \o <<last>>
          /\ Len(l) \in Nat \ {0} /\ DOMAIN l = 1 .. Len(l) /\ Last(l) = l[Len(l)]
          /\ DOMAIN Append(Front(l), last) = 1 .. Len(l) /\ Len(Append(Front(l), last)) = Len(l)
          /\ (\A k \in 1 .. Len(l) - 1 : Append(Front(l), last)[k] = l[k]) /\ Append(Front(l), last)[Len(l)] = last
      BY <1>2, LastReplaced
    <2>2. new = Append(Front(l), last)
      BY <1>3, <2>1
    <2>. QED
      BY <2>1, <2>2, Zenon
  <1>5. \A k \in 1 .. Len(l) : k = Len(l) \/ k \in 1 .. Len(l) - 1
    <2>1. \A n \in Nat : \A i \in 1 .. n : i = n \/ i \in 1 .. n - 1
      OBVIOUS
    <2>. QED
      BY <1>4, <2>1
  <1>6. ASSUME NEW k \in DOMAIN l, NEW path, InList(l[k], path) PROVE InList(new[k], path)
    <2>1. CASE k = Len(l)
      <3>1. l[k] = Last(l) /\ new[k] = last
        BY <1>4, <2>1
      <3>2. PICK i \in DOMAIN Last(l) : Last(l)[i].path = path
        BY <1>6, <3>1 DEF InList
      <3>3. i \in DOMAIN last /\ last[i].path = path
        BY <1>2, <3>2
      <3>. QED
        BY <3>1, <3>3 DEF InList
    <2>2. CASE k # Len(l)
      <3>1. new[k] = l[k]
        BY <1>4, <1>5, <2>2
      <3>. QED
        BY <1>6, <3>1
    <2>. QED
      BY <2>1, <2>2
  <1>7. \A path, shut : PathSafe(l, path, shut) => PathSafe(new, path, shut)
    <2>1. DOMAIN new = DOMAIN l /\ Len(new) = Len(l)
      BY <1>4
    <2>. QED
      BY <1>6, <2>1, Zenon DEF PathSafe
  <1>8. PathSafe(new, entry.path, FALSE)
    <2>1. Len(Last(l)) + 1 \in DOMAIN last /\ last[Len(Last(l)) + 1].path = entry.path
      BY <1>2
    <2>2. Len(l) \in DOMAIN new /\ InList(new[Len(l)], entry.path)
      <3>1. InList(last, entry.path)
        BY <2>1 DEF InList
      <3>2. \A n \in Nat \ {0} : n \in 1 .. n
        OBVIOUS
      <3>3. Len(l) \in DOMAIN new
        BY <1>4, <3>2, Zenon
      <3>. QED
        BY <1>4, <3>1, <3>3, Zenon
    <2>. QED
      BY <2>2 DEF PathSafe
  <1>9. ASSUME NEW k \in DOMAIN new, NEW i \in DOMAIN new[k]
        PROVE  (k = Len(l) /\ new[k][i] = entry) \/ (k \in DOMAIN l /\ i \in DOMAIN l[k] /\ new[k][i] = l[k][i])
    <2>1. CASE k = Len(l)
      <3>1. l[k] = Last(l) /\ new[k] = last /\ k \in DOMAIN l
        BY <1>4, <2>1
      <3>2. \A n \in Nat : \A j \in 1 .. n + 1 : j = n + 1 \/ j \in 1 .. n
        OBVIOUS
      <3>3. i = Len(Last(l)) + 1 \/ i \in 1 .. Len(Last(l))
        BY <1>2, <3>1, <3>2, Zenon
      <3>. QED
        BY <1>2, <2>1, <3>1, <3>3, Zenon
    <2>2. CASE k # Len(l)
      <3>1. new[k] = l[k] /\ k \in DOMAIN l
        BY <1>4, <1>5, <2>2
      <3>. QED
        BY <3>1
    <2>. QED
      BY <2>1, <2>2
  <1>. QED
    BY <1>4, <1>7, <1>8, <1>9 DEF Added

(* The last list may be emptied: a conditional is open whose #if began one. *)
Shut(a, s, n) == \E i \in DOMAIN a[n] : a[n][i].start \notin s
KeptHolds(t, name, s, a, l, told, n) ==
  \A m \in 1 .. n : Counted(t, name, s, m) /\ a[m] = << >> =>
    /\ PathSafe(l, t[m].include.path, Shut(a, s, n))
    /\ \A j \in m + 1 .. n :
         j \notin s /\ t[j].include # NoInclude /\ t[j].include.path = t[m].include.path => j \in told
EntriesCount(t, name, s, l) == \A k \in DOMAIN l : \A i \in DOMAIN l[k] : Counted(t, name, s, l[k][i].line)

(* Every entry is of a header that counts; what stands in no conditional is  *)
(* kept, and told of each header like it that follows.                       *)
KeptInv ==
  /\ EntriesCount(lines, text.name, skipped, includes.include_list)
  /\ Matched(Around) => KeptHolds(lines, text.name, skipped, Around, includes.include_list,
                                  LinesOf(errors, "build/include"), line - 1)

(* One line more, when the lists keep what they held. *)
LEMMA KeptStep ==
  ASSUME NEW t, NEW name, NEW s, NEW r, NEW a, NEW l, NEW new, NEW told, NEW now, NEW n \in Nat \ {0},
         KeptHolds(t, name, s, a, l, told, n - 1), Agree(s, r, n - 1), told \subseteq now,
         \A path : PathSafe(l, path, Shut(a, s, n - 1)) => PathSafe(new, path, Shut(a, r, n)),
         Counted(t, name, r, n) /\ a[n] = << >> => PathSafe(new, t[n].include.path, Shut(a, r, n)),
         n \notin r /\ t[n].include # NoInclude /\ PathSafe(l, t[n].include.path, FALSE) => n \in now
  PROVE  KeptHolds(t, name, r, a, new, now, n)
  <1>1. 1 .. n = (1 .. n - 1) \cup {n} /\ n + 1 .. n = {}
    OBVIOUS
  <1>2. \A m \in 1 .. n - 1 : Counted(t, name, s, m) <=> Counted(t, name, r, m)
    BY DEF Agree, Counted
  <1>. SUFFICES ASSUME NEW m \in 1 .. n, Counted(t, name, r, m), a[m] = << >>
                PROVE  /\ PathSafe(new, t[m].include.path, Shut(a, r, n))
                       /\ \A j \in m + 1 .. n :
                            j \notin r /\ t[j].include # NoInclude /\ t[j].include.path = t[m].include.path => j \in now
    BY DEF KeptHolds
  <1>3. CASE m = n
    BY <1>1, <1>3
  <1>4. CASE m # n
    <2>1. m \in 1 .. n - 1
      BY <1>1, <1>4
    <2>2. /\ PathSafe(l, t[m].include.path, Shut(a, s, n - 1))
          /\ \A j \in m + 1 .. n - 1 :
               j \notin s /\ t[j].include # NoInclude /\ t[j].include.path = t[m].include.path => j \in told
      BY <1>2, <2>1 DEF KeptHolds
    <2>3. PathSafe(l, t[m].include.path, FALSE)
      BY <2>2 DEF PathSafe
    <2>4. ASSUME NEW j \in m + 1 .. n, j \notin r, t[j].include # NoInclude, t[j].include.path = t[m].include.path
          PROVE  j \in now
      <3>1. CASE j = n
        BY <2>3, <2>4, <3>1
      <3>2. CASE j # n
        <4>1. j \in m + 1 .. n - 1 /\ j \in 1 .. n - 1
          BY <2>1, <3>2
        <4>2. j \notin s
          BY <2>4, <4>1 DEF Agree
        <4>. QED
          BY <2>2, <2>4, <4>1, <4>2
      <3>. QED
        BY <3>1, <3>2
    <2>. QED
      BY <2>2, <2>4
  <1>. QED
    BY <1>3, <1>4

(* The conditionals around the line in hand, after those around the last. *)
LEMMA ConditionalsAfter ==
  ASSUME TypeInv, BranchesInv, ProcessLine
  PROVE  LET outer == Around[line - 1]
             now == Around[line] IN
         /\ \A i \in DOMAIN outer : outer[i].start \in skipped <=> outer[i].start \in skipped'
         /\ \A i \in DOMAIN now : \/ lines[line].pp = "if" /\ now[i].start = line
                                  \/ \E j \in DOMAIN outer : now[i].start = outer[j].start
         /\ lines[line].pp \notin {"if", "else", "endif"} => now = outer
         /\ outer # << >> => \E i \in DOMAIN outer : outer[i] = Last(outer)
  <1>. DEFINE a == Around
              outer == a[line - 1]
              now == a[line]
  <1>1. /\ line \in 1 .. Len(lines) /\ Len(lines) \in Nat /\ line - 1 \in Nat
    BY ProcessLineIs
  <1>2. a \in [0 .. Len(lines) -> Seq(Opens)] /\ now = AroundNext(lines, outer, line)
    BY <1>1, AroundIs
  <1>3. outer \in Seq(Opens)
    BY <1>1, <1>2
  <1>4. Agree(skipped, skipped', line - 1)
    BY SkippedIs
  <1>5. \A k \in 1 .. Len(outer) : outer[k].start \in 1 .. line - 1
    BY DEF BranchesInv, Branching
  <1>. HIDE DEF outer, now, a
  <1>6. Len(outer) \in Nat /\ DOMAIN outer = 1 .. Len(outer)
    BY <1>3, LenProperties
  <1>7. \A i \in DOMAIN outer : outer[i].start \in skipped <=> outer[i].start \in skipped'
    BY <1>4, <1>5, <1>6 DEF Agree
  <1>8. ASSUME outer # << >>
        PROVE  /\ Front(outer) \in Seq(Opens) /\ Len(Front(outer)) = Len(outer) - 1 /\ Len(outer) \in Nat \ {0}
               /\ \A i \in 1 .. Len(outer) - 1 : Front(outer)[i] = outer[i]
               /\ Last(outer) \in Opens /\ Last(outer) = outer[Len(outer)] /\ Len(outer) \in DOMAIN outer
    <2>1. /\ Front(outer) \in Seq(Opens) /\ Len(Front(outer)) = Len(outer) - 1 /\ Len(outer) \in Nat \ {0}
          /\ \A i \in 1 .. Len(outer) - 1 : Front(outer)[i] = outer[i]
          /\ Last(outer) \in Opens /\ Last(outer) = outer[Len(outer)]
      BY <1>3, <1>8, FrontTyped
    <2>2. \A n \in Nat \ {0} : n \in 1 .. n
      OBVIOUS
    <2>3. Len(outer) \in DOMAIN outer
      BY <1>6, <2>1, <2>2, Zenon
    <2>. QED
      BY <2>1, <2>3
  <1>9. \A i \in DOMAIN now : \/ lines[line].pp = "if" /\ now[i].start = line
                              \/ \E j \in DOMAIN outer : now[i].start = outer[j].start
    <2>1. CASE lines[line].pp = "if"
      <3>. DEFINE open == [start |-> line, branch |-> line]
                  new == Append(outer, open)
      <3>1. now = new /\ open \in Opens /\ open.start = line
        BY <1>1, <1>2, <2>1 DEF AroundNext, Opens
      <3>. HIDE DEF open
      <3>2. /\ DOMAIN new = 1 .. Len(outer) + 1 /\ new[Len(outer) + 1] = open
            /\ \A k \in 1 .. Len(outer) : new[k] = outer[k]
        BY <1>3, <3>1, AppendProperties, LenProperties
      <3>. HIDE DEF new
      <3>3. \A n \in Nat : \A j \in 1 .. n + 1 : j = n + 1 \/ j \in 1 .. n
        OBVIOUS
      <3>4. \A i \in DOMAIN new : i = Len(outer) + 1 \/ i \in DOMAIN outer
        BY <1>6, <3>2, <3>3, Zenon
      <3>. QED
        BY <1>6, <2>1, <3>1, <3>2, <3>4
    <2>2. CASE lines[line].pp = "else" /\ outer # << >>
      <3>. DEFINE open == [Last(outer) EXCEPT !.branch = line]
                  front == Front(outer)
                  new == Append(front, open)
      <3>1. now = new
        BY <1>2, <2>2 DEF AroundNext
      <3>2. open \in Opens /\ open.start = outer[Len(outer)].start
        <4>. DEFINE top == Last(outer)
        <4>1. top \in Opens /\ top = outer[Len(outer)] /\ line \in Nat
          BY <1>1, <1>8, <2>2
        <4>. HIDE DEF top
        <4>2. [top EXCEPT !.branch = line] \in Opens /\ [top EXCEPT !.branch = line].start = top.start
          BY <4>1 DEF Opens
        <4>. QED
          BY <4>1, <4>2 DEF top
      <3>3. /\ front \in Seq(Opens) /\ Len(front) = Len(outer) - 1 /\ Len(outer) \in Nat \ {0} /\ Len(outer) \in DOMAIN outer
            /\ \A i \in 1 .. Len(outer) - 1 : front[i] = outer[i]
        BY <1>8, <2>2
      <3>. HIDE DEF open, front
      <3>4. /\ DOMAIN new = 1 .. Len(front) + 1 /\ new[Len(front) + 1] = open
            /\ \A k \in 1 .. Len(front) : new[k] = front[k]
        BY <3>2, <3>3, AppendProperties, LenProperties
      <3>. HIDE DEF new
      <3>5. \A n \in Nat \ {0} : \A j \in 1 .. n - 1 + 1 : j = n - 1 + 1 \/ (j \in 1 .. n - 1 /\ j \in 1 .. n)
        OBVIOUS
      <3>6. \A i \in DOMAIN new : i = Len(front) + 1 \/ (i \in 1 .. Len(outer) - 1 /\ i \in DOMAIN outer)
        BY <1>6, <3>3, <3>4, <3>5
      <3>. QED
        BY <3>1, <3>2, <3>3, <3>4, <3>6
    <2>3. CASE lines[line].pp = "endif" /\ outer # << >>
      <3>. DEFINE front == Front(outer)
      <3>1. now = front
        BY <1>2, <2>3 DEF AroundNext
      <3>2. /\ front \in Seq(Opens) /\ Len(front) = Len(outer) - 1 /\ \A i \in 1 .. Len(outer) - 1 : front[i] = outer[i]
        BY <1>8, <2>3
      <3>. HIDE DEF front
      <3>3. DOMAIN front = 1 .. Len(outer) - 1
        BY <3>2, LenProperties
      <3>4. \A i \in 1 .. Len(outer) - 1 : i \in DOMAIN outer
        BY <1>6
      <3>. QED
        BY <3>1, <3>2, <3>3, <3>4
    <2>4. CASE lines[line].pp \notin {"if", "else", "endif"} \/ (lines[line].pp # "if" /\ outer = << >>)
      <3>1. now = outer
        BY <1>2, <2>4 DEF AroundNext
      <3>. QED
        BY <3>1
    <2>. QED
      BY <2>1, <2>2, <2>3, <2>4
  <1>10. lines[line].pp \notin {"if", "else", "endif"} => now = outer
    BY <1>2 DEF AroundNext
  <1>11. outer # << >> => \E i \in DOMAIN outer : outer[i] = Last(outer)
    BY <1>8
  <1>. QED
    BY <1>7, <1>9, <1>10, <1>11 DEF outer, now, a

(* At the start. *)
LEMMA KeptInit == Init => KeptInv
  <1>. SUFFICES ASSUME Init PROVE KeptInv
    OBVIOUS
  <1>1. line = 1 /\ includes.include_list = << << >> >>
    BY DEF Init, EmptyIncludes
  <1>2. 1 .. line - 1 = {}
    BY <1>1
  <1>3. \A k \in DOMAIN << << >> >> : \A i \in DOMAIN << << >> >>[k] : FALSE
    OBVIOUS
  <1>. QED
    BY <1>1, <1>2, <1>3 DEF KeptInv, KeptHolds, EntriesCount

(* Over a line. *)
LEMMA KeptLine ==
  ASSUME TypeInv, BranchesInv, KeptInv, ProcessLine
  PROVE  KeptInv'
  <1>. DEFINE name == text.name
              a == Around
              s == skipped
              r == skipped'
              l == includes.include_list
              next == includes'.include_list
              E == Entries(lines, Included(line))
              told == LinesOf(errors, "build/include")
              now == told'
              path == lines[line].include.path
              before == Shut(a, s, line - 1)
              after == Shut(a, r, line)
  <1>1. /\ text' = text /\ done' = done /\ line' = line + 1 /\ line \in 1 .. Len(lines) /\ Len(lines) \in Nat
        /\ line - 1 \in Nat /\ lines \in Seq(Lines) /\ (InAsm \/ Checked) /\ line \notin skipped
    BY ProcessLineIs
  <1>2. lines' = lines
    BY <1>1 DEF lines
  <1>3. Around' = Around /\ Directives' = Directives
    BY <1>2 DEF Around, Directives
  <1>4. Matched(Around)' <=> Matched(Around)
    BY <1>2, <1>3, Zenon DEF Matched
  <1>5. Agree(s, r, line - 1) /\ (line \in r <=> InAsm) /\ (line \notin r <=> Checked)
    BY SkippedIs
  <1>6. SUFFICES /\ EntriesCount(lines, name, r, next)
                 /\ Matched(a) => KeptHolds(lines, name, r, a, next, now, line)
    <2>1. line' - 1 = line
      BY <1>1
    <2>. QED
      BY <1>1, <1>2, <1>3, <1>4, <1>6, <2>1, Zenon DEF KeptInv
  <1>7. /\ \A i \in DOMAIN a[line - 1] : a[line - 1][i].start \in s <=> a[line - 1][i].start \in r
        /\ \A i \in DOMAIN a[line] : \/ lines[line].pp = "if" /\ a[line][i].start = line
                                     \/ \E j \in DOMAIN a[line - 1] : a[line][i].start = a[line - 1][j].start
        /\ lines[line].pp \notin {"if", "else", "endif"} => a[line] = a[line - 1]
        /\ a[line - 1] # << >> => \E i \in DOMAIN a[line - 1] : a[line - 1][i] = Last(a[line - 1])
    BY ConditionalsAfter
  <1>8. lines[line].pp = "else" /\ a[line - 1] # << >> => (Last(a[line - 1]).start \in s <=> line \in r)
    BY BranchesLine
  <1>9. l \in Seq(Seq(E)) /\ l # << >>
    <2>1. includes \in IncludeStates(Entries(lines, Included(line - 1)))
      BY DEF TypeInv
    <2>2. Entries(lines, Included(line - 1)) \subseteq E
      BY <1>1, IncludedAfter DEF Entries
    <2>. HIDE DEF E
    <2>3. includes \in IncludeStates(E)
      BY <2>1, <2>2, IncludeStatesMonotonic
    <2>. QED
      BY <2>3 DEF IncludeStates
  <1>10. EntriesCount(lines, name, r, l)
    <2>1. EntriesCount(lines, name, s, l)
      BY DEF KeptInv
    <2>2. includes.include_list \in Seq(Seq(Entries(lines, Included(line - 1))))
      BY DEF TypeInv, IncludeStates
    <2>. DEFINE D == Entries(lines, Included(line - 1))
    <2>3. \A e \in D : e.line \in 1 .. line - 1
      BY DEF Entries, Included
    <2>. HIDE DEF D
    <2>4. \A k \in DOMAIN l : \A i \in DOMAIN l[k] : l[k][i] \in D
      <3>1. l \in Seq(Seq(D))
        BY <2>2 DEF D
      <3>. HIDE DEF l
      <3>2. \A k \in DOMAIN l : l[k] \in Seq(D)
        BY <3>1, LenProperties, ElementOfSeq
      <3>. QED
        BY <3>2, LenProperties, ElementOfSeq
    <2>5. \A m \in 1 .. line - 1 : Counted(lines, name, s, m) => Counted(lines, name, r, m)
      BY <1>5 DEF Agree, Counted
    <2>. HIDE DEF l, name, s, r
    <2>. QED
      BY <2>1, <2>3, <2>4, <2>5 DEF EntriesCount
  <1>11. Matched(a) => KeptHolds(lines, name, s, a, l, told, line - 1)
    BY DEF KeptInv
  <1>12. DOMAIN lines = 1 .. Len(lines) /\ line \in Nat \ {0} /\ line \in DOMAIN lines
    BY <1>1, LenProperties
  <1>13. after => before \/ (lines[line].pp = "if" /\ line \notin r)
    BY <1>7, Zenon DEF Shut
  <1>14. lines[line].pp = "else" /\ Matched(a) /\ line \notin r => before
    <2>. SUFFICES ASSUME lines[line].pp = "else", Matched(a), line \notin r PROVE before
      OBVIOUS
    <2>1. line \in Directives
      BY <1>12, DirectiveKinds
    <2>2. a[line - 1] # << >>
      BY <2>1 DEF Matched
    <2>3. PICK i \in DOMAIN a[line - 1] : a[line - 1][i] = Last(a[line - 1])
      BY <1>7, <2>2
    <2>4. a[line - 1][i].start \notin s
      BY <1>8, <2>2, <2>3
    <2>. QED
      BY <2>4 DEF Shut
  <1>15. lines[line].include # NoInclude => a[line] = a[line - 1] /\ line \notin Directives
    <2>. SUFFICES ASSUME lines[line].include # NoInclude PROVE a[line] = a[line - 1] /\ line \notin Directives
      OBVIOUS
    <2>1. ~IsDirective(lines, line)
      BY <1>1 DEF TypeInv, GoodText, IsDirective
    <2>2. line \notin Directives /\ lines[line].pp \notin {"if", "else", "endif"}
      BY <1>12, <2>1, DirectiveKinds
    <2>. QED
      BY <1>7, <2>2
  <1>16. a[line] = << >> => ~after
    BY DEF Shut
  <1>. HIDE DEF a, E, told, now, l, next, s, r, name, before, after, path
  <1>17. CASE InAsm
    <2>1. next = l /\ line \in r /\ told \subseteq now
      <3>1. includes' = includes
        BY <1>17 DEF InAsm
      <3>2. "build/include" \notin NestingCategories
        BY DEF NestingCategories
      <3>3. now = told
        BY <1>17, <3>2 DEF InAsm, now, told
      <3>. QED
        BY <1>5, <1>17, <3>1, <3>3 DEF next, l
    <2>2. after => before
      BY <1>13, <2>1
    <2>3. \A p : PathSafe(l, p, before) => PathSafe(l, p, after)
      BY <2>2 DEF PathSafe
    <2>4. ~Counted(lines, name, r, line)
      BY <2>1 DEF Counted
    <2>5. ASSUME Matched(a) PROVE KeptHolds(lines, name, r, a, l, now, line)
      BY <1>5, <1>11, <1>12, <2>1, <2>3, <2>4, <2>5, KeptStep DEF before, after
    <2>. QED
      BY <1>10, <2>1, <2>5
  <1>18. CASE Checked
    <2>. DEFINE it == CheckLanguage(line)
                include == lines[line].include
                new == LinesOf(it.errors, "build/include")
    <2>1. s = r /\ next = it.state.include_list /\ told \subseteq now /\ new \subseteq now /\ line \notin r
      <3>1. "build/include" \notin NestingCategories
        BY DEF NestingCategories
      <3>2. now = told \cup LinesOf(CheckForFunctionLengths(line).errors, "build/include") \cup new
        BY <1>18, <3>1 DEF Checked, told, now
      <3>. QED
        BY <1>5, <1>18, <3>2 DEF Checked, s, r, next
    <2>2. line <= Len(lines)
      BY <1>1
    <2>3. /\ include = NoInclude => it.state = IF lines[line].pp = "" THEN includes
                                               ELSE ResetSection(includes, lines[line].pp)
          /\ include # NoInclude => IncludeLineIs(it, E, includes, include, name, line)
      BY <2>2, LanguageTyped DEF E, name
    <2>4. CASE include = NoInclude
      <3>1. ~Counted(lines, name, r, line)
        BY <2>4 DEF Counted
      <3>2. /\ lines[line].pp = "if" => it.state.include_list = Append(l, << >>)
            /\ lines[line].pp = "else" => it.state.include_list = Append(Front(l), << >>)
            /\ lines[line].pp \notin {"if", "else"} => it.state.include_list = l
        <4>1. it.state = IF lines[line].pp = "" THEN includes ELSE ResetSection(includes, lines[line].pp)
          BY <2>3, <2>4
        <4>. HIDE DEF it
        <4>. QED
          BY <4>1, ResetLists DEF l
      <3>3. SUFFICES /\ EntriesCount(lines, name, r, next)
                     /\ Matched(a) => \A p : PathSafe(l, p, before) => PathSafe(next, p, after)
        <4>. HIDE DEF it, new
        <4>1. ASSUME Matched(a) PROVE KeptHolds(lines, name, r, a, next, now, line)
          BY <1>5, <1>11, <1>12, <2>1, <2>4, <3>1, <3>3, <4>1, KeptStep DEF before, after
        <4>. QED
          BY <3>3, <4>1
      <3>. HIDE DEF it, new, include
      <3>4. CASE lines[line].pp = "if"
        <4>. DEFINE grown == Append(l, << >>)
        <4>1. /\ \A p, shut, still : PathSafe(l, p, shut) => PathSafe(grown, p, still)
              /\ \A k \in DOMAIN grown : \A i \in DOMAIN grown[k] : k \in DOMAIN l /\ grown[k] = l[k]
          BY <1>9, SafeGrown
        <4>2. next = grown
          BY <2>1, <3>2, <3>4
        <4>. HIDE DEF grown
        <4>3. EntriesCount(lines, name, r, grown)
          BY <1>10, <4>1, Zenon DEF EntriesCount
        <4>. QED
          BY <4>1, <4>2, <4>3, Zenon
      <3>5. CASE lines[line].pp = "else"
        <4>. DEFINE left == Append(Front(l), << >>)
        <4>1. /\ \A p, still : PathSafe(l, p, TRUE) => PathSafe(left, p, still)
              /\ \A k \in DOMAIN left : \A i \in DOMAIN left[k] : k \in DOMAIN l /\ k # Len(l) /\ left[k] = l[k]
          BY <1>9, SafeRestarted
        <4>2. next = left
          BY <2>1, <3>2, <3>5
        <4>. HIDE DEF left
        <4>3. EntriesCount(lines, name, r, left)
          BY <1>10, <4>1, Zenon DEF EntriesCount
        <4>4. ASSUME Matched(a), NEW p, PathSafe(l, p, before) PROVE PathSafe(left, p, after)
          <5>1. before
            BY <1>14, <2>1, <3>5, <4>4
          <5>2. PathSafe(l, p, TRUE)
            BY <4>4, <5>1 DEF PathSafe
          <5>. QED
            BY <4>1, <5>2, Zenon
        <4>. QED
          BY <4>2, <4>3, <4>4, Zenon
      <3>6. CASE lines[line].pp \notin {"if", "else"}
        <4>1. next = l
          BY <2>1, <3>2, <3>6
        <4>2. after => before
          BY <1>13, <3>6
        <4>3. \A p : PathSafe(l, p, before) => PathSafe(l, p, after)
          BY <4>2 DEF PathSafe
        <4>. QED
          BY <1>10, <4>1, <4>3
      <3>. QED
        BY <3>4, <3>5, <3>6
    <2>5. CASE include # NoInclude
      <3>1. /\ Duplicate(includes, path) => line \in new
            /\ Duplicate(includes, path) <=> PathSafe(l, path, FALSE)
        <4>1. IncludeTells(it, includes, include, name, line)
          BY <2>2, <2>5, LanguageTells DEF name
        <4>2. Duplicate(includes, path) => line \in new
          <5>. HIDE DEF it
          <5>. QED
            BY <4>1, Zenon DEF IncludeTells, path
        <4>3. Duplicate(includes, path) <=> Listed(includes, path)
          <5>1. includes \in IncludeStates(Entries(lines, Included(line - 1)))
            BY DEF TypeInv
          <5>2. Included(line - 1) \in SUBSET Nat
            BY <1>1 DEF Included
          <5>. QED
            BY <5>1, <5>2, DuplicateIs
        <4>. HIDE DEF it, new
        <4>. QED
          BY <4>2, <4>3 DEF Listed, PathSafe, InList, l
      <3>2. IncludeLineIs(it, E, includes, include, name, line)
        BY <2>3, <2>5
      <3>. HIDE DEF it, new
      <3>3. Counted(lines, name, r, line) <=> ~IsForeign(name, include)
        BY <2>1, <2>5 DEF Counted
      <3>4. after <=> before
        BY <1>15, <2>1, <2>5, Zenon DEF after, before, Shut
      <3>5. SUFFICES /\ EntriesCount(lines, name, r, next)
                     /\ \A p : PathSafe(l, p, before) => PathSafe(next, p, before)
                     /\ Counted(lines, name, r, line) => PathSafe(next, path, FALSE)
        <4>1. \A p : PathSafe(l, p, before) => PathSafe(next, p, after)
          BY <3>4, <3>5 DEF PathSafe
        <4>2. Counted(lines, name, r, line) /\ a[line] = << >> => PathSafe(next, path, after)
          BY <1>16, <3>5 DEF PathSafe
        <4>3. line \notin r /\ include # NoInclude /\ PathSafe(l, path, FALSE) => line \in now
          BY <2>1, <3>1
        <4>4. ASSUME Matched(a) PROVE KeptHolds(lines, name, r, a, next, now, line)
          BY <1>5, <1>11, <1>12, <2>1, <4>1, <4>2, <4>3, <4>4, KeptStep DEF before, after, path
        <4>. QED
          BY <3>5, <4>4
      <3>6. CASE Rejected(name, includes, include)
        <4>1. next = l
          BY <2>1, <3>2, <3>6 DEF IncludeLineIs, l
        <4>2. Counted(lines, name, r, line) => PathSafe(l, path, FALSE)
          BY <3>1, <3>3, <3>6 DEF Rejected, path
        <4>. QED
          BY <1>10, <4>1, <4>2
      <3>7. CASE ~Rejected(name, includes, include)
        <4>. DEFINE entry == [path |-> path, line |-> line]
        <4>1. next = Front(l) \o <<Append(Last(l), entry)>>
          BY <2>1, <3>2, <3>7 DEF IncludeLineIs, l, path
        <4>2. Counted(lines, name, r, line)
          BY <3>3, <3>7 DEF Rejected
        <4>3. entry \in E /\ entry.line = line /\ entry.path = path
          <5>1. line \in Included(line)
            BY <1>1, <1>12, <2>5 DEF Included
          <5>. QED
            BY <5>1 DEF Entries, E, path
        <4>. HIDE DEF entry
        <4>6. l \in Seq(Seq(E)) /\ l # << >> /\ entry \in E
          BY <1>9, <4>3
        <4>4. /\ \A p, shut : PathSafe(l, p, shut) => PathSafe(next, p, shut)
              /\ PathSafe(next, entry.path, FALSE)
              /\ \A k \in DOMAIN next : \A i \in DOMAIN next[k] :
                   next[k][i] = entry \/ (k \in DOMAIN l /\ i \in DOMAIN l[k] /\ next[k][i] = l[k][i])
          <5>1. Added(l, next, entry)
            BY <4>1, <4>6, SafeAdded
          <5>. QED
            BY <5>1, Zenon DEF Added
        <4>5. EntriesCount(lines, name, r, next)
          BY <1>10, <4>2, <4>3, <4>4, Zenon DEF EntriesCount
        <4>. QED
          BY <4>3, <4>4, <4>5, Zenon
      <3>. QED
        BY <3>6, <3>7
    <2>. QED
      BY <2>4, <2>5
  <1>. QED
    BY <1>1, <1>17, <1>18

(* Nothing changes of the conditionals and the lists after the last line, and *)
(* what was told stays told.                                                  *)
LEMMA KeptFinish ==
  ASSUME TypeInv, BranchesInv, KeptInv, FinishFile
  PROVE  BranchesInv' /\ KeptInv'
  <1>1. /\ UNCHANGED <<text, line, nest, includes, skipped>>
        /\ LinesOf(errors, "build/include") \subseteq LinesOf(errors, "build/include")'
    BY FinishFileIs
  <1>2. lines' = lines
    BY <1>1 DEF lines
  <1>3. Around' = Around /\ Directives' = Directives
    BY <1>2 DEF Around, Directives
  <1>4. Matched(Around)' <=> Matched(Around)
    BY <1>2, <1>3, Zenon DEF Matched
  <1>5. BranchesInv'
    BY <1>1, <1>3 DEF BranchesInv
  <1>. DEFINE told == LinesOf(errors, "build/include")
              now == told'
  <1>6. told \subseteq now
    BY <1>1
  <1>. HIDE DEF told
  <1>7. \A a, l, n : KeptHolds(lines, text.name, skipped, a, l, told, n) =>
                     KeptHolds(lines, text.name, skipped, a, l, now, n)
    BY <1>6, Zenon DEF KeptHolds
  <1>8. /\ EntriesCount(lines', text'.name, skipped', includes'.include_list)
        /\ Matched(Around)' => KeptHolds(lines', text'.name, skipped', Around', includes'.include_list, now, line' - 1)
    BY <1>1, <1>2, <1>3, <1>4, <1>7 DEF KeptInv, told
  <1>. QED
    BY <1>5, <1>8 DEF KeptInv, told

(* Nor when nothing happens. *)
LEMMA KeptUnchanged ==
  ASSUME UNCHANGED vars, BranchesInv, KeptInv
  PROVE  BranchesInv' /\ KeptInv'
  <1>1. UNCHANGED <<text, line, nest, includes, skipped, errors>>
    BY DEF vars
  <1>2. lines' = lines
    BY <1>1 DEF lines
  <1>3. Around' = Around /\ Directives' = Directives
    BY <1>2 DEF Around, Directives
  <1>4. Matched(Around)' <=> Matched(Around)
    BY <1>2, <1>3, Zenon DEF Matched
  <1>5. BranchesInv'
    BY <1>1, <1>3 DEF BranchesInv
  <1>6. LinesOf(errors, "build/include")' = LinesOf(errors, "build/include")
    BY <1>1 DEF LinesOf
  <1>7. KeptInv'
    BY <1>1, <1>2, <1>3, <1>4, <1>6 DEF KeptInv
  <1>. QED
    BY <1>5, <1>7

-----------------------------------------------------------------------------
(* What is told to be missing after the last line. *)
MissingOf(es) == {e.header : e \in {x \in ToSet(es) : x.category = "build/include_what_you_use"}}

MissingInv ==
  /\ ~done => LinesOf(errors, "build/include_what_you_use") = {}
  /\ done => /\ line = Len(lines) + 1
             /\ Missing = CheckForIncludeWhatYouUse(FullName, includes, Uses, Disk)

(* What two lists hold. *)
LEMMA ElementsOfBoth ==
  ASSUME NEW S, NEW a \in Seq(S), NEW b \in Seq(S)
  PROVE  a \o b \in Seq(S) /\ ToSet(a \o b) = ToSet(a) \cup ToSet(b)
  <1>. DEFINE c == a \o b
  <1>1. /\ Len(a) \in Nat /\ Len(b) \in Nat /\ DOMAIN a = 1 .. Len(a) /\ DOMAIN b = 1 .. Len(b)
        /\ c \in Seq(S) /\ DOMAIN c = 1 .. Len(a) + Len(b)
        /\ \A i \in 1 .. Len(a) + Len(b) : c[i] = IF i <= Len(a) THEN a[i] ELSE b[i - Len(a)]
    BY ConcatProperties, LenProperties
  <1>. HIDE DEF c
  <1>2. ASSUME NEW i \in DOMAIN c PROVE c[i] \in ToSet(a) \cup ToSet(b)
    <2>1. CASE i <= Len(a)
      <3>1. i \in DOMAIN a /\ c[i] = a[i]
        BY <1>1, <2>1
      <3>. QED
        BY <3>1 DEF ToSet
    <2>2. CASE ~(i <= Len(a))
      <3>1. i - Len(a) \in DOMAIN b /\ c[i] = b[i - Len(a)]
        BY <1>1, <2>2
      <3>. QED
        BY <3>1 DEF ToSet
    <2>. QED
      BY <2>1, <2>2
  <1>3. ASSUME NEW i \in DOMAIN a PROVE a[i] \in ToSet(c)
    <2>1. i \in DOMAIN c /\ c[i] = a[i]
      BY <1>1
    <2>. QED
      BY <2>1 DEF ToSet
  <1>4. ASSUME NEW i \in DOMAIN b PROVE b[i] \in ToSet(c)
    <2>1. i + Len(a) \in DOMAIN c /\ c[i + Len(a)] = b[i]
      BY <1>1
    <2>. QED
      BY <2>1 DEF ToSet
  <1>5. ToSet(c) = ToSet(a) \cup ToSet(b)
    BY <1>2, <1>3, <1>4 DEF ToSet
  <1>. QED
    BY <1>1, <1>5 DEF c

(* At the start. *)
LEMMA MissingInit == Init => MissingInv
  <1>. SUFFICES ASSUME Init PROVE MissingInv
    OBVIOUS
  <1>1. done = FALSE /\ errors = << >>
    BY DEF Init
  <1>2. LinesOf(errors, "build/include_what_you_use") = {}
    BY <1>1 DEF LinesOf
  <1>. QED
    BY <1>1, <1>2 DEF MissingInv

(* No line tells any. *)
LEMMA MissingLine ==
  ASSUME TypeInv, MissingInv, ProcessLine
  PROVE  MissingInv'
  <1>. DEFINE category == "build/include_what_you_use"
  <1>1. done' = done /\ line \in 1 .. Len(lines) /\ Len(lines) \in Nat /\ (InAsm \/ Checked)
    BY ProcessLineIs
  <1>2. ~done /\ ~done'
    <2>1. line # Len(lines) + 1
      BY <1>1
    <2>. QED
      BY <1>1, <2>1 DEF MissingInv
  <1>3. LinesOf(errors, category) = {}
    BY <1>2 DEF MissingInv
  <1>4. /\ category \notin NestingCategories /\ category \notin IncludeCategories
        /\ category # "readability/fn_size"
    BY DEF NestingCategories, IncludeCategories
  <1>. HIDE DEF category
  <1>5. LinesOf(CheckForFunctionLengths(line).errors, category) = {}
    <2>1. function \in FunctionStates /\ GoodText(lines)
      BY DEF TypeInv
    <2>2. CheckForFunctionLengths(line).errors \in Seq(LengthErrors)
      BY <1>1, <2>1, LengthsTyped
    <2>. QED
      BY <1>4, <2>2, KindsOfErrors
  <1>6. LinesOf(CheckLanguage(line).errors, category) = {}
    <2>1. line <= Len(lines)
      BY <1>1
    <2>2. CheckLanguage(line).errors \in Seq(Plain(IncludeCategories))
      BY <2>1, LanguageTyped
    <2>. QED
      BY <1>4, <2>2, KindsOfErrors
  <1>7. LinesOf(errors, category)' = {}
    <2>1. CASE InAsm
      BY <1>3, <1>4, <2>1 DEF InAsm
    <2>2. CASE Checked
      BY <1>3, <1>4, <1>5, <1>6, <2>2 DEF Checked
    <2>. QED
      BY <1>1, <2>1, <2>2
  <1>8. LinesOf(errors', category) = {}
    BY <1>7 DEF LinesOf, category
  <1>. QED
    BY <1>2, <1>8 DEF MissingInv, category

(* After the last line all that are missing are told. *)
LEMMA MissingFinish ==
  ASSUME TypeInv, MissingInv, FinishFile
  PROVE  MissingInv'
  <1>. DEFINE blocks == CheckCompletedBlocks(nest.stack)
              missing == SetToSeq(MissingSet)
              beside == Beside
              found == CheckForIncludeWhatYouUse(FullName, includes, Uses, Disk)
              Is(e) == e.category = "build/include_what_you_use"
  <1>1. /\ UNCHANGED <<text, line, nest, includes, function, skipped>> /\ done' /\ ~done /\ line > Len(lines)
        /\ errors' = ((errors \o blocks) \o missing) \o beside
    BY Zenon DEF FinishFile, MissingSet, Beside
  <1>2. line = Len(lines) + 1
    <2>1. line \in 1 .. Len(lines) + 1 /\ Len(lines) \in Nat
      BY LenProperties DEF TypeInv, GoodText
    <2>. QED
      BY <1>1, <2>1
  <1>3. lines' = lines
    BY <1>1 DEF lines
  <1>4. found' = found
    BY <1>1, <1>3, Zenon DEF Uses, FullName
  <1>5. missing \in Seq(MissingErrors) /\ beside \in Seq(Plain({"build/include"}))
    BY FinishTyped
  <1>6. blocks \in Seq(Plain(NestingCategories))
    <2>1. nest.stack \in Seq(Blocks)
      BY DEF TypeInv, Nestings
    <2>. QED
      BY <2>1, CompletedBlocksTyped
  <1>7. errors \in Seq(Errors)
    BY DEF TypeInv
  <1>8. MissingSet = {[line |-> Uses[h], category |-> "build/include_what_you_use", header |-> h] : h \in found}
    BY DEF MissingSet, FullName
  <1>9. ToSet(missing) = MissingSet
    <2>1. found \subseteq DOMAIN Uses
      BY DEF CheckForIncludeWhatYouUse
    <2>2. IsFiniteSet(found)
      BY <2>1, UsesTyped, FS_Subset
    <2>. DEFINE f == [h \in found |->
                        [line |-> Uses[h], category |-> "build/include_what_you_use", header |-> h]]
                R == {f[h] : h \in found}
    <2>3. R = MissingSet
      BY <1>8
    <2>4. DOMAIN f = found /\ f = [h \in found |-> f[h]]
      OBVIOUS
    <2>. HIDE DEF f, found
    <2>5. IsFiniteSet(R)
      BY <2>2, <2>4, ValuesAreFinite
    <2>. HIDE DEF R
    <2>. QED
      BY <2>3, <2>5, SetToSeqTyped
  <1>10. /\ \A e \in ToSet(errors) : ~Is(e)
         /\ \A e \in ToSet(blocks) : ~Is(e)
         /\ \A e \in ToSet(beside) : ~Is(e)
    <2>1. LinesOf(errors, "build/include_what_you_use") = {}
      BY <1>1 DEF MissingInv
    <2>2. \A e \in ToSet(errors) : ~Is(e)
      BY <2>1 DEF LinesOf, ToSet
    <2>3. \A C : \A es \in Seq(Plain(C)) : \A e \in ToSet(es) : e \in Plain(C)
      BY LenProperties, ElementOfSeq DEF ToSet
    <2>4. \A C : \A e \in Plain(C) : e.category \in C
      BY DEF Plain
    <2>5. "build/include_what_you_use" \notin NestingCategories /\ "build/include_what_you_use" \notin {"build/include"}
      BY DEF NestingCategories
    <2>. HIDE DEF blocks, beside
    <2>. QED
      BY <1>5, <1>6, <2>2, <2>3, <2>4, <2>5
  <1>11. /\ blocks \in Seq(Errors) /\ missing \in Seq(Errors) /\ beside \in Seq(Errors)
    <2>1. Seq(Plain({"build/include"})) \subseteq Seq(Plain(IncludeCategories))
      BY PlainMonotonic DEF IncludeCategories
    <2>. QED
      BY <1>5, <1>6, <2>1, KindsOfErrors
  <1>. HIDE DEF blocks, missing, beside, found
  <1>12. ToSet(errors') = ToSet(errors) \cup ToSet(blocks) \cup MissingSet \cup ToSet(beside)
    <2>. DEFINE some == errors \o blocks
                more == some \o missing
    <2>1. some \in Seq(Errors) /\ ToSet(some) = ToSet(errors) \cup ToSet(blocks)
      BY <1>7, <1>11, ElementsOfBoth
    <2>. HIDE DEF some
    <2>2. more \in Seq(Errors) /\ ToSet(more) = ToSet(some) \cup ToSet(missing)
      BY <1>11, <2>1, ElementsOfBoth
    <2>. HIDE DEF more
    <2>3. ToSet(more \o beside) = ToSet(more) \cup ToSet(beside)
      BY <1>11, <2>2, ElementsOfBoth
    <2>4. errors' = more \o beside
      BY <1>1 DEF more, some
    <2>. QED
      BY <1>9, <2>1, <2>2, <2>3, <2>4
  <1>13. MissingOf(errors') = found
    <2>1. {x \in ToSet(errors') : Is(x)} = MissingSet
      <3>1. \A e \in MissingSet : Is(e)
        BY <1>8
      <3>. HIDE DEF Is
      <3>. QED
        BY <1>10, <1>12, <3>1
    <2>2. MissingOf(errors') = {e.header : e \in MissingSet}
      BY <2>1 DEF MissingOf
    <2>. DEFINE f == [h \in found |->
                        [line |-> Uses[h], category |-> "build/include_what_you_use", header |-> h]]
    <2>3. \A h \in found : f[h].header = h
      OBVIOUS
    <2>4. MissingSet = {f[h] : h \in found}
      BY <1>8
    <2>. HIDE DEF f
    <2>. QED
      BY <2>2, <2>3, <2>4
  <1>14. Missing' = MissingOf(errors')
    BY DEF Missing, MissingOf, ToSet
  <1>15. line' = Len(lines') + 1
    BY <1>1, <1>2, <1>3
  <1>16. Missing' = CheckForIncludeWhatYouUse(FullName, includes, Uses, Disk)'
    BY <1>4, <1>13, <1>14 DEF found
  <1>. QED
    BY <1>1, <1>15, <1>16 DEF MissingInv

(* Nor when nothing happens. *)
LEMMA MissingUnchanged ==
  ASSUME UNCHANGED vars, MissingInv
  PROVE  MissingInv'
  <1>1. UNCHANGED <<text, line, includes, errors, done>>
    BY DEF vars
  <1>2. lines' = lines
    BY <1>1 DEF lines
  <1>3. Uses' = Uses /\ FullName' = FullName
    BY <1>1, <1>2, Zenon DEF Uses, FullName
  <1>4. /\ LinesOf(errors, "build/include_what_you_use")' = LinesOf(errors, "build/include_what_you_use")
        /\ Missing' = Missing
    BY <1>1 DEF LinesOf, Missing
  <1>. QED
    BY <1>1, <1>2, <1>3, <1>4 DEF MissingInv

(* The paths in the lists. *)
LEMMA PathsListed ==
  ASSUME NEW E, NEW state, state.include_list \in Seq(Seq(E)), NEW path
  PROVE  path \in {i.path : i \in ToSet(AllIncludes(state))} <=> Listed(state, path)
  <1>. DEFINE all == AllIncludes(state)
              l == state.include_list
  <1>1. /\ all \in Seq(E)
        /\ \A x \in E : (\E i \in DOMAIN all : all[i] = x) <=> (\E k \in DOMAIN l : \E i \in DOMAIN l[k] : l[k][i] = x)
    <2>1. l \in Seq(Seq(E)) /\ all = FlattenSeq(l)
      BY DEF AllIncludes
    <2>. HIDE DEF all, l
    <2>2. Together(FlattenSeq(l), l, E)
      BY <2>1, FlattenElements, Zenon
    <2>. QED
      BY <2>1, <2>2 DEF Together
  <1>2. \A k \in DOMAIN l : \A i \in DOMAIN l[k] : l[k][i] \in E
    <2>1. \A k \in DOMAIN l : l[k] \in Seq(E)
      BY LenProperties, ElementOfSeq
    <2>. QED
      BY <2>1, LenProperties, ElementOfSeq
  <1>3. \A i \in DOMAIN all : all[i] \in E
    BY <1>1, LenProperties, ElementOfSeq
  <1>. HIDE DEF all, l
  <1>4. path \in {i.path : i \in ToSet(all)} <=> \E x \in E : x.path = path /\ \E i \in DOMAIN all : all[i] = x
    BY <1>3 DEF ToSet
  <1>5. Listed(state, path) <=> \E x \in E : x.path = path /\ \E k \in DOMAIN l : \E i \in DOMAIN l[k] : l[k][i] = x
    BY <1>2 DEF Listed, l
  <1>. QED
    BY <1>1, <1>4, <1>5 DEF all

(* What is missing, as the reference of the property reads it. *)
LEMMA MissingReference ==
  ASSUME TypeInv, KeptInv, MissingInv
  PROVE  MissingIsMissing
  <1>. SUFFICES ASSUME done, Matched(Around)
                PROVE  /\ Missing \subseteq Used \ Certain(Around)
                       /\ Extension(FullName) # ".cc" => Used \ {Path(n) : n \in Accepted} \subseteq Missing
    BY Zenon DEF MissingIsMissing
  <1>. DEFINE own == OwnHeaders(FullName, includes, Disk)
              listed == {i.path : i \in ToSet(AllIncludes(includes))}
              more == UNION {ToSet(Disk[FilesBelongToSameModule(FullName, h).prefix \o h]) : h \in own}
              E == Entries(lines, Included(line - 1))
              l == includes.include_list
  <1>1. Missing = IF Extension(FullName) = ".cc" /\ own = {} THEN {} ELSE DOMAIN Uses \ (listed \cup more)
    BY Zenon DEF MissingInv, CheckForIncludeWhatYouUse
  <1>2. line - 1 = Len(lines)
    <2>1. line = Len(lines) + 1 /\ Len(lines) \in Nat
      BY LenProperties DEF MissingInv, TypeInv, GoodText
    <2>. QED
      BY <2>1
  <1>3. DOMAIN Uses = Used
    BY Zenon DEF Uses, Used, Directives
  <1>4. l \in Seq(Seq(E))
    BY DEF TypeInv, IncludeStates
  <1>5. \A path : path \in listed <=> Listed(includes, path)
    BY <1>4, PathsListed
  <1>6. \A m : Foreign(m) <=> IsForeign(text.name, lines[m].include)
    BY DEF Foreign, IsForeign, Path
  <1>7. Certain(Around) \subseteq listed
    <2>. SUFFICES ASSUME NEW m \in Accepted, Around[m] = << >>
                  PROVE  Path(m) \in listed
      BY DEF Certain
    <2>1. m \in 1 .. line - 1 /\ Counted(lines, text.name, skipped, m)
      BY <1>2, <1>6 DEF Accepted, Included, Counted
    <2>2. PathSafe(l, Path(m), Shut(Around, skipped, line - 1))
      BY <2>1 DEF KeptInv, KeptHolds, Path
    <2>3. Listed(includes, Path(m))
      BY <2>2, Zenon DEF PathSafe, InList, Listed
    <2>. QED
      BY <1>5, <2>3
  <1>8. listed \subseteq {Path(n) : n \in Accepted}
    <2>. SUFFICES ASSUME NEW path \in listed PROVE \E n \in Accepted : path = Path(n)
      OBVIOUS
    <2>1. PICK k \in DOMAIN l : \E i \in DOMAIN l[k] : l[k][i].path = path
      BY <1>5, Zenon DEF Listed
    <2>2. PICK i \in DOMAIN l[k] : l[k][i].path = path
      BY <2>1
    <2>3. l[k][i] \in E
      <3>1. l[k] \in Seq(E)
        BY <1>4, LenProperties, ElementOfSeq
      <3>. QED
        BY <3>1, LenProperties, ElementOfSeq
    <2>4. PICK m \in Included(line - 1) : l[k][i] = [path |-> lines[m].include.path, line |-> m]
      BY <2>3 DEF Entries
    <2>5. Counted(lines, text.name, skipped, l[k][i].line)
      BY DEF KeptInv, EntriesCount
    <2>6. m \in Accepted
      BY <1>2, <1>6, <2>4, <2>5 DEF Accepted, Counted
    <2>. QED
      BY <2>2, <2>4, <2>6 DEF Path
  <1>9. Extension(FullName) # ".cc" => own = {}
    BY Zenon DEF OwnHeaders, FilesBelongToSameModule
  <1>10. own = {} => more = {}
    OBVIOUS
  <1>. HIDE DEF own, listed, more
  <1>11. Missing \subseteq Used \ Certain(Around)
    BY <1>1, <1>3, <1>7
  <1>12. ASSUME Extension(FullName) # ".cc" PROVE Used \ {Path(n) : n \in Accepted} \subseteq Missing
    BY <1>1, <1>3, <1>8, <1>9, <1>10, <1>12
  <1>. QED
    BY <1>11, <1>12

(* What is told to be missing is used and not included for certain, whatever    *)
(* conditionals, nested or in assembly, stand between; in a header whatever is *)
(* used and nowhere included is told.                                          *)
THEOREM IncludedIsNotMissing == Spec => []MissingIsMissing
  <1>1. Init => TypeInv /\ BranchesInv /\ KeptInv /\ MissingInv
    BY TypeInit, BranchesInit, KeptInit, MissingInit
  <1>2. TypeInv /\ BranchesInv /\ KeptInv /\ MissingInv /\ [Next]_vars
          => (TypeInv /\ BranchesInv /\ KeptInv /\ MissingInv)'
    <2>. SUFFICES ASSUME TypeInv, BranchesInv, KeptInv, MissingInv, [Next]_vars
                  PROVE  (TypeInv /\ BranchesInv /\ KeptInv /\ MissingInv)'
      OBVIOUS
    <2>1. CASE ProcessLine
      BY <2>1, TypeLine, BranchesLine, KeptLine, MissingLine
    <2>2. CASE FinishFile
      BY <2>2, TypeFinish, KeptFinish, MissingFinish
    <2>3. CASE UNCHANGED vars
      BY <2>3, TypeUnchanged, KeptUnchanged, MissingUnchanged
    <2>. QED
      BY <2>1, <2>2, <2>3 DEF Next
  <1>3. TypeInv /\ KeptInv /\ MissingInv => MissingIsMissing
    BY MissingReference
  <1>. QED
    BY <1>1, <1>2, <1>3, PTL DEF Spec

-----------------------------------------------------------------------------
(* What the directives do when each line is in one conditional at most. *)
AroundHolds(t, a) ==
  \A n \in 1 .. Len(t) :
    /\ t[n].pp = "if" => a[n - 1] = << >> /\ a[n] # << >> /\ a[n][1].start = n
    /\ t[n].pp = "else" => a[n - 1] # << >> /\ a[n] # << >> /\ a[n][1].start = a[n - 1][1].start
    /\ t[n].pp = "endif" => a[n] = << >>
    /\ t[n].pp \notin {"if", "else", "endif"} => a[n] = a[n - 1]
    /\ a[n] # << >> => DOMAIN a[n] = {1} /\ a[n][1].start \in 1 .. n

(* They do it when every directive has its #if and no conditional is in another. *)
LEMMA FlatAround ==
  ASSUME Len(lines) \in Nat, DOMAIN lines = 1 .. Len(lines), Matched(Around), ~Nested(Around)
  PROVE  AroundHolds(lines, Around) /\ Around[0] = << >>
  <1>. DEFINE last == Len(lines)
              a == Around
              pp(n) == lines[n].pp
              Start(n) == a[n] # << >> => a[n][1].start \in 1 .. n
              P == {m \in Nat : m <= last => Start(m)}
  <1>1. /\ a \in [0 .. last -> Seq(Opens)] /\ a[0] = << >>
        /\ \A n \in 1 .. last : a[n] = AroundNext(lines, a[n - 1], n)
    BY AroundIs
  <1>2. \A n \in 1 .. last : pp(n) \in {"else", "endif"} => a[n - 1] # << >>
    <2>1. \A n \in DOMAIN lines : pp(n) \in {"else", "endif"} => n \in Directives
      BY Zenon DEF Directives
    <2>. QED
      BY <2>1 DEF Matched
  <1>3. \A n \in 1 .. last : ~(Len(a[n]) > 1)
    BY DEF Nested
  <1>. HIDE DEF last, a
  <1>4. \A n \in 0 .. last : a[n] \in Seq(Opens) /\ Len(a[n]) \in Nat /\ Len(a[n]) <= 1
    <2>1. \A n \in 0 .. last : a[n] \in Seq(Opens) /\ Len(a[n]) \in Nat
      BY <1>1, LenProperties
    <2>2. Len(a[0]) <= 1
      BY <1>1
    <2>. QED
      BY <1>3, <2>1, <2>2 DEF last
  <1>5. ASSUME NEW n \in 0 .. last, a[n] # << >>
        PROVE  /\ Len(a[n]) = 1 /\ Front(a[n]) = << >> /\ Last(a[n]) = a[n][1] /\ a[n][1] \in Opens
    <2>. DEFINE s == a[n]
    <2>1. s \in Seq(Opens) /\ s # << >> /\ Len(s) <= 1
      BY <1>4, <1>5
    <2>. HIDE DEF s
    <2>2. /\ Front(s) \in Seq(Opens) /\ Len(Front(s)) = Len(s) - 1 /\ Len(s) \in Nat \ {0}
          /\ Last(s) \in Opens /\ Last(s) = s[Len(s)]
      BY <2>1, FrontTyped
    <2>3. Len(s) = 1 /\ Len(Front(s)) = 0
      BY <2>1, <2>2
    <2>4. Front(s) = << >>
      BY <2>2, <2>3, EmptySeq
    <2>. QED
      BY <2>2, <2>3, <2>4 DEF s
  <1>6. ASSUME NEW n \in 1 .. last
        PROVE  /\ pp(n) = "if" => a[n - 1] = << >> /\ a[n] # << >> /\ a[n][1].start = n
               /\ pp(n) = "else" => a[n - 1] # << >> /\ a[n] # << >> /\ a[n][1].start = a[n - 1][1].start
               /\ pp(n) = "endif" => a[n] = << >>
               /\ pp(n) \notin {"if", "else", "endif"} => a[n] = a[n - 1]
    <2>1. n - 1 \in 0 .. last /\ n \in 0 .. last /\ n \in Nat
      BY DEF last
    <2>2. a[n] = CASE pp(n) = "if" -> Append(a[n - 1], [start |-> n, branch |-> n])
                   [] pp(n) = "else" /\ a[n - 1] # << >> ->
                        Append(Front(a[n - 1]), [Last(a[n - 1]) EXCEPT !.branch = n])
                   [] pp(n) = "endif" /\ a[n - 1] # << >> -> Front(a[n - 1])
                   [] OTHER -> a[n - 1]
      BY <1>1, Zenon DEF AroundNext
    <2>3. CASE pp(n) = "if"
      <3>. DEFINE new == [start |-> n, branch |-> n]
      <3>1. a[n] = Append(a[n - 1], new)
        BY <2>2, <2>3
      <3>2. new \in Opens /\ new.start = n
        BY <2>1 DEF Opens
      <3>. HIDE DEF new
      <3>3. /\ Len(Append(a[n - 1], new)) = Len(a[n - 1]) + 1
            /\ Append(a[n - 1], new)[Len(a[n - 1]) + 1] = new
        BY <1>4, <2>1, <3>2, AppendProperties
      <3>4. Len(a[n - 1]) = 0
        BY <1>4, <2>1, <3>1, <3>3
      <3>5. a[n - 1] = << >>
        BY <1>4, <2>1, <3>4, EmptySeq
      <3>6. Len(a[n]) = 1 /\ a[n][1] = new
        BY <3>1, <3>3, <3>4
      <3>7. a[n] # << >>
        BY <3>6, EmptySeq
      <3>. QED
        BY <2>3, <3>2, <3>5, <3>6, <3>7
    <2>4. CASE pp(n) = "else"
      <3>. DEFINE new == [Last(a[n - 1]) EXCEPT !.branch = n]
      <3>1. a[n - 1] # << >>
        BY <1>2, <2>4 DEF last
      <3>2. a[n] = Append(Front(a[n - 1]), new)
        BY <2>2, <2>4, <3>1
      <3>3. Front(a[n - 1]) = << >> /\ Last(a[n - 1]) = a[n - 1][1] /\ a[n - 1][1] \in Opens
        BY <1>5, <2>1, <3>1
      <3>4. new \in Opens /\ new.start = a[n - 1][1].start
        BY <2>1, <3>3 DEF Opens
      <3>. HIDE DEF new
      <3>5. a[n] = <<new>>
        BY <3>2, <3>3
      <3>. QED
        BY <2>4, <3>1, <3>4, <3>5
    <2>5. CASE pp(n) = "endif"
      <3>1. a[n - 1] # << >>
        BY <1>2, <2>5 DEF last
      <3>2. a[n] = Front(a[n - 1])
        BY <2>2, <2>5, <3>1
      <3>. QED
        BY <1>5, <2>1, <2>5, <3>1, <3>2
    <2>6. CASE pp(n) \notin {"if", "else", "endif"}
      BY <2>2, <2>6
    <2>. QED
      BY <2>3, <2>4, <2>5, <2>6
  <1>7. Nat \subseteq P
    <2>1. 0 \in P
      BY <1>1
    <2>2. ASSUME NEW m \in Nat, m \in P PROVE m + 1 \in P
      <3>1. ASSUME m + 1 <= last, a[m + 1] # << >> PROVE a[m + 1][1].start \in 1 .. m + 1
        <4>. DEFINE n == m + 1
        <4>1. n \in 1 .. last /\ n - 1 = m /\ m <= last /\ last \in Nat
          BY <3>1 DEF last
        <4>. HIDE DEF n
        <4>2. /\ pp(n) = "if" => a[n][1].start = n
              /\ pp(n) = "else" => a[n - 1] # << >> /\ a[n][1].start = a[n - 1][1].start
              /\ pp(n) = "endif" => a[n] = << >>
              /\ pp(n) \notin {"if", "else", "endif"} => a[n] = a[n - 1]
          BY <1>6, <4>1
        <4>3. a[m] # << >> => a[m][1].start \in 1 .. m
          BY <2>2, <4>1
        <4>4. a[n] # << >>
          BY <3>1 DEF n
        <4>5. a[n][1].start = n \/ a[n][1].start \in 1 .. m
          BY <4>1, <4>2, <4>3, <4>4
        <4>6. n = m + 1
          BY DEF n
        <4>7. a[n][1].start \in 1 .. n
          BY <4>5, <4>6
        <4>. QED
          BY <4>6, <4>7
      <3>. QED
        BY <3>1
    <2>. HIDE DEF P
    <2>. QED
      BY <2>1, <2>2, SetInduction
  <1>8. \A n \in 1 .. last : a[n] # << >> => DOMAIN a[n] = {1} /\ a[n][1].start \in 1 .. n
    <2>1. \A n \in 1 .. last : n \in 0 .. last /\ n \in P
      BY <1>7 DEF last
    <2>2. \A n \in 1 .. last : a[n] # << >> => DOMAIN a[n] = {1}
      <3>1. ASSUME NEW n \in 1 .. last, a[n] # << >> PROVE DOMAIN a[n] = {1}
        <4>1. a[n] \in Seq(Opens) /\ Len(a[n]) = 1
          BY <1>4, <1>5, <2>1, <3>1
        <4>2. DOMAIN a[n] = 1 .. Len(a[n]) /\ 1 .. 1 = {1}
          BY <4>1, LenProperties
        <4>. QED
          BY <4>1, <4>2
      <3>. QED
        BY <3>1
    <2>. QED
      BY <2>1, <2>2
  <1>. QED
    BY <1>1, <1>6, <1>8 DEF AroundHolds, a, last

(* What the lists of includes hold after line n: headers that count, those  *)
(* of the branch in hand in the last list, in the others those that stood   *)
(* before its #if.                                                          *)
EntryHolds(t, name, s, a, n, e, last) ==
  /\ e.line \in 1 .. n /\ Counted(t, name, s, e.line) /\ e.path = t[e.line].include.path
  /\ a[n] # << >> => IF last THEN a[e.line] = a[n] ELSE e.line < a[n][1].start
ListsHold(t, name, s, a, l, n) ==
  \A k \in DOMAIN l : \A i \in DOMAIN l[k] : EntryHolds(t, name, s, a, n, l[k][i], k = Len(l))

(* A line may leave the lists alone. *)
LEMMA ListsSame ==
  ASSUME NEW t, NEW name, NEW s, NEW r, NEW a, NEW l, NEW n \in Nat \ {0},
         ListsHold(t, name, s, a, l, n - 1), Agree(s, r, n - 1), a[n] = a[n - 1] \/ a[n] = << >>
  PROVE  ListsHold(t, name, r, a, l, n)
  <1>1. 1 .. n = (1 .. n - 1) \cup {n}
    OBVIOUS
  <1>2. \A m \in 1 .. n - 1 : Counted(t, name, s, m) <=> Counted(t, name, r, m)
    BY DEF Agree, Counted
  <1>3. ASSUME NEW k \in DOMAIN l, NEW i \in DOMAIN l[k]
        PROVE  EntryHolds(t, name, r, a, n, l[k][i], k = Len(l))
    <2>1. EntryHolds(t, name, s, a, n - 1, l[k][i], k = Len(l))
      BY DEF ListsHold
    <2>. QED
      BY <1>1, <1>2, <2>1 DEF EntryHolds
  <1>. QED
    BY <1>3 DEF ListsHold

(* An #if begins a list: the others are older. *)
LEMMA ListsGrow ==
  ASSUME NEW E, NEW t, NEW name, NEW s, NEW a, NEW l \in Seq(Seq(E)), NEW n \in Nat \ {0},
         ListsHold(t, name, s, a, l, n - 1), a[n - 1] = << >>, a[n][1].start = n
  PROVE  ListsHold(t, name, s, a, Append(l, << >>), n)
  <1>. DEFINE new == Append(l, << >>)
  <1>1. \A k \in DOMAIN new : \A i \in DOMAIN new[k] : k \in DOMAIN l /\ k # Len(new) /\ new[k] = l[k]
    BY SafeGrown
  <1>. HIDE DEF new
  <1>2. ASSUME NEW k \in DOMAIN new, NEW i \in DOMAIN new[k]
        PROVE  EntryHolds(t, name, s, a, n, new[k][i], k = Len(new))
    <2>1. k \in DOMAIN l /\ new[k] = l[k] /\ k # Len(new)
      BY <1>1
    <2>2. EntryHolds(t, name, s, a, n - 1, new[k][i], k = Len(l))
      BY <2>1 DEF ListsHold
    <2>. QED
      BY <2>1, <2>2 DEF EntryHolds
  <1>. QED
    BY <1>2 DEF ListsHold, new

(* An #else empties the last list, that of its conditional. *)
LEMMA ListsRestart ==
  ASSUME NEW E, NEW t, NEW name, NEW s, NEW a, NEW l \in Seq(Seq(E)), l # << >>, NEW n \in Nat \ {0},
         ListsHold(t, name, s, a, l, n - 1), a[n - 1] # << >>, a[n][1].start = a[n - 1][1].start
  PROVE  ListsHold(t, name, s, a, Append(Front(l), << >>), n)
  <1>. DEFINE new == Append(Front(l), << >>)
  <1>1. \A k \in DOMAIN new : \A i \in DOMAIN new[k] :
          k \in DOMAIN l /\ k # Len(l) /\ k # Len(new) /\ new[k] = l[k]
    BY SafeRestarted
  <1>. HIDE DEF new
  <1>2. ASSUME NEW k \in DOMAIN new, NEW i \in DOMAIN new[k]
        PROVE  EntryHolds(t, name, s, a, n, new[k][i], k = Len(new))
    <2>1. k \in DOMAIN l /\ new[k] = l[k] /\ k # Len(l) /\ k # Len(new)
      BY <1>1
    <2>2. EntryHolds(t, name, s, a, n - 1, new[k][i], k = Len(l))
      BY <2>1 DEF ListsHold
    <2>. QED
      BY <2>1, <2>2 DEF EntryHolds
  <1>. QED
    BY <1>2 DEF ListsHold, new

(* An #include that is accepted is put into the last list. *)
LEMMA ListsAdd ==
  ASSUME NEW E, NEW t, NEW name, NEW s, NEW a, NEW l \in Seq(Seq(E)), l # << >>, NEW n \in Nat \ {0},
         ListsHold(t, name, s, a, l, n - 1), Counted(t, name, s, n), a[n] = a[n - 1],
         [path |-> t[n].include.path, line |-> n] \in E
  PROVE  ListsHold(t, name, s, a, Front(l) \o <<Append(Last(l), [path |-> t[n].include.path, line |-> n])>>, n)
  <1>. DEFINE entry == [path |-> t[n].include.path, line |-> n]
              new == Front(l) \o <<Append(Last(l), entry)>>
  <1>1. entry \in E /\ entry.path = t[n].include.path /\ entry.line = n
    OBVIOUS
  <1>. HIDE DEF entry
  <1>2. Added(l, new, entry)
    BY <1>1, SafeAdded
  <1>. HIDE DEF new
  <1>3. ASSUME NEW k \in DOMAIN new, NEW i \in DOMAIN new[k]
        PROVE  EntryHolds(t, name, s, a, n, new[k][i], k = Len(new))
    <2>1. /\ Len(new) = Len(l)
          /\ \/ k = Len(l) /\ new[k][i] = entry
             \/ k \in DOMAIN l /\ i \in DOMAIN l[k] /\ new[k][i] = l[k][i]
      BY <1>2, Zenon DEF Added
    <2>2. CASE k = Len(l) /\ new[k][i] = entry
      BY <1>1, <2>1, <2>2 DEF EntryHolds
    <2>3. CASE k \in DOMAIN l /\ i \in DOMAIN l[k] /\ new[k][i] = l[k][i]
      <3>1. EntryHolds(t, name, s, a, n - 1, new[k][i], k = Len(new))
        BY <2>1, <2>3 DEF ListsHold
      <3>. QED
        BY <3>1 DEF EntryHolds
    <2>. QED
      BY <2>1, <2>2, <2>3
  <1>. QED
    BY <1>3 DEF ListsHold, new, entry

(* Of the header of line n only those before it in the same branch tell. *)
Before(t, name, s, n) ==
  {m \in 1 .. n - 1 : Counted(t, name, s, m) /\ t[m].include.path = t[n].include.path}
ToldRight(t, name, s, a, told, n) ==
  /\ n \notin s /\ t[n].include # NoInclude
  /\ n \in told /\ ~IsForeign(name, t[n].include) /\ LastSlash(t[n].include.path) # 0
  => \E m \in Before(t, name, s, n) : ~Exclusive(a, m, n)

(* It does not depend on the lines after n. *)
LEMMA ToldBefore ==
  ASSUME NEW t, NEW name, NEW s, NEW r, NEW a, NEW told, NEW now, NEW n \in Nat, Agree(s, r, n),
         \A m \in 1 .. n : /\ ToldRight(t, name, s, a, told, m)
                           /\ m \in told <=> m \in now
  PROVE  \A m \in 1 .. n : ToldRight(t, name, r, a, now, m)
  <1>. SUFFICES ASSUME NEW m \in 1 .. n PROVE ToldRight(t, name, r, a, now, m)
    OBVIOUS
  <1>1. \A k \in 1 .. m - 1 : Counted(t, name, s, k) <=> Counted(t, name, r, k)
    <2>1. \A k \in 1 .. m - 1 : k \in 1 .. n
      OBVIOUS
    <2>. QED
      BY <2>1 DEF Agree, Counted
  <1>2. Before(t, name, s, m) = Before(t, name, r, m)
    BY <1>1 DEF Before
  <1>3. m \in s <=> m \in r
    BY DEF Agree
  <1>4. ToldRight(t, name, s, a, told, m) /\ (m \in told <=> m \in now)
    OBVIOUS
  <1>. QED
    BY <1>2, <1>3, <1>4, Zenon DEF ToldRight

(* What the lists hold before a header is enough to tell. *)
LEMMA ListsTell ==
  ASSUME NEW t, NEW name, NEW s, NEW a, NEW state, NEW n \in 1 .. Len(t), Len(t) \in Nat, AroundHolds(t, a),
         ListsHold(t, name, s, a, state.include_list, n - 1), a[n] = a[n - 1]
  PROVE  Listed(state, t[n].include.path) => \E m \in Before(t, name, s, n) : ~Exclusive(a, m, n)
  <1>. DEFINE l == state.include_list
              path == t[n].include.path
  <1>1. Listed(state, path) <=> \E k \in DOMAIN l : InList(l[k], path)
    BY DEF Listed, InList
  <1>2. ListsHold(t, name, s, a, l, n - 1)
    OBVIOUS
  <1>. HIDE DEF l, path
  <1>3. ASSUME Listed(state, path) PROVE \E m \in Before(t, name, s, n) : ~Exclusive(a, m, n)
    <2>1. PICK k \in DOMAIN l : \E i \in DOMAIN l[k] : l[k][i].path = path
      BY <1>1, <1>3 DEF InList
    <2>2. PICK i \in DOMAIN l[k] : l[k][i].path = path
      BY <2>1
    <2>. DEFINE m == l[k][i].line
    <2>3. EntryHolds(t, name, s, a, n - 1, l[k][i], k = Len(l))
      BY <1>2 DEF ListsHold
    <2>4. /\ m \in 1 .. n - 1 /\ Counted(t, name, s, m) /\ t[m].include.path = path
          /\ a[n - 1] # << >> => IF k = Len(l) THEN a[m] = a[n - 1] ELSE m < a[n - 1][1].start
      BY <2>2, <2>3 DEF EntryHolds
    <2>. HIDE DEF m
    <2>5. m \in Before(t, name, s, n)
      BY <2>4 DEF Before, path
    <2>6. ~Exclusive(a, m, n)
      <3>. SUFFICES ASSUME NEW i_ \in DOMAIN a[m] \cap DOMAIN a[n],
                           a[m][i_].start = a[n][i_].start, a[m][i_].branch # a[n][i_].branch
                    PROVE  FALSE
        BY DEF Exclusive
      <3>1. a[m] # << >> /\ a[n] # << >>
        OBVIOUS
      <3>2. m \in 1 .. Len(t)
        BY <2>4
      <3>3. /\ DOMAIN a[m] = {1} /\ a[m][1].start \in 1 .. m
            /\ DOMAIN a[n] = {1} /\ a[n][1].start \in 1 .. n
        BY <3>1, <3>2 DEF AroundHolds
      <3>4. a[m][1].start = a[n][1].start /\ a[m][1].branch # a[n][1].branch
        BY <3>3
      <3>5. IF k = Len(l) THEN a[m] = a[n] ELSE m < a[n][1].start
        BY <2>4, <3>1
      <3>6. CASE k = Len(l)
        BY <3>4, <3>5, <3>6
      <3>7. CASE k # Len(l)
        <4>1. m < a[n][1].start
          BY <3>5, <3>7
        <4>2. a[m][1].start \in 1 .. m /\ m \in Int
          BY <2>4, <3>3
        <4>. QED
          BY <3>4, <4>1, <4>2
      <3>. QED
        BY <3>6, <3>7
    <2>. QED
      BY <2>5, <2>6
  <1>. QED
    BY <1>3 DEF path

(* While every directive has its #if, no conditional is in another and none  *)
(* is left out, the lists hold what was included, and what is told was      *)
(* included twice.                                                           *)
OneByOne == Matched(Around) /\ ~Nested(Around) /\ Directives \cap skipped = {} /\ ~done

DuplicateInv ==
  OneByOne =>
    /\ ListsHold(lines, text.name, skipped, Around, includes.include_list, line - 1)
    /\ LinesOf(errors, "build/include") \subseteq 1 .. line - 1
    /\ \A m \in 1 .. line - 1 : ToldRight(lines, text.name, skipped, Around, LinesOf(errors, "build/include"), m)

(* At the start. *)
LEMMA DuplicateInit == Init => DuplicateInv
  <1>. SUFFICES ASSUME Init PROVE DuplicateInv
    OBVIOUS
  <1>1. line = 1 /\ errors = << >> /\ includes.include_list = << << >> >>
    BY DEF Init, EmptyIncludes
  <1>2. 1 .. line - 1 = {}
    BY <1>1
  <1>3. LinesOf(errors, "build/include") = {}
    BY <1>1 DEF LinesOf
  <1>4. ListsHold(lines, text.name, skipped, Around, includes.include_list, line - 1)
    <2>1. \A k \in DOMAIN << << >> >> : \A i \in DOMAIN << << >> >>[k] : FALSE
      OBVIOUS
    <2>. QED
      BY <1>1, <1>2, <2>1 DEF ListsHold
  <1>. QED
    BY <1>2, <1>3, <1>4 DEF DuplicateInv

(* Over a line. *)
LEMMA DuplicateLine ==
  ASSUME TypeInv, DuplicateInv, ProcessLine
  PROVE  DuplicateInv'
  <1>. DEFINE name == text.name
              a == Around
              s == skipped
              l == includes.include_list
              E == Entries(lines, Included(line))
              told == LinesOf(errors, "build/include")
              now == told'
              path == lines[line].include.path
  <1>1. /\ text' = text /\ done' = done /\ line' = line + 1 /\ line \in 1 .. Len(lines) /\ Len(lines) \in Nat
        /\ line - 1 \in Nat /\ lines \in Seq(Lines) /\ (InAsm \/ Checked) /\ line \notin skipped
    BY ProcessLineIs
  <1>2. lines' = lines
    BY <1>1 DEF lines
  <1>3. Around' = Around /\ Directives' = Directives
    BY <1>2 DEF Around, Directives
  <1>4. Matched(Around)' <=> Matched(Around)
    BY <1>2, <1>3, Zenon DEF Matched
  <1>5. Nested(Around)' <=> Nested(Around)
    BY <1>2, <1>3, Zenon DEF Nested
  <1>6. s \subseteq skipped' /\ Agree(s, skipped', line - 1)
    <2>1. skipped' = s \/ skipped' = s \cup {line}
      BY <1>1 DEF InAsm, Checked
    <2>. QED
      BY <1>1, <2>1 DEF Agree
  <1>7. SUFFICES ASSUME OneByOne'
                 PROVE  /\ ListsHold(lines, name, skipped', a, includes'.include_list, line)
                        /\ now \subseteq 1 .. line
                        /\ \A m \in 1 .. line : ToldRight(lines, name, skipped', a, now, m)
    <2>1. line' - 1 = line
      BY <1>1
    <2>. QED
      BY <1>1, <1>2, <1>3, <2>1, Zenon DEF DuplicateInv
  <1>8. OneByOne /\ Directives \cap skipped' = {}
    BY <1>1, <1>3, <1>4, <1>5, <1>6, <1>7, Zenon DEF OneByOne
  <1>9. /\ ListsHold(lines, name, s, a, l, line - 1)
        /\ told \subseteq 1 .. line - 1
        /\ \A m \in 1 .. line - 1 : ToldRight(lines, name, s, a, told, m)
    BY <1>8 DEF DuplicateInv
  <1>10. DOMAIN lines = 1 .. Len(lines) /\ line \in Nat \ {0} /\ line \in DOMAIN lines
         /\ 1 .. line = (1 .. line - 1) \cup {line} /\ line \notin 1 .. line - 1
    BY <1>1, LenProperties
  <1>11. AroundHolds(lines, a)
    BY <1>1, <1>8, <1>10, FlatAround DEF OneByOne
  <1>12. /\ lines[line].pp = "if" => a[line - 1] = << >> /\ a[line] # << >> /\ a[line][1].start = line
         /\ lines[line].pp = "else" => /\ a[line - 1] # << >> /\ a[line] # << >>
                                       /\ a[line][1].start = a[line - 1][1].start
         /\ lines[line].pp = "endif" => a[line] = << >>
         /\ lines[line].pp \notin {"if", "else", "endif"} => a[line] = a[line - 1]
    BY <1>1, <1>11 DEF AroundHolds
  <1>13. line \notin Directives => lines[line].pp \notin {"if", "else", "endif"} /\ a[line] = a[line - 1]
    BY <1>10, <1>12, DirectiveKinds
  <1>14. l \in Seq(Seq(E)) /\ l # << >>
    <2>1. includes \in IncludeStates(Entries(lines, Included(line - 1)))
      BY DEF TypeInv
    <2>2. Entries(lines, Included(line - 1)) \subseteq E
      BY <1>1, IncludedAfter DEF Entries
    <2>. HIDE DEF E
    <2>3. includes \in IncludeStates(E)
      BY <2>1, <2>2, IncludeStatesMonotonic
    <2>. QED
      BY <2>3 DEF IncludeStates
  <1>. HIDE DEF a, E, told, l, s, name
  <1>15. "build/include" \notin NestingCategories
    BY DEF NestingCategories
  <1>16. ASSUME NEW new, now = told \cup new, new \subseteq {line}
         PROVE  /\ now \subseteq 1 .. line
                /\ \A m \in 1 .. line - 1 : ToldRight(lines, name, skipped', a, now, m)
                /\ line \in now <=> line \in new
    <2>1. \A m \in 1 .. line - 1 : m \in told <=> m \in now
      BY <1>10, <1>16
    <2>2. \A m \in 1 .. line - 1 : ToldRight(lines, name, skipped', a, now, m)
      BY <1>1, <1>6, <1>9, <2>1, ToldBefore
    <2>. QED
      BY <1>9, <1>10, <1>16, <2>2
  <1>17. CASE InAsm
    <2>1. skipped' = s \cup {line} /\ includes' = includes /\ now = told \cup {}
      BY <1>15, <1>17 DEF InAsm, told, s
    <2>2. a[line] = a[line - 1]
      BY <1>8, <1>13, <2>1
    <2>4. ListsHold(lines, name, skipped', a, l, line)
      BY <1>6, <1>9, <1>10, <2>2, ListsSame
    <2>5. ToldRight(lines, name, skipped', a, now, line)
      BY <2>1 DEF ToldRight
    <2>. DEFINE none == {}
    <2>6. now = told \cup none /\ none \subseteq {line}
      BY <2>1
    <2>. HIDE DEF none
    <2>7. now \subseteq 1 .. line /\ \A m \in 1 .. line - 1 : ToldRight(lines, name, skipped', a, now, m)
      BY <1>16, <2>6
    <2>. QED
      BY <1>10, <2>1, <2>4, <2>5, <2>7 DEF l
  <1>18. CASE Checked
    <2>. DEFINE it == CheckLanguage(line)
                include == lines[line].include
                new == LinesOf(it.errors, "build/include")
    <2>1. skipped' = s /\ includes' = it.state /\ now = told \cup new
      <3>1. LinesOf(CheckForFunctionLengths(line).errors, "build/include") = {}
        <4>1. function \in FunctionStates /\ GoodText(lines)
          BY DEF TypeInv
        <4>2. CheckForFunctionLengths(line).errors \in Seq(LengthErrors)
          BY <1>1, <4>1, LengthsTyped
        <4>. QED
          BY <4>2, KindsOfErrors
      <3>. QED
        BY <1>15, <1>18, <3>1 DEF Checked, told, s
    <2>2. line <= Len(lines) /\ Agree(s, s, line - 1)
      BY <1>1 DEF Agree
    <2>3. /\ include = NoInclude => /\ it.errors = << >>
                                    /\ it.state = IF lines[line].pp = "" THEN includes
                                                  ELSE ResetSection(includes, lines[line].pp)
          /\ include # NoInclude => IncludeLineIs(it, E, includes, include, name, line)
      BY <2>2, LanguageTyped DEF E, name
    <2>4. CASE include = NoInclude
      <3>6. it.errors = << >> /\ LinesOf(<< >>, "build/include") = {}
        <4>1. it.errors = << >>
          BY <2>3, <2>4, Zenon
        <4>2. LinesOf(<< >>, "build/include") = {}
          BY DEF LinesOf
        <4>. QED
          BY <4>1, <4>2
      <3>1. new = {} /\ ToldRight(lines, name, s, a, now, line)
        BY <2>4, <3>6, Zenon DEF ToldRight
      <3>2. /\ lines[line].pp = "if" => it.state.include_list = Append(l, << >>)
            /\ lines[line].pp = "else" => it.state.include_list = Append(Front(l), << >>)
            /\ lines[line].pp \notin {"if", "else"} => it.state.include_list = l
        <4>1. it.state = IF lines[line].pp = "" THEN includes ELSE ResetSection(includes, lines[line].pp)
          BY <2>3, <2>4
        <4>. HIDE DEF it
        <4>. QED
          BY <4>1, ResetLists DEF l
      <3>. HIDE DEF it, new
      <3>3. CASE lines[line].pp = "if"
        <4>1. ListsHold(lines, name, s, a, Append(l, << >>), line)
          BY <1>9, <1>10, <1>12, <1>14, <3>3, ListsGrow
        <4>. QED
          BY <1>10, <1>16, <2>1, <3>1, <3>2, <3>3, <4>1
      <3>4. CASE lines[line].pp = "else"
        <4>1. ListsHold(lines, name, s, a, Append(Front(l), << >>), line)
          BY <1>9, <1>10, <1>12, <1>14, <3>4, ListsRestart
        <4>. QED
          BY <1>10, <1>16, <2>1, <3>1, <3>2, <3>4, <4>1
      <3>5. CASE lines[line].pp \notin {"if", "else"}
        <4>1. a[line] = a[line - 1] \/ a[line] = << >>
          BY <1>12, <3>5
        <4>2. ListsHold(lines, name, s, a, l, line)
          BY <1>9, <1>10, <2>2, <4>1, ListsSame
        <4>. QED
          BY <1>10, <1>16, <2>1, <3>1, <3>2, <3>5, <4>2
      <3>. QED
        BY <3>3, <3>4, <3>5
    <2>5. CASE include # NoInclude
      <3>1. IncludeTells(it, includes, include, name, line)
        BY <2>2, <2>5, LanguageTells DEF name
      <3>2. IncludeLineIs(it, E, includes, include, name, line)
        BY <2>3, <2>5
      <3>. HIDE DEF it
      <3>3. a[line] = a[line - 1]
        <4>1. ~IsDirective(lines, line)
          BY <1>1, <2>5 DEF TypeInv, GoodText, IsDirective
        <4>. QED
          BY <1>10, <1>13, <4>1, DirectiveKinds
      <3>4. Duplicate(includes, path) <=> Listed(includes, path)
        <4>1. includes \in IncludeStates(Entries(lines, Included(line - 1)))
          BY DEF TypeInv
        <4>2. Included(line - 1) \in SUBSET Nat
          BY <1>1 DEF Included
        <4>. QED
          BY <4>1, <4>2, DuplicateIs
      <3>5. Listed(includes, path) => \E m \in Before(lines, name, s, line) : ~Exclusive(a, m, line)
        BY <1>1, <1>9, <1>11, <3>3, ListsTell DEF l
      <3>6. /\ new \subseteq {line}
            /\ line \in new => Duplicate(includes, path) \/ IsForeign(name, include) \/ LastSlash(path) = 0
        BY <3>1, Zenon DEF IncludeTells
      <3>. HIDE DEF new
      <3>7. ToldRight(lines, name, s, a, now, line)
        <4>1. line \in now <=> line \in new
          BY <1>16, <2>1, <3>6
        <4>. QED
          BY <3>4, <3>5, <3>6, <4>1, Zenon DEF ToldRight
      <3>8. Counted(lines, name, s, line) <=> ~IsForeign(name, include)
        BY <1>1, <2>5 DEF Counted, s
      <3>9. CASE Rejected(name, includes, include)
        <4>1. it.state = includes
          BY <3>2, <3>9 DEF IncludeLineIs
        <4>3. ListsHold(lines, name, s, a, l, line)
          BY <1>9, <1>10, <2>2, <3>3, ListsSame
        <4>. QED
          BY <1>10, <1>16, <2>1, <3>6, <3>7, <4>1, <4>3 DEF l
      <3>10. CASE ~Rejected(name, includes, include)
        <4>1. it.state.include_list = Front(l) \o <<Append(Last(l), [path |-> path, line |-> line])>>
          BY <3>2, <3>10 DEF IncludeLineIs, l
        <4>2. Counted(lines, name, s, line)
          BY <3>8, <3>10 DEF Rejected
        <4>3. [path |-> path, line |-> line] \in E
          <5>1. line \in Included(line)
            BY <1>1, <1>10, <2>5 DEF Included
          <5>. QED
            BY <5>1 DEF Entries, E
        <4>4. ListsHold(lines, name, s, a, it.state.include_list, line)
          BY <1>9, <1>10, <1>14, <3>3, <4>1, <4>2, <4>3, ListsAdd
        <4>. QED
          BY <1>10, <1>16, <2>1, <3>6, <3>7, <4>4
      <3>. QED
        BY <3>9, <3>10
    <2>. QED
      BY <2>4, <2>5
  <1>. QED
    BY <1>1, <1>17, <1>18

(* The duplicates, as the reference of the property reads them. *)
LEMMA DuplicateReference ==
  ASSUME TypeInv, KeptInv, DuplicateInv
  PROVE  DuplicatesAreReported
  <1>. DEFINE a == Around
              told == Reported("build/include")
              Again(n) == {m \in Included(n - 1) : Path(m) = Path(n) /\ ~Foreign(m)}
  <1>. SUFFICES ASSUME Matched(a), ~done, NEW n \in Included(line - 1)
                PROVE  /\ (\E m \in Again(n) : a[m] = << >>) => n \in told
                       /\ ~Nested(a) /\ Directives \cap skipped = {} =>
                            (n \in told /\ ~Foreign(n) /\ "/" \in ToSet(Path(n)) =>
                               \E m \in Again(n) : ~Exclusive(a, m, n))
    BY Zenon DEF DuplicatesAreReported
  <1>1. ~Nested(a) /\ Directives \cap skipped = {} => OneByOne
    BY DEF OneByOne
  <1>2. told = LinesOf(errors, "build/include")
    BY DEF Reported, LinesOf
  <1>3. n \in 1 .. line - 1 /\ n \notin skipped /\ lines[n].include # NoInclude /\ n \in 1 .. Len(lines)
        /\ lines \in Seq(Lines)
    <2>1. line \in 1 .. Len(lines) + 1 /\ lines \in Seq(Lines) /\ Len(lines) \in Nat
      BY LenProperties DEF TypeInv, GoodText
    <2>2. n \in 1 .. line - 1 /\ n \notin skipped /\ lines[n].include # NoInclude
      BY DEF Included
    <2>. QED
      BY <2>1, <2>2
  <1>4. \A m : Foreign(m) <=> IsForeign(text.name, lines[m].include)
    BY DEF Foreign, IsForeign, Path
  <1>5. Again(n) = Before(lines, text.name, skipped, n)
    BY <1>4 DEF Before, Counted, Included, Path
  <1>6. ASSUME NEW m \in Again(n), a[m] = << >> PROVE n \in told
    <2>1. m \in 1 .. line - 1 /\ n \in m + 1 .. line - 1 /\ Counted(lines, text.name, skipped, m)
          /\ lines[n].include.path = lines[m].include.path
      <3>1. m \in Before(lines, text.name, skipped, n)
        BY <1>5
      <3>2. m \in 1 .. n - 1
        BY <3>1 DEF Before
      <3>3. m \in 1 .. line - 1 /\ n \in m + 1 .. line - 1
        <4>1. line \in 1 .. Len(lines) + 1 /\ Len(lines) \in Nat
          BY LenProperties DEF TypeInv, GoodText
        <4>. QED
          BY <1>3, <3>2, <4>1
      <3>. QED
        BY <3>1, <3>3 DEF Before
    <2>2. KeptHolds(lines, text.name, skipped, a, includes.include_list, LinesOf(errors, "build/include"), line - 1)
      BY DEF KeptInv
    <2>3. n \in LinesOf(errors, "build/include")
      BY <1>3, <1>6, <2>1, <2>2, Zenon DEF KeptHolds
    <2>. QED
      BY <1>2, <2>3
  <1>7. ASSUME OneByOne, n \in told, ~Foreign(n), LastSlash(Path(n)) # 0
        PROVE  \E m \in Again(n) : ~Exclusive(a, m, n)
    <2>1. ToldRight(lines, text.name, skipped, a, LinesOf(errors, "build/include"), n)
      BY <1>3, <1>7 DEF DuplicateInv
    <2>. QED
      BY <1>2, <1>3, <1>4, <1>5, <1>7, <2>1, Zenon DEF ToldRight, Path
  <1>8. "/" \in ToSet(Path(n)) => LastSlash(Path(n)) # 0
    <2>. SUFFICES ASSUME "/" \in ToSet(Path(n)) PROVE LastSlash(Path(n)) # 0
      OBVIOUS
    <2>. DEFINE path == Path(n)
                found == {0} \cup {i \in DOMAIN path : path[i] = "/"}
    <2>1. path \in Seq(STRING)
      <3>1. lines[n] \in Lines
        BY <1>3, ElementOfSeq
      <3>2. lines[n].include \in Headers
        BY <1>3, <3>1 DEF Lines, Headers
      <3>. QED
        BY <3>2 DEF Headers, Path
    <2>2. PICK i \in DOMAIN path : path[i] = "/"
      BY DEF ToSet
    <2>. HIDE DEF path
    <2>3. DOMAIN path = 1 .. Len(path) /\ Len(path) \in Nat
      BY <2>1, LenProperties
    <2>4. found \in SUBSET (0 .. Len(path)) /\ 0 \in found
      BY <2>3
    <2>5. Max(found) \in found /\ \A y \in found : Max(found) >= y
      BY <2>3, <2>4, GreatestFromZero
    <2>6. i \in found /\ i \in 1 .. Len(path)
      BY <2>2, <2>3
    <2>. HIDE DEF found
    <2>7. Max(found) # 0
      <3>1. Max(found) >= i
        BY <2>5, <2>6
      <3>. QED
        BY <2>3, <2>6, <3>1
    <2>. QED
      BY <2>7 DEF LastSlash, found, path
  <1>. QED
    BY <1>1, <1>6, <1>7, <1>8, Zenon

(* A header included again is told when the first stands in no conditional,     *)
(* whatever conditionals, nested or in assembly, stand between; where they are  *)
(* not nested and none is in assembly, only when one before it stands in no     *)
(* other branch of the conditional around it, however far apart they are.       *)
THEOREM HeadersIncludedTwice == Spec => []DuplicatesAreReported
  <1>. DEFINE Inv == TypeInv /\ BranchesInv /\ KeptInv /\ DuplicateInv
  <1>1. Init => Inv
    BY TypeInit, BranchesInit, KeptInit, DuplicateInit
  <1>2. Inv /\ [Next]_vars => Inv'
    <2>. SUFFICES ASSUME Inv, [Next]_vars PROVE Inv'
      OBVIOUS
    <2>1. CASE ProcessLine
      BY <2>1, TypeLine, BranchesLine, KeptLine, DuplicateLine
    <2>2. CASE FinishFile
      <3>1. done'
        BY <2>2, FinishFileIs
      <3>2. DuplicateInv'
        BY <3>1 DEF DuplicateInv, OneByOne
      <3>. QED
        BY <2>2, <3>2, TypeFinish, KeptFinish
    <2>3. CASE UNCHANGED vars
      <3>1. UNCHANGED <<text, line, includes, skipped, errors, done>>
        BY <2>3 DEF vars
      <3>2. lines' = lines
        BY <3>1 DEF lines
      <3>3. Around' = Around /\ Directives' = Directives
        BY <3>2 DEF Around, Directives
      <3>4. OneByOne' <=> OneByOne
        BY <3>1, <3>2, <3>3, Zenon DEF OneByOne, Matched, Nested
      <3>5. DuplicateInv'
        BY <3>1, <3>2, <3>3, <3>4 DEF DuplicateInv, LinesOf
      <3>. QED
        BY <2>3, <3>5, TypeUnchanged, KeptUnchanged
    <2>. QED
      BY <2>1, <2>2, <2>3 DEF Next
  <1>3. Inv => DuplicatesAreReported
    BY DuplicateReference
  <1>. QED
    BY <1>1, <1>2, <1>3, PTL DEF Spec
=============================================================================
