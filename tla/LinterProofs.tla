---------------------------- MODULE LinterProofs ----------------------------
(***************************************************************************)
(* A run of cpplint.py, for any command lines, files and configurations:   *)
(* no filter of a file's configurations is left when the next file begins, *)
(* the counts are those of what was printed, each file has the errors      *)
(* printed that it deserves, whatever the files before it were, and its    *)
(* guard judged.                                                           *)
(* LintInv has the types, the counts and the filters between files;        *)
(* JudgeInv follows the file in hand: what the walk through its            *)
(* directories has found, what the filters then say of each category, and  *)
(* which of the errors told so far are printed.                            *)
(* The settings are folds over lists (options, lines of a CPPLINT.cfg,     *)
(* lists of lists of filters), so are what is shown of a list of errors    *)
(* and what a list of filters decides; the total is a fold over            *)
(* categories.  FoldExists and FoldKeeps of SharedLemmas carry the         *)
(* induction: the function that such a fold is defined by exists, and      *)
(* stays in any set that one turn does not leave.                          *)
(***************************************************************************)
EXTENDS Linter, SharedLemmas

(* One more element at the end of a sequence is one more element of its set. *)
LEMMA AppendedElements ==
  ASSUME NEW S, NEW s \in Seq(S), NEW e
  PROVE  ToSet(Append(s, e)) = ToSet(s) \cup {e}
  <1>. DEFINE t == Append(s, e)
              V == S \cup {e}
  <1>1. s \in Seq(V) /\ e \in V
    BY SeqMonotonic
  <1>. HIDE DEF V
  <1>2. /\ Len(s) \in Nat /\ DOMAIN s = 1 .. Len(s) /\ DOMAIN t = 1 .. Len(t) /\ Len(t) = Len(s) + 1
        /\ \A i \in 1 .. Len(s) : t[i] = s[i]
        /\ t[Len(s) + 1] = e
    BY <1>1, AppendProperties, LenProperties
  <1>. HIDE DEF t
  <1>3. \A i \in DOMAIN t : i \in DOMAIN s \/ i = Len(s) + 1
    BY <1>2
  <1>4. DOMAIN s \subseteq DOMAIN t /\ Len(s) + 1 \in DOMAIN t
    BY <1>2
  <1>5. ToSet(t) = ToSet(s) \cup {e}
    BY <1>2, <1>3, <1>4 DEF ToSet
  <1>. QED
    BY <1>5 DEF t

(* Two sequences, one after the other, hold the elements of both. *)
LEMMA ConcatElements ==
  ASSUME NEW S, NEW a \in Seq(S), NEW b \in Seq(S)
  PROVE  ToSet(a \o b) = ToSet(a) \cup ToSet(b)
  <1>. DEFINE c == a \o b
  <1>1. /\ Len(c) = Len(a) + Len(b)
        /\ \A i \in 1 .. Len(a) + Len(b) : c[i] = IF i <= Len(a) THEN a[i] ELSE b[i - Len(a)]
        /\ Len(a) \in Nat /\ DOMAIN a = 1 .. Len(a) /\ Len(b) \in Nat /\ DOMAIN b = 1 .. Len(b)
        /\ DOMAIN c = 1 .. Len(a) + Len(b)
    BY ConcatProperties, LenProperties
  <1>. HIDE DEF c
  <1>2. ASSUME NEW i \in DOMAIN c PROVE c[i] \in ToSet(a) \cup ToSet(b)
    <2>1. CASE i <= Len(a)
      <3>1. i \in DOMAIN a /\ c[i] = a[i]
        BY <1>1, <2>1
      <3>. QED
        BY <3>1 DEF ToSet
    <2>2. CASE ~(i <= Len(a))
      <3>1. i - Len(a) \in DOMAIN b /\ c[i] = b[i - Len(a)]
        BY <1>1, <2>2
      <3>. QED
        BY <3>1 DEF ToSet
    <2>. QED
      BY <2>1, <2>2
  <1>3. ASSUME NEW i \in DOMAIN a PROVE a[i] \in ToSet(c)
    <2>1. i \in DOMAIN c /\ c[i] = a[i]
      BY <1>1
    <2>. QED
      BY <2>1 DEF ToSet
  <1>4. ASSUME NEW i \in DOMAIN b PROVE b[i] \in ToSet(c)
    <2>1. i + Len(a) \in 1 .. Len(a) + Len(b) /\ ~(i + Len(a) <= Len(a)) /\ (i + Len(a)) - Len(a) = i
      BY <1>1
    <2>2. c[i + Len(a)] = b[i]
      BY <1>1, <2>1
    <2>. QED
      BY <1>1, <2>1, <2>2 DEF ToSet
  <1>5. ToSet(c) = ToSet(a) \cup ToSet(b)
    BY <1>2, <1>3, <1>4 DEF ToSet
  <1>. QED
    BY <1>5 DEF c

(* What is shown of a list of errors is a list of those that should be printed, *)
(* and they are as sure as the verbosity asks for.                              *)
LEMMA ShownProperties ==
  ASSUME NEW S, NEW errors \in Seq(S), NEW suppressions,
         NEW T, T = {e \in S : e.confidence >= verbose_level}
  PROVE  /\ Shown(suppressions, errors) \in Seq(T)
         /\ ToSet(Shown(suppressions, errors)) = {e \in ToSet(errors) : ShouldPrintError(suppressions, e)}
  <1>. DEFINE D == 1 .. Len(errors)
              Add(shown, e) == IF ShouldPrintError(suppressions, e) THEN Append(shown, e) ELSE shown
              step == [vx \in Seq(T) \X D |-> Add(vx[1], errors[vx[2]])]
              F(f) == [s \in SUBSET D |-> IF s = {} THEN << >> ELSE Add(f[s \ {Max(s)}], errors[Max(s)])]
              g == CHOOSE f : f = F(f)
              Of(s) == {errors[i] : i \in {j \in s : ShouldPrintError(suppressions, errors[j])}}
              Good == {s \in SUBSET D : g[s] \in Seq(T) /\ ToSet(g[s]) = Of(s)}
  <1>0. DOMAIN errors = D /\ Len(errors) \in Nat /\ \A i \in D : errors[i] \in S
    BY LenProperties, ElementOfSeq
  <1>6. Picks(D)
    BY <1>0, GreatestPicks
  <1>. HIDE DEF D
  <1>1. Shown(suppressions, errors) = g[D]
    BY <1>0 DEF Shown, FoldLeft, MapThenFoldSet
  <1>2. \A v \in Seq(T), i \in D : Add(v, errors[i]) \in Seq(T)
    BY <1>0, AppendProperties DEF ShouldPrintError
  <1>7. \A v \in Seq(T), i \in D :
          ToSet(Add(v, errors[i])) =
            ToSet(v) \cup (IF ShouldPrintError(suppressions, errors[i]) THEN {errors[i]} ELSE {})
    BY AppendedElements
  <1>. HIDE DEF Add
  <1>3. \E f \in [SUBSET D -> Seq(T)] : f = F(f)
    <2>1. step \in [Seq(T) \X D -> Seq(T)]
      BY <1>2
    <2>2. \A v \in Seq(T), i \in D : step[<<v, i>>] = Add(v, errors[i])
      OBVIOUS
    <2>3. << >> \in Seq(T)
      OBVIOUS
    <2>. HIDE DEF step
    <2>4. Foldable(D, Seq(T), << >>, Greatest(D), step)
      BY <1>0, <2>1, <2>3, <1>6 DEF Foldable, Picks
    <2>5. PICK f : IsFold(f, D, Seq(T), << >>, Greatest(D), step)
      BY <2>4, FoldExists DEF HasFold
    <2>6. \A s \in SUBSET D : s # {} =>
            step[<<f[s \ {Max(s)}], Max(s)>>] = Add(f[s \ {Max(s)}], errors[Max(s)])
      BY <1>6, <2>2, <2>5 DEF IsFold, Picks
    <2>7. f = F(f)
      <3>1. f = [s \in SUBSET D |-> f[s]]
        BY <2>5 DEF IsFold
      <3>2. \A s \in SUBSET D : f[s] = IF s = {} THEN << >> ELSE Add(f[s \ {Max(s)}], errors[Max(s)])
        <4>1. ASSUME NEW s \in SUBSET D
              PROVE  f[s] = IF s = {} THEN << >> ELSE step[<<f[s \ {Max(s)}], Max(s)>>]
          BY <1>6, <2>5, Zenon DEF IsFold, Picks
        <4>. QED
          BY <2>6, <4>1, Zenon
      <3>. QED
        BY <3>1, <3>2, Zenon
    <2>. QED
      BY <2>5, <2>7, Zenon DEF IsFold
  <1>4. g = F(g)
    BY <1>3, Zenon
  <1>. HIDE DEF g
  <1>5. D \in Good
    <2>1. {} \in Good
      <3>1. g[{}] = << >>
        BY <1>4
      <3>2. ToSet(<< >>) = {} /\ Of({}) = {}
        BY DEF ToSet
      <3>. QED
        BY <3>1, <3>2, EmptySeq
    <2>2. ASSUME NEW s \in SUBSET D, s # {}, s \ {Max(s)} \in Good PROVE s \in Good
      <3>1. g[s] = Add(g[s \ {Max(s)}], errors[Max(s)]) /\ Max(s) \in D /\ Max(s) \in s
        BY <1>4, <1>6, <2>2 DEF Picks
      <3>2. g[s \ {Max(s)}] \in Seq(T) /\ ToSet(g[s \ {Max(s)}]) = Of(s \ {Max(s)})
        BY <2>2
      <3>3. Of(s) = Of(s \ {Max(s)})
                      \cup (IF ShouldPrintError(suppressions, errors[Max(s)]) THEN {errors[Max(s)]} ELSE {})
        <4>. DEFINE m == Max(s)
        <4>1. m \in s
          BY <3>1
        <4>. HIDE DEF m
        <4>2. Of(s) = Of(s \ {m}) \cup (IF ShouldPrintError(suppressions, errors[m]) THEN {errors[m]} ELSE {})
          BY <4>1
        <4>. QED
          BY <4>2 DEF m
      <3>. QED
        <4>. DEFINE e == errors[Max(s)]
                    before == g[s \ {Max(s)}]
        <4>1. Add(before, e) \in Seq(T)
          BY <1>2, <3>1, <3>2
        <4>2. ToSet(Add(before, e)) = ToSet(before) \cup (IF ShouldPrintError(suppressions, e) THEN {e} ELSE {})
          BY <1>7, <3>1, <3>2, Zenon
        <4>3. g[s] \in Seq(T) /\ ToSet(g[s]) = Of(s)
          BY <3>1, <3>2, <3>3, <4>1, <4>2, Zenon
        <4>. QED
          BY <2>2, <4>3
    <2>. HIDE DEF Good
    <2>3. Kept(D, Greatest(D), Good)
      BY <1>6, <2>1, <2>2 DEF Kept, Picks
    <2>. QED
      BY <2>3, FoldKeeps
  <1>8. Of(D) = {e \in ToSet(errors) : ShouldPrintError(suppressions, e)}
    BY <1>0 DEF ToSet
  <1>. QED
    BY <1>1, <1>5, <1>8

-----------------------------------------------------------------------------
(* What an option or a line of a configuration leaves. *)
Parsed ==
  [status : {-1, 0, 1}, verbose_level : Int, filters : Seq(Filters),
   counting : {"total", "toplevel", "detailed"}, line_length : Int,
   valid_extensions : {Initially.valid_extensions} \cup {o.val : o \in ToSet(command.opts)}]

(* One option of the command line leaves settings that have their types. *)
LEMMA OptionTyped ==
  ASSUME NEW s \in Parsed, NEW o \in ToSet(command.opts), Takes(o)
  PROVE  Option(s, o) \in Parsed
  <1>. USE DEF Parsed
  <1>1. CASE s.status # -1
    BY <1>1 DEF Option
  <1>. SUFFICES ASSUME ~(s.status # -1) PROVE Option(s, o) \in Parsed
    BY <1>1
  <1>2. CASE o.name \in {"help", "malformed"}
    BY <1>2 DEF Option
  <1>3. CASE o.name = "filter"
    BY <1>3 DEF Option, Takes
  <1>4. CASE o.name = "verbose"
    BY <1>4 DEF Option, Takes
  <1>5. CASE o.name = "counting"
    BY <1>5 DEF Option, Takes
  <1>6. CASE o.name = "linelength"
    BY <1>6 DEF Option, Takes
  <1>7. CASE o.name = "extensions"
    BY <1>7 DEF Option
  <1>8. CASE o.name \notin {"help", "malformed", "filter", "verbose", "counting", "linelength", "extensions"}
    BY <1>8 DEF Option
  <1>. QED
    BY <1>2, <1>3, <1>4, <1>5, <1>6, <1>7, <1>8

(* So do all of them, from the first to the last. *)
LEMMA OptionsTyped ==
  ASSUME command \in Commands
  PROVE  FoldLeft(Option, Initially, command.opts) \in Parsed
  <1>. DEFINE opts == command.opts
              D == 1 .. Len(opts)
              step == [vx \in Parsed \X D |-> Option(vx[1], opts[vx[2]])]
              F(f) == [s \in SUBSET D |-> IF s = {} THEN Initially ELSE Option(f[s \ {Max(s)}], opts[Max(s)])]
              g == CHOOSE f : f = F(f)
              Good == {s \in SUBSET D : g[s] \in Parsed}
  <1>0. DOMAIN opts = D /\ Len(opts) \in Nat /\ \A i \in D : opts[i] \in ToSet(opts) /\ Takes(opts[i])
    BY CommandsAssumption, LenProperties, ElementOfSeq
  <1>1. Picks(D)
    BY <1>0, GreatestPicks
  <1>. HIDE DEF D
  <1>2. FoldLeft(Option, Initially, command.opts) = g[D]
    BY <1>0 DEF FoldLeft, MapThenFoldSet
  <1>3. Initially \in Parsed
    BY EmptySeq DEF Initially, Parsed
  <1>4. \A v \in Parsed, i \in D : Option(v, opts[i]) \in Parsed
    BY <1>0, OptionTyped
  <1>5. \E f \in [SUBSET D -> Parsed] : f = F(f)
    <2>1. step \in [Parsed \X D -> Parsed]
      BY <1>4
    <2>2. \A v \in Parsed, i \in D : step[<<v, i>>] = Option(v, opts[i])
      OBVIOUS
    <2>. HIDE DEF step
    <2>3. Foldable(D, Parsed, Initially, Greatest(D), step)
      BY <1>1, <1>3, <2>1 DEF Foldable, Picks
    <2>4. PICK f : IsFold(f, D, Parsed, Initially, Greatest(D), step)
      BY <2>3, FoldExists DEF HasFold
    <2>5. \A s \in SUBSET D : s # {} =>
            step[<<f[s \ {Max(s)}], Max(s)>>] = Option(f[s \ {Max(s)}], opts[Max(s)])
      BY <1>1, <2>2, <2>4 DEF IsFold, Picks
    <2>6. f = F(f)
      <3>1. f = [s \in SUBSET D |-> f[s]]
        BY <2>4 DEF IsFold
      <3>2. \A s \in SUBSET D :
              f[s] = IF s = {} THEN Initially ELSE Option(f[s \ {Max(s)}], opts[Max(s)])
        <4>1. ASSUME NEW s \in SUBSET D
              PROVE  f[s] = IF s = {} THEN Initially ELSE step[<<f[s \ {Max(s)}], Max(s)>>]
          BY <1>1, <2>4, Zenon DEF IsFold, Picks
        <4>. QED
          BY <2>5, <4>1, Zenon
      <3>. QED
        BY <3>1, <3>2, Zenon
    <2>. QED
      BY <2>4, <2>6, Zenon DEF IsFold
  <1>6. g = F(g)
    BY <1>5, Zenon
  <1>. HIDE DEF g
  <1>7. D \in Good
    <2>1. {} \in Good
      <3>1. g[{}] = Initially
        BY <1>6
      <3>. QED
        BY <1>3, <3>1
    <2>2. ASSUME NEW s \in SUBSET D, s # {}, s \ {Max(s)} \in Good PROVE s \in Good
      <3>1. g[s] = Option(g[s \ {Max(s)}], opts[Max(s)]) /\ Max(s) \in D
        BY <1>1, <1>6, <2>2 DEF Picks
      <3>2. g[s \ {Max(s)}] \in Parsed
        BY <2>2
      <3>. QED
        BY <1>4, <3>1, <3>2
    <2>. HIDE DEF Good
    <2>3. Kept(D, Greatest(D), Good)
      BY <1>1, <2>1, <2>2 DEF Kept, Picks
    <2>. QED
      BY <2>3, FoldKeeps
  <1>. QED
    BY <1>2, <1>7

(* So do the arguments; a run that goes on has signed filters and a file. *)
LEMMA ArgumentsTyped ==
  ASSUME command \in Commands
  PROVE  /\ Arguments \in Parsed
         /\ Arguments.status = -1 => HasSign(Arguments.filters) /\ filenames # << >>
  <1>. DEFINE s == FoldLeft(Option, Initially, command.opts)
  <1>1. s \in Parsed
    BY OptionsTyped
  <1>. HIDE DEF s
  <1>2. Arguments = IF s.status = -1 /\ (filenames = << >> \/ ~HasSign(s.filters))
                    THEN [s EXCEPT !.status = 1] ELSE s
    BY DEF Arguments, s
  <1>3. CASE s.status = -1 /\ (filenames = << >> \/ ~HasSign(s.filters))
    <2>1. Arguments = [s EXCEPT !.status = 1]
      BY <1>2, <1>3
    <2>. QED
      BY <1>1, <2>1 DEF Parsed
  <1>4. CASE ~(s.status = -1 /\ (filenames = << >> \/ ~HasSign(s.filters)))
    BY <1>1, <1>2, <1>4
  <1>. QED
    BY <1>3, <1>4

Overridden ==
  [keep_looking : BOOLEAN, cfg_filters : Seq(Seq(Filters)), line_length : Int, excluded : BOOLEAN]

(* One line of a CPPLINT.cfg leaves settings that have their types. *)
LEMMA ConfigLineTyped ==
  ASSUME NEW c \in Overridden, NEW base, NEW l, Takes(l)
  PROVE  ConfigLine(base, c, l) \in Overridden
  <1>. USE DEF Overridden
  <1>1. CASE c.excluded
    BY <1>1 DEF ConfigLine
  <1>. SUFFICES ASSUME ~c.excluded PROVE ConfigLine(base, c, l) \in Overridden
    BY <1>1
  <1>2. CASE l.name = "set_noparent"
    BY <1>2 DEF ConfigLine
  <1>3. CASE l.name = "filter"
    <2>1. l.val \in Seq(Filters)
      BY <1>3 DEF Takes
    <2>2. Append(c.cfg_filters, l.val) \in Seq(Seq(Filters))
      BY <2>1, AppendProperties
    <2>. QED
      BY <1>3, <2>2 DEF ConfigLine
  <1>4. CASE l.name = "exclude_files"
    <2>. DEFINE b == base \in l.val
    <2>1. b \in BOOLEAN
      OBVIOUS
    <2>2. ConfigLine(base, c, l) = [c EXCEPT !.excluded = b]
      BY <1>4 DEF ConfigLine
    <2>. HIDE DEF b
    <2>. QED
      BY <2>1, <2>2
  <1>5. CASE l.name = "linelength"
    BY <1>5 DEF ConfigLine, Takes
  <1>6. CASE l.name \notin {"set_noparent", "filter", "exclude_files", "linelength"}
    BY <1>6 DEF ConfigLine
  <1>. QED
    BY <1>2, <1>3, <1>4, <1>5, <1>6

(* So does a whole CPPLINT.cfg. *)
LEMMA ReadConfigTyped ==
  ASSUME NEW base, NEW S, NEW lines \in Seq(S), \A l \in S : Takes(l),
         cfg_filters \in Seq(Seq(Filters)), line_length \in Int
  PROVE  ReadConfig(base, lines) \in Overridden
  <1>. DEFINE D == 1 .. Len(lines)
              start == [keep_looking |-> TRUE, cfg_filters |-> cfg_filters,
                        line_length |-> line_length, excluded |-> FALSE]
              Line(c, l) == ConfigLine(base, c, l)
              step == [vx \in Overridden \X D |-> Line(vx[1], lines[vx[2]])]
              F(f) == [s \in SUBSET D |-> IF s = {} THEN start ELSE Line(f[s \ {Max(s)}], lines[Max(s)])]
              g == CHOOSE f : f = F(f)
              Good == {s \in SUBSET D : g[s] \in Overridden}
  <1>0. DOMAIN lines = D /\ Len(lines) \in Nat /\ \A i \in D : Takes(lines[i])
    BY LenProperties, ElementOfSeq
  <1>1. Picks(D)
    BY <1>0, GreatestPicks
  <1>. HIDE DEF D
  <1>2. ReadConfig(base, lines) = g[D]
    BY <1>0 DEF ReadConfig, FoldLeft, MapThenFoldSet
  <1>3. start \in Overridden
    BY DEF Overridden
  <1>4. \A v \in Overridden, i \in D : Line(v, lines[i]) \in Overridden
    BY <1>0, ConfigLineTyped
  <1>. HIDE DEF start, Line
  <1>5. \E f \in [SUBSET D -> Overridden] : f = F(f)
    <2>1. step \in [Overridden \X D -> Overridden]
      BY <1>4
    <2>2. \A v \in Overridden, i \in D : step[<<v, i>>] = Line(v, lines[i])
      OBVIOUS
    <2>. HIDE DEF step
    <2>3. Foldable(D, Overridden, start, Greatest(D), step)
      BY <1>1, <1>3, <2>1 DEF Foldable, Picks
    <2>4. PICK f : IsFold(f, D, Overridden, start, Greatest(D), step)
      BY <2>3, FoldExists DEF HasFold
    <2>5. \A s \in SUBSET D : s # {} =>
            step[<<f[s \ {Max(s)}], Max(s)>>] = Line(f[s \ {Max(s)}], lines[Max(s)])
      BY <1>1, <2>2, <2>4 DEF IsFold, Picks
    <2>6. f = F(f)
      <3>1. f = [s \in SUBSET D |-> f[s]]
        BY <2>4 DEF IsFold
      <3>2. \A s \in SUBSET D :
              f[s] = IF s = {} THEN start ELSE Line(f[s \ {Max(s)}], lines[Max(s)])
        <4>1. ASSUME NEW s \in SUBSET D
              PROVE  f[s] = IF s = {} THEN start ELSE step[<<f[s \ {Max(s)}], Max(s)>>]
          BY <1>1, <2>4, Zenon DEF IsFold, Picks
        <4>. QED
          BY <2>5, <4>1, Zenon
      <3>. QED
        BY <3>1, <3>2, Zenon
    <2>. QED
      BY <2>4, <2>6, Zenon DEF IsFold
  <1>6. g = F(g)
    BY <1>5, Zenon
  <1>. HIDE DEF g
  <1>7. D \in Good
    <2>1. {} \in Good
      <3>1. g[{}] = start
        BY <1>6
      <3>. QED
        BY <1>3, <3>1
    <2>2. ASSUME NEW s \in SUBSET D, s # {}, s \ {Max(s)} \in Good PROVE s \in Good
      <3>1. g[s] = Line(g[s \ {Max(s)}], lines[Max(s)]) /\ Max(s) \in D
        BY <1>1, <1>6, <2>2 DEF Picks
      <3>2. g[s \ {Max(s)}] \in Overridden
        BY <2>2
      <3>. QED
        BY <1>4, <3>1, <3>2
    <2>. HIDE DEF Good
    <2>3. Kept(D, Greatest(D), Good)
      BY <1>1, <2>1, <2>2 DEF Kept, Picks
    <2>. QED
      BY <2>3, FoldKeeps
  <1>. QED
    BY <1>2, <1>7

-----------------------------------------------------------------------------
(* Sums over the categories. *)
Total(f) == FoldFunction(+, 0, f)

AnyOf(D) == [s \in SUBSET D |-> CHOOSE x \in s : TRUE]

IsTotal(it, D, f) ==
  /\ it \in [SUBSET D -> Int]
  /\ it[{}] = 0
  /\ \A s \in SUBSET D : s # {} => it[s] = f[AnyOf(D)[s]] + it[s \ {AnyOf(D)[s]}]

(* A choice of an element of each set that is not empty. *)
LEMMA AnyPicks ==
  ASSUME NEW D, NEW s \in SUBSET D, s # {}
  PROVE  AnyOf(D)[s] \in s /\ AnyOf(D)[s] \in D /\ s \ {AnyOf(D)[s]} \in SUBSET D
  BY DEF AnyOf

(* Total sums the numbers of a finite set one element at a time. *)
LEMMA TotalIsAFold ==
  ASSUME NEW D, IsFiniteSet(D), NEW f, f \in [D -> Int]
  PROVE  \E it : IsTotal(it, D, f) /\ Total(f) = it[D]
  <1>. DEFINE pick(s) == CHOOSE x \in s : TRUE
              step == [vx \in Int \X D |-> f[vx[2]] + vx[1]]
              F(it) == [s \in SUBSET D |-> IF s = {} THEN 0 ELSE f[pick(s)] + it[s \ {pick(s)}]]
              g == CHOOSE it : it = F(it)
              Good == {s \in SUBSET D : g[s] \in Int}
  <1>0. \A s \in SUBSET D : AnyOf(D)[s] = pick(s)
    BY DEF AnyOf
  <1>. HIDE DEF pick
  <1>1. Total(f) = g[D]
    BY DEF Total, FoldFunction, FoldFunctionOnSet, MapThenFoldSet, pick
  <1>2. \E it : it = F(it)
    <2>1. step \in [Int \X D -> Int] /\ \A v \in Int, x \in D : step[<<v, x>>] = f[x] + v
      OBVIOUS
    <2>. HIDE DEF step
    <2>2. Foldable(D, Int, 0, AnyOf(D), step)
      BY <2>1, AnyPicks DEF Foldable
    <2>3. PICK it : IsFold(it, D, Int, 0, AnyOf(D), step)
      BY <2>2, FoldExists DEF HasFold
    <2>4. \A s \in SUBSET D : it[s] = IF s = {} THEN 0 ELSE f[pick(s)] + it[s \ {pick(s)}]
      <3>1. ASSUME NEW s \in SUBSET D, s # {} PROVE it[s] = f[pick(s)] + it[s \ {pick(s)}]
        <4>1. it[s] = step[<<it[s \ {pick(s)}], pick(s)>>]
          BY <1>0, <2>3, <3>1 DEF IsFold
        <4>2. pick(s) \in D /\ it[s \ {pick(s)}] \in Int
          BY <1>0, <2>3, <3>1, AnyPicks DEF IsFold
        <4>. QED
          BY <2>1, <4>1, <4>2
      <3>2. it[{}] = 0
        BY <2>3 DEF IsFold
      <3>. QED
        BY <3>1, <3>2
    <2>5. it = F(it)
      <3>1. it = [s \in SUBSET D |-> it[s]]
        BY <2>3 DEF IsFold
      <3>. QED
        BY <2>4, <3>1, Zenon
    <2>. QED
      BY <2>5
  <1>3. g = F(g)
    BY <1>2, Zenon
  <1>. HIDE DEF g
  <1>4. /\ g[{}] = 0
        /\ \A s \in SUBSET D : s # {} => g[s] = f[AnyOf(D)[s]] + g[s \ {AnyOf(D)[s]}]
    BY <1>0, <1>3
  <1>5. \A s \in SUBSET D : g[s] \in Int
    <2>. DEFINE Typed(s) == \A r \in SUBSET s : g[r] \in Int
    <2>1. SUFFICES ASSUME NEW E \in SUBSET D PROVE g[E] \in Int
      OBVIOUS
    <2>. DEFINE Fine == {s \in SUBSET E : g[s] \in Int}
    <2>2. {} \in Fine
      BY <1>4
    <2>3. \A s \in SUBSET E : s # {} => AnyOf(D)[s] \in s
      BY AnyPicks
    <2>4. ASSUME NEW s \in SUBSET E, s # {}, s \ {AnyOf(D)[s]} \in Fine PROVE s \in Fine
      <3>1. f[AnyOf(D)[s]] \in Int
        BY <2>4, AnyPicks
      <3>2. g[s] = f[AnyOf(D)[s]] + g[s \ {AnyOf(D)[s]}] /\ g[s \ {AnyOf(D)[s]}] \in Int
        BY <1>4, <2>4
      <3>. QED
        BY <3>1, <3>2
    <2>. HIDE DEF Fine
    <2>5. Kept(E, AnyOf(D), Fine)
      BY <2>2, <2>3, <2>4, FS_Subset DEF Kept
    <2>6. E \in Fine
      BY <2>5, FoldKeeps
    <2>. QED
      BY <2>6 DEF Fine
  <1>6. IsTotal(g, D, f)
    <2>1. g = [s \in SUBSET D |-> g[s]]
      BY <1>3
    <2>. QED
      BY <1>4, <1>5, <2>1 DEF IsTotal
  <1>. QED
    BY <1>1, <1>6

Plus(f, h, D) == [c \in D |-> f[c] + h[c]]

(* The total of sums is the sum of the totals. *)
LEMMA TotalAdds ==
  ASSUME NEW D, IsFiniteSet(D), NEW f, f \in [D -> Int], NEW h, h \in [D -> Int]
  PROVE  Total(Plus(f, h, D)) = Total(f) + Total(h)
  <1>. DEFINE e == Plus(f, h, D)
  <1>1. e \in [D -> Int] /\ \A c \in D : e[c] = f[c] + h[c]
    BY DEF Plus
  <1>. HIDE DEF e
  <1>2. PICK i : IsTotal(i, D, f) /\ Total(f) = i[D]
    BY TotalIsAFold
  <1>3. PICK j : IsTotal(j, D, h) /\ Total(h) = j[D]
    BY TotalIsAFold
  <1>4. PICK k : IsTotal(k, D, e) /\ Total(e) = k[D]
    BY <1>1, TotalIsAFold
  <1>. DEFINE Good == {s \in SUBSET D : k[s] = i[s] + j[s]}
  <1>5. {} \in Good
    BY <1>2, <1>3, <1>4 DEF IsTotal
  <1>6. ASSUME NEW s \in SUBSET D, s # {}, s \ {AnyOf(D)[s]} \in Good PROVE s \in Good
    <2>. DEFINE x == AnyOf(D)[s]
                r == s \ {x}
    <2>1. x \in D /\ r \in SUBSET D
      BY <1>6, AnyPicks
    <2>2. i[s] = f[x] + i[r] /\ j[s] = h[x] + j[r] /\ k[s] = e[x] + k[r]
      BY <1>2, <1>3, <1>4, <1>6 DEF IsTotal
    <2>3. i[r] \in Int /\ j[r] \in Int /\ f[x] \in Int /\ h[x] \in Int
      BY <1>2, <1>3, <2>1 DEF IsTotal
    <2>4. k[r] = i[r] + j[r]
      BY <1>6
    <2>5. e[x] = f[x] + h[x]
      BY <1>1, <2>1
    <2>. HIDE DEF x, r
    <2>6. k[s] = i[s] + j[s]
      BY <2>2, <2>3, <2>4, <2>5
    <2>. QED
      BY <2>6
  <1>. HIDE DEF Good
  <1>7. Kept(D, AnyOf(D), Good)
    BY <1>5, <1>6, AnyPicks DEF Kept
  <1>8. D \in Good
    BY <1>7, FoldKeeps
  <1>. QED
    BY <1>2, <1>3, <1>4, <1>8 DEF Good, e

(* The total of a function that is 1 at one element. *)
LEMMA TotalOfOne ==
  ASSUME NEW D, IsFiniteSet(D), NEW d, NEW e, e = [c \in D |-> IF c = d THEN 1 ELSE 0]
  PROVE  Total(e) = IF d \in D THEN 1 ELSE 0
  <1>1. e \in [D -> Int]
    OBVIOUS
  <1>2. PICK k : IsTotal(k, D, e) /\ Total(e) = k[D]
    BY <1>1, TotalIsAFold
  <1>. DEFINE Good == {s \in SUBSET D : k[s] = IF d \in s THEN 1 ELSE 0}
  <1>3. {} \in Good
    BY <1>2 DEF IsTotal
  <1>4. ASSUME NEW s \in SUBSET D, s # {}, s \ {AnyOf(D)[s]} \in Good PROVE s \in Good
    <2>. DEFINE x == AnyOf(D)[s]
                r == s \ {x}
    <2>1. x \in D /\ x \in s /\ r \in SUBSET D
      BY <1>4, AnyPicks
    <2>2. k[s] = e[x] + k[r]
      BY <1>2, <1>4 DEF IsTotal
    <2>3. k[r] = IF d \in r THEN 1 ELSE 0
      BY <1>4
    <2>4. e[x] = IF x = d THEN 1 ELSE 0
      BY <2>1
    <2>5. d \in r <=> d \in s /\ x # d
      OBVIOUS
    <2>. HIDE DEF x, r
    <2>6. k[s] = IF d \in s THEN 1 ELSE 0
      BY <2>1, <2>2, <2>3, <2>4, <2>5
    <2>. QED
      BY <2>6
  <1>. HIDE DEF Good
  <1>5. Kept(D, AnyOf(D), Good)
    BY <1>3, <1>4, AnyPicks DEF Kept
  <1>6. D \in Good
    BY <1>5, FoldKeeps
  <1>. QED
    BY <1>2, <1>6 DEF Good

(* The total of zeros. *)
LEMMA TotalOfNone ==
  ASSUME NEW D, IsFiniteSet(D)
  PROVE  Total([c \in D |-> 0]) = 0
  <1>1. PICK d : d \notin D
    <2>1. {x \in D : x \notin x} \notin D
      OBVIOUS
    <2>. QED
      BY <2>1
  <1>2. [c \in D |-> 0] = [c \in D |-> IF c = d THEN 1 ELSE 0]
    BY <1>1
  <1>. QED
    BY <1>1, <1>2, TotalOfOne

(* The numbers of places that hold each value make the number of places. *)
Tally(key, m, D) == [c \in D |-> Cardinality({i \in 1 .. m : key[i] = c})]

(* Counted by their keys, n things are n in all. *)
LEMMA HitsTotal ==
  ASSUME NEW D, IsFiniteSet(D), NEW n \in Nat, NEW key, key \in [1 .. n -> D]
  PROVE  Total(Tally(key, n, D)) = n /\ Tally(key, n, D) \in [D -> Nat]
  <1>. DEFINE Summed(m) == Total(Tally(key, m, D)) = m
              P == {m \in Nat : m <= n => Summed(m)}
  <1>0. ASSUME NEW m \in Nat, NEW c
        PROVE  IsFiniteSet({i \in 1 .. m : key[i] = c}) /\ Cardinality({i \in 1 .. m : key[i] = c}) \in Nat
    <2>1. IsFiniteSet(1 .. m)
      BY FS_Interval
    <2>2. IsFiniteSet({i \in 1 .. m : key[i] = c})
      BY <2>1, FS_Subset
    <2>. QED
      BY <2>2, FS_CardinalityType
  <1>1. \A m \in Nat : Tally(key, m, D) \in [D -> Nat]
    BY <1>0 DEF Tally
  <1>2. Summed(0)
    <2>1. \A c \in D : {i \in 1 .. 0 : key[i] = c} = {}
      OBVIOUS
    <2>2. \A c \in D : Cardinality({i \in 1 .. 0 : key[i] = c}) = 0
      BY <2>1, FS_EmptySet
    <2>3. Tally(key, 0, D) = [c \in D |-> 0]
      BY <2>2 DEF Tally
    <2>. QED
      BY <2>3, TotalOfNone
  <1>3. ASSUME NEW m \in Nat, m \in P PROVE m + 1 \in P
    <2>1. ASSUME m + 1 <= n PROVE Summed(m + 1)
      <3>. DEFINE old == Tally(key, m, D)
                  one == [c \in D |-> IF c = key[m + 1] THEN 1 ELSE 0]
      <3>1. Summed(m)
        <4>. HIDE DEF Summed
        <4>. QED
          BY <1>3, <2>1
      <3>2. key[m + 1] \in D
        BY <2>1
      <3>3. Total(one) = 1
        BY <3>2, TotalOfOne
      <3>4. ASSUME NEW c \in D
            PROVE  Cardinality({i \in 1 .. m + 1 : key[i] = c}) = old[c] + one[c]
        <4>. DEFINE A == {i \in 1 .. m : key[i] = c}
                    B == {i \in 1 .. m + 1 : key[i] = c}
        <4>1. IsFiniteSet(A) /\ Cardinality(A) \in Nat /\ m + 1 \notin A
          <5>1. m + 1 \notin 1 .. m
            OBVIOUS
          <5>. QED
            BY <1>0, <5>1
        <4>2. CASE key[m + 1] = c
          <5>1. B = A \cup {m + 1}
            BY <4>2
          <5>2. Cardinality(A \cup {m + 1}) = Cardinality(A) + 1
            BY <4>1, FS_AddElement
          <5>3. old[c] = Cardinality(A) /\ one[c] = 1
            BY <4>2 DEF Tally
          <5>. HIDE DEF old, one, A, B
          <5>4. Cardinality(B) = old[c] + one[c]
            BY <5>1, <5>2, <5>3 DEF A
          <5>. QED
            BY <5>4 DEF B
        <4>3. CASE key[m + 1] # c
          <5>1. B = A
            BY <4>3
          <5>2. old[c] = Cardinality(A) /\ one[c] = 0
            BY <4>3 DEF Tally
          <5>. HIDE DEF old, one, A, B
          <5>3. Cardinality(B) = old[c] + one[c]
            BY <4>1, <5>1, <5>2
          <5>. QED
            BY <5>3 DEF B
        <4>. QED
          BY <4>2, <4>3
      <3>5. Tally(key, m + 1, D) = Plus(old, one, D)
        BY <3>4 DEF Tally, Plus
      <3>6. old \in [D -> Int] /\ one \in [D -> Int]
        BY <1>1
      <3>. HIDE DEF old, one
      <3>7. Total(Tally(key, m + 1, D)) = Total(old) + Total(one)
        BY <3>5, <3>6, TotalAdds
      <3>. QED
        BY <3>1, <3>3, <3>7 DEF old
    <2>. QED
      BY <2>1
  <1>4. Nat \subseteq P
    <2>1. 0 \in P
      BY <1>2
    <2>. HIDE DEF P
    <2>. QED
      BY <1>3, <2>1, SetInduction
  <1>5. Summed(n)
    <2>. HIDE DEF Summed
    <2>. QED
      BY <1>4
  <1>. QED
    BY <1>1, <1>5

-----------------------------------------------------------------------------
(* The counts, by category and in all, are those of the errors printed. *)
Kinds == Categories \cup {Toplevel[d] : d \in Categories}

(* Errors of a known category. *)
Told(S) == \A e \in S : e.category \in Categories /\ e.confidence \in 0 .. 5

AsSevere(ps, least) ==
  \E U : /\ ps \in Seq(U) /\ Told(U)
         /\ \A u \in U : u.confidence >= least

PrintedInv == AsSevere(printed, verbose_level)

CountInv ==
  /\ error_count = Len(printed)
  /\ errors_by_category \in [Kinds -> Nat]
  /\ counting # "total" => Total(errors_by_category) = error_count

(* There are finitely many kinds to count by. *)
LEMMA KindsAreFinite == IsFiniteSet(Kinds)
  <1>. DEFINE f == [d \in Categories |-> Toplevel[d]]
  <1>1. IsFiniteSet({Toplevel[d] : d \in Categories})
    <2>1. f \in Surjection(Categories, {Toplevel[d] : d \in Categories})
      BY DEF Surjection
    <2>. QED
      BY <2>1, CategoriesAssumption, FS_Surjection
  <1>. QED
    BY <1>1, CategoriesAssumption, FS_Union DEF Kinds

(* Error prints what it counts: the core of CountsAddUp. *)
LEMMA ErrorKeeps ==
  ASSUME PrintedInv, CountInv, verbose_level \in Int, counting \in {"total", "toplevel", "detailed"},
         UNCHANGED <<verbose_level, counting>>,
         NEW suppressions, NEW S, Told(S), NEW errors \in Seq(S), Error(suppressions, errors)
  PROVE  PrintedInv' /\ CountInv'
  <1>. DEFINE T == {e \in S : e.confidence >= verbose_level}
              shown == Shown(suppressions, errors)
              n == Len(shown)
              key == [i \in 1 .. n |-> CountedAs(shown[i].category)]
              more == [i \in DOMAIN shown |-> Printed(shown[i])]
  <1>1. shown \in Seq(T)
    BY ShownProperties
  <1>2. n \in Nat /\ DOMAIN shown = 1 .. n /\ \A i \in 1 .. n : shown[i] \in T
    BY <1>1, LenProperties, ElementOfSeq
  <1>3. /\ printed' = printed \o more /\ error_count' = error_count + n
        /\ errors_by_category' =
             IF counting = "total" THEN errors_by_category
             ELSE [c \in DOMAIN errors_by_category |->
                     errors_by_category[c]
                       + Cardinality({i \in DOMAIN shown : CountedAs(shown[i].category) = c})]
    BY DEF Error
  <1>. HIDE DEF shown
  <1>4. PICK U : printed \in Seq(U) /\ Told(U) /\ \A u \in U : u.confidence >= verbose_level
    BY DEF PrintedInv, AsSevere
  <1>. DEFINE V == U \cup {Printed(e) : e \in T}
  <1>5. more \in Seq(V) /\ Len(more) = n
    <2>1. more \in [1 .. n -> V]
      BY <1>2
    <2>. HIDE DEF more, V
    <2>2. more \in Seq(V)
      BY <1>2, <2>1, SeqDef
    <2>3. DOMAIN more = 1 .. n /\ DOMAIN more = 1 .. Len(more) /\ Len(more) \in Nat
      BY <2>1, <2>2, LenProperties
    <2>. QED
      BY <1>2, <2>2, <2>3
  <1>6. printed \in Seq(V)
    BY <1>4, SeqMonotonic
  <1>7. printed' \in Seq(V) /\ Len(printed') = Len(printed) + n
    <2>. HIDE DEF V, more
    <2>1. printed \o more \in Seq(V) /\ Len(printed \o more) = Len(printed) + Len(more)
      BY <1>5, <1>6, ConcatProperties
    <2>. QED
      BY <1>3, <1>5, <2>1
  <1>8. PrintedInv'
    <2>1. \A e \in T : Printed(e).category \in Categories /\ Printed(e).confidence \in 0 .. 5
                       /\ Printed(e).confidence >= verbose_level
      BY DEF Printed, Told
    <2>2. Told(V) /\ \A u \in V : u.confidence >= verbose_level
      BY <1>4, <2>1 DEF Told
    <2>. HIDE DEF V
    <2>3. \A u \in V : u.confidence >= verbose_level'
      BY <2>2
    <2>. QED
      BY <1>7, <2>2, <2>3 DEF PrintedInv, AsSevere
  <1>9. error_count' = Len(printed')
    BY <1>3, <1>7 DEF CountInv
  <1>10. CASE counting = "total"
    BY <1>3, <1>8, <1>9, <1>10 DEF CountInv
  <1>11. CASE counting # "total"
    <2>1. key \in [1 .. n -> Kinds]
      BY <1>2, <1>11 DEF CountedAs, Kinds, Told
    <2>2. \A c : {i \in DOMAIN shown : CountedAs(shown[i].category) = c} = {i \in 1 .. n : key[i] = c}
      BY <1>2
    <2>. DEFINE hits == Tally(key, n, Kinds)
    <2>3. Total(hits) = n /\ hits \in [Kinds -> Nat]
      BY <1>2, <2>1, KindsAreFinite, HitsTotal
    <2>4. errors_by_category' = Plus(errors_by_category, hits, Kinds)
      BY <1>3, <1>11, <2>2 DEF CountInv, Plus, Tally
    <2>. HIDE DEF hits
    <2>5. Total(errors_by_category') = Total(errors_by_category) + Total(hits)
      <3>1. errors_by_category \in [Kinds -> Int] /\ hits \in [Kinds -> Int]
        BY <2>3 DEF CountInv
      <3>. QED
        BY <2>4, <3>1, KindsAreFinite, TotalAdds
    <2>6. errors_by_category' \in [Kinds -> Nat]
      BY <2>3, <2>4 DEF CountInv, Plus
    <2>7. Total(errors_by_category') = error_count'
      BY <1>3, <1>11, <2>3, <2>5 DEF CountInv
    <2>. QED
      BY <1>8, <1>9, <2>6, <2>7 DEF CountInv
  <1>. QED
    BY <1>10, <1>11

-----------------------------------------------------------------------------
(* Filters that all have a sign, put together, all have one. *)
LEMMA SignsAdd ==
  ASSUME NEW a \in Seq(Filters), NEW b \in Seq(Filters)
  PROVE  /\ a \o b \in Seq(Filters)
         /\ HasSign(a) /\ HasSign(b) => HasSign(a \o b)
  <1>1. /\ a \o b \in Seq(Filters) /\ Len(a \o b) = Len(a) + Len(b)
        /\ \A i \in 1 .. Len(a) + Len(b) : (a \o b)[i] = IF i <= Len(a) THEN a[i] ELSE b[i - Len(a)]
    BY ConcatProperties
  <1>2. /\ Len(a) \in Nat /\ DOMAIN a = 1 .. Len(a) /\ Len(b) \in Nat /\ DOMAIN b = 1 .. Len(b)
        /\ DOMAIN (a \o b) = 1 .. Len(a) + Len(b)
    BY <1>1, LenProperties
  <1>3. ASSUME HasSign(a), HasSign(b), NEW i \in DOMAIN (a \o b) PROVE (a \o b)[i].sign # "none"
    <2>1. CASE i <= Len(a)
      BY <1>1, <1>2, <1>3, <2>1 DEF HasSign
    <2>2. CASE ~(i <= Len(a))
      <3>1. i - Len(a) \in DOMAIN b
        BY <1>2, <2>2
      <3>. QED
        BY <1>1, <1>2, <1>3, <2>2, <3>1 DEF HasSign
    <2>. QED
      BY <2>1, <2>2
  <1>. QED
    BY <1>1, <1>3 DEF HasSign

(* The filters a run of CPPLINT.cfg files adds all have a sign if each of its *)
(* lines has.                                                                 *)
LEMMA AllSigned ==
  ASSUME NEW seqs \in Seq(Seq(Filters))
  PROVE  /\ FlattenSeq(seqs) \in Seq(Filters)
         /\ (\A i \in DOMAIN seqs : HasSign(seqs[i])) => HasSign(FlattenSeq(seqs))
  <1>. DEFINE Signed == {f \in Filters : f.sign # "none"}
  <1>1. ASSUME \A i \in DOMAIN seqs : HasSign(seqs[i]) PROVE HasSign(FlattenSeq(seqs))
    <2>1. Len(seqs) \in Nat /\ DOMAIN seqs = 1 .. Len(seqs) /\ seqs \in [1 .. Len(seqs) -> Seq(Filters)]
      BY LenProperties
    <2>2. ASSUME NEW i \in 1 .. Len(seqs) PROVE seqs[i] \in Seq(Signed)
      <3>1. seqs[i] \in Seq(Filters) /\ HasSign(seqs[i])
        BY <1>1, <2>1
      <3>2. Len(seqs[i]) \in Nat /\ seqs[i] \in [1 .. Len(seqs[i]) -> Filters]
            /\ DOMAIN seqs[i] = 1 .. Len(seqs[i])
        BY <3>1, LenProperties
      <3>3. seqs[i] \in [1 .. Len(seqs[i]) -> Signed]
        BY <3>1, <3>2 DEF HasSign
      <3>. QED
        BY <3>2, <3>3, SeqDef
    <2>. HIDE DEF Signed
    <2>3. seqs \in [1 .. Len(seqs) -> Seq(Signed)]
      BY <2>1, <2>2
    <2>4. seqs \in Seq(Seq(Signed))
      <3>. DEFINE S == Seq(Signed)
                  m == Len(seqs)
      <3>1. m \in Nat /\ seqs \in [1 .. m -> S]
        BY <2>1, <2>3
      <3>. HIDE DEF S, m
      <3>2. seqs \in Seq(S)
        BY ONLY <3>1, SeqDef
      <3>. QED
        BY <3>2 DEF S
    <2>5. FlattenSeq(seqs) \in Seq(Signed)
      BY <2>4, FlattenTyped
    <2>6. \A i \in DOMAIN FlattenSeq(seqs) : FlattenSeq(seqs)[i] \in Signed
      BY <2>5, LenProperties, ElementOfSeq
    <2>. QED
      BY <2>6 DEF HasSign, Signed
  <1>. QED
    BY <1>1, FlattenTyped

(* The arguments are a function of the command line. *)
LEMMA SameArguments ==
  ASSUME UNCHANGED command
  PROVE  Arguments' = Arguments
  BY DEF Arguments, filenames, FoldLeft, MapThenFoldSet, Option, Initially

InFile == {"config", "open", "guard", "endif", "lines"}

Placed ==
  /\ command \in Commands /\ config \in Configs /\ cfg_filters \in Seq(Seq(Filters))
  /\ HasSign(filters_backup) /\ (pc # "exit" => HasSign(filters))
  /\ pc \in InFile => current <= Len(filenames) /\ filters_backup = DefaultFilters \o Arguments.filters
  /\ FiltersBetweenFiles
  /\ pc \in {"guard", "endif", "lines"} => line >= 1
  /\ pc = "parse" => /\ current = 1 /\ printed = << >>
                     /\ errors_by_category = [c \in Kinds |-> 0] /\ filters_backup = DefaultFilters
  /\ pc = "exit" /\ current > 1 /\ status = 0 => printed = << >> /\ current > Len(filenames)

LintInv == TypeOK /\ PrintedInv /\ CountInv /\ Placed

(* The file being read is one of those of the command line. *)
LEMMA FilesProperties ==
  ASSUME LintInv
  PROVE  /\ filenames \in Seq(DOMAIN Sources) /\ Len(filenames) \in Nat
         /\ pc \in InFile => filename \in DOMAIN Sources
  <1>1. filenames \in Seq(DOMAIN Sources)
    BY CommandsAssumption DEF LintInv, Placed, filenames
  <1>2. Len(filenames) \in Nat
    BY <1>1, LenProperties
  <1>3. ASSUME pc \in InFile PROVE filename \in DOMAIN Sources
    <2>1. current \in 1 .. Len(filenames)
      BY <1>2, <1>3 DEF LintInv, Placed, TypeOK
    <2>. QED
      BY <1>1, <2>1, ElementOfSeq DEF filename
  <1>. QED
    BY <1>1, <1>2, <1>3

-----------------------------------------------------------------------------
(* What an action raises are errors of known categories: a list that holds     *)
(* exactly the errors of a set.                                                *)
Suppressions == [Categories \cup {All} -> SUBSET Nat]

Errors == [line : Nat, category : Categories, confidence : 0 .. 5]

Holds(errors, E) == errors \in Seq(Errors) /\ ToSet(errors) = E

Tells(suppressions, E) ==
  /\ suppressions \in Suppressions
  /\ \E errors : Holds(errors, E) /\ Reported(suppressions, errors)

(* Every error about a line can be told, and so can what the checks find. *)
LEMMA ReportsAreErrors ==
  /\ Told(Errors) /\ Reports \subseteq Errors
  /\ \A n \in Nat, category \in Categories, confidence \in 0 .. 5 : At(n, category, confidence) \in Errors
  BY DEF Told, Errors, Reports, Checks, At

(* Lists of errors: none, one, those of two lists one after the other. *)
LEMMA HoldsNone == Holds(<< >>, {})
  <1>1. ToSet(<< >>) = {}
    BY DEF ToSet
  <1>. QED
    BY <1>1, EmptySeq DEF Holds

(* One error. *)
LEMMA HoldsOne ==
  ASSUME NEW e \in Errors
  PROVE  Holds(<<e>>, {e})
  <1>1. ToSet(<<e>>) = {e}
    BY DEF ToSet
  <1>2. <<e>> \in Seq(Errors)
    OBVIOUS
  <1>. QED
    BY <1>1, <1>2 DEF Holds

(* Two lists. *)
LEMMA HoldsBoth ==
  ASSUME NEW a, NEW b, NEW A, NEW B, Holds(a, A), Holds(b, B)
  PROVE  Holds(a \o b, A \cup B)
  BY ConcatProperties, ConcatElements DEF Holds

(* Lists put together hold what each of them holds. *)
LEMMA HoldsFlat ==
  ASSUME NEW lists \in Seq(Seq(Errors))
  PROVE  /\ FlattenSeq(lists) \in Seq(Errors)
         /\ \A x : x \in ToSet(FlattenSeq(lists)) <=> \E k \in DOMAIN lists : x \in ToSet(lists[k])
  <1>. DEFINE S == Errors
              flat == FlattenSeq(lists)
  <1>1. lists \in Seq(Seq(S))
    OBVIOUS
  <1>. HIDE DEF S
  <1>2. Together(flat, lists, S)
    BY <1>1, FlattenElements
  <1>. HIDE DEF flat
  <1>3. \A x : (\E k \in DOMAIN lists : \E i \in DOMAIN lists[k] : lists[k][i] = x) => x \in S
    BY <1>1, LenProperties, ElementOfSeq
  <1>4. \A i \in DOMAIN flat : flat[i] \in S
    BY <1>2, LenProperties, ElementOfSeq DEF Together
  <1>5. ASSUME NEW x PROVE x \in ToSet(flat) <=> \E k \in DOMAIN lists : x \in ToSet(lists[k])
    <2>1. CASE x \in S
      <3>1. x \in ToSet(flat) <=> \E i \in DOMAIN flat : flat[i] = x
        BY DEF ToSet
      <3>2. \A k \in DOMAIN lists : x \in ToSet(lists[k]) <=> \E i \in DOMAIN lists[k] : lists[k][i] = x
        BY DEF ToSet
      <3>. QED
        BY <1>2, <2>1, <3>1, <3>2, Zenon DEF Together
    <2>2. CASE x \notin S
      BY <1>3, <1>4, <2>2 DEF ToSet
    <2>. QED
      BY <2>1, <2>2
  <1>6. flat \in Seq(Errors)
    BY <1>2 DEF Together, S
  <1>. QED
    BY <1>5, <1>6 DEF flat

(* The reports of a file are such a list. *)
LEMMA HoldsReports ==
  ASSUME NEW s \in Seq(Reports)
  PROVE  Holds(s, ToSet(s))
  BY ReportsAreErrors, SeqMonotonic DEF Holds

(* What a NOLINT comment raises and the lines it suppresses. *)
LEMMA NolintTyped ==
  ASSUME LintInv, filename \in DOMAIN Sources, NEW n \in Nat
  PROVE  /\ Holds(NolintErrors(n), IF Nolint(n).category = Unknown
                                   THEN {At(n, "readability/nolint", 5)} ELSE {})
         /\ ParseNolint(error_suppressions, n) \in Suppressions
         /\ NolintLine(n) \in Nat
  <1>1. At(n, "readability/nolint", 5) \in Errors
    BY CategoriesAssumption, ReportsAreErrors
  <1>2. source.lines \in Seq(Lines)
    BY SourcesAssumption DEF source
  <1>3. Nolint(n).next \in BOOLEAN
    <2>1. CASE n \in 1 .. NumLines
      <3>1. source.lines[n] \in Lines
        BY <1>2, <2>1, ElementOfSeq DEF NumLines
      <3>2. source.lines[n].nolint.next \in BOOLEAN
        BY <3>1 DEF Lines
      <3>. QED
        BY <2>1, <3>2 DEF Nolint
    <2>2. CASE n \notin 1 .. NumLines
      BY <2>2 DEF Nolint, NoComment
    <2>. QED
      BY <2>1, <2>2
  <1>4. NolintLine(n) \in Nat
    BY <1>3 DEF NolintLine
  <1>5. ParseNolint(error_suppressions, n) \in Suppressions
    BY <1>4 DEF ParseNolint, Suppressions, LintInv, TypeOK
  <1>. QED
    BY <1>1, <1>4, <1>5, HoldsNone, HoldsOne DEF NolintErrors

(* What the checks raise on a line. *)
LEMMA RaisedTyped ==
  ASSUME NEW n \in Nat, NEW found \in Seq(Findings)
  PROVE  RaisedOn(n, found) \in Seq(Reports)
  <1>1. Len(found) \in Nat /\ DOMAIN found = 1 .. Len(found)
    BY LenProperties
  <1>2. ASSUME NEW i \in 1 .. Len(found)
        PROVE  At(n + found[i].below, found[i].category, found[i].confidence) \in Reports
    <2>1. found[i] \in Findings
      BY <1>1, ElementOfSeq
    <2>2. /\ found[i].below \in Nat /\ found[i].category \in Checks
          /\ found[i].confidence \in 0 .. 5
      BY <2>1 DEF Findings
    <2>. QED
      BY <2>2 DEF At, Reports
  <1>3. RaisedOn(n, found) \in [1 .. Len(found) -> Reports]
    BY <1>1, <1>2 DEF RaisedOn
  <1>. QED
    BY <1>1, <1>3, SeqDef

(* At the start of a file: what is told of it before its lines are read. *)
LEMMA StartFileTells ==
  ASSUME LintInv, StartFile
  PROVE  Tells(ResetNolintSuppressions, BeforeLines(source))
  <1>. DEFINE copyright == IF source.copyright THEN << >> ELSE <<At(0, "legal/copyright", 5)>>
              unfinished == IF source.unfinished = 0 THEN << >>
                            ELSE <<At(source.unfinished + 1, "readability/multiline_comment", 5)>>
              C == IF source.copyright THEN {} ELSE {At(0, "legal/copyright", 5)}
              U == IF source.unfinished = 0 THEN {}
                   ELSE {At(source.unfinished + 1, "readability/multiline_comment", 5)}
  <1>1. source.unfinished \in Nat
    BY FilesProperties, SourcesAssumption DEF StartFile, InFile, source
  <1>2. /\ At(0, "legal/copyright", 5) \in Errors
        /\ At(source.unfinished + 1, "readability/multiline_comment", 5) \in Errors
    BY <1>1, CategoriesAssumption, ReportsAreErrors
  <1>3. Holds(copyright, C) /\ Holds(unfinished, U)
    BY <1>2, HoldsNone, HoldsOne
  <1>4. Reported(ResetNolintSuppressions, copyright \o unfinished)
    BY DEF StartFile
  <1>5. ResetNolintSuppressions \in Suppressions
    BY DEF ResetNolintSuppressions, Suppressions, LintInv, TypeOK
  <1>6. BeforeLines(source) = C \cup U
    BY Zenon DEF BeforeLines
  <1>. HIDE DEF copyright, unfinished, C, U
  <1>7. Holds(copyright \o unfinished, C \cup U)
    BY <1>3, HoldsBoth
  <1>. QED
    BY <1>4, <1>5, <1>6, <1>7 DEF Tells

(* The NOLINT of a line raises an error if it is of no known category. *)
NolintSet(n) == IF Nolint(n).category = Unknown THEN {At(n, "readability/nolint", 5)} ELSE {}
GuardError(n, confidence) == At(n, "build/header_guard", confidence)

(* Where the words of a header's guard stand. *)
LEMMA GuardLines ==
  ASSUME filename \in DOMAIN Sources
  PROVE  /\ NumLines \in Nat /\ DOMAIN source.lines = 1 .. NumLines
         /\ \A word : /\ LinesWith(word) \in SUBSET (1 .. NumLines)
                      /\ FirstWith(word) \in Nat /\ LastWith(word) \in Nat
                      /\ LinesWith(word) # {} =>
                           FirstWith(word) \in LinesWith(word) /\ LastWith(word) \in LinesWith(word)
                      /\ LinesWith(word) = {} => FirstWith(word) = 0 /\ LastWith(word) = 0
  <1>1. NumLines \in Nat /\ DOMAIN source.lines = 1 .. NumLines
    <2>1. source.lines \in Seq(Lines)
      BY SourcesAssumption DEF source
    <2>. QED
      BY <2>1, LenProperties DEF NumLines
  <1>2. \A word : LinesWith(word) \in SUBSET (1 .. NumLines)
    BY DEF LinesWith
  <1>3. ASSUME NEW word, LinesWith(word) # {}
        PROVE  Min(LinesWith(word)) \in LinesWith(word) /\ Max(LinesWith(word)) \in LinesWith(word)
    BY <1>1, <1>2, <1>3, LeastExists, GreatestExists
  <1>4. \A word : LinesWith(word) # {} =>
          FirstWith(word) \in LinesWith(word) /\ LastWith(word) \in LinesWith(word)
    BY <1>3, Zenon DEF FirstWith, LastWith
  <1>5. \A word : LinesWith(word) = {} => FirstWith(word) = 0 /\ LastWith(word) = 0
    BY Zenon DEF FirstWith, LastWith
  <1>6. \A word : FirstWith(word) \in Nat /\ LastWith(word) \in Nat
    BY <1>1, <1>2, <1>4, <1>5
  <1>. QED
    BY <1>1, <1>2, <1>4, <1>5, <1>6

(* What the first part of the check of the guard raises, and where it goes on. *)
LEMMA GuardTells ==
  ASSUME LintInv, CheckForHeaderGuard, NEW i, i = FirstWith("#ifndef")
  PROVE  \/ GuardSilenced /\ pc' = "lines" /\ Tells(error_suppressions, {})
         \/ ~GuardSilenced /\ NoGuard /\ pc' = "lines" /\ Tells(error_suppressions, {GuardError(0, 5)})
         \/ /\ ~GuardSilenced /\ ~NoGuard /\ pc' = "endif" /\ Guard(i).name = "GUARD_"
            /\ Tells(error_suppressions, {})
         \/ /\ ~GuardSilenced /\ ~NoGuard /\ pc' = "endif" /\ Guard(i).name # "GUARD_"
            /\ \E confidence \in {0, 5} : Tells(ParseNolint(error_suppressions, i),
                                                NolintSet(i) \cup {GuardError(i, confidence)})
  <1>1. filename \in DOMAIN Sources
    BY FilesProperties DEF CheckForHeaderGuard, InFile
  <1>2. i \in Nat
    BY <1>1, GuardLines
  <1>3. error_suppressions \in Suppressions
    BY DEF Suppressions, LintInv, TypeOK
  <1>4. ASSUME NEW n \in Nat, NEW confidence \in {0, 5}
        PROVE  Holds(<<At(n, "build/header_guard", confidence)>>, {GuardError(n, confidence)})
    <2>1. confidence \in 0 .. 5
      OBVIOUS
    <2>2. At(n, "build/header_guard", confidence) \in Errors
      BY <2>1, CategoriesAssumption, ReportsAreErrors
    <2>. QED
      BY <2>2, HoldsOne DEF GuardError
  <1>. DEFINE confidence == IF Guard(i).name = "GUARD__" THEN 0 ELSE 5
  <1>5. \/ GuardSilenced /\ pc' = "lines" /\ Reported(error_suppressions, << >>)
        \/ /\ ~GuardSilenced /\ NoGuard /\ pc' = "lines"
           /\ Reported(error_suppressions, <<At(0, "build/header_guard", 5)>>)
        \/ /\ ~GuardSilenced /\ ~NoGuard /\ pc' = "endif" /\ Guard(i).name = "GUARD_"
           /\ Reported(error_suppressions, << >>)
        \/ /\ ~GuardSilenced /\ ~NoGuard /\ pc' = "endif" /\ Guard(i).name # "GUARD_"
           /\ Reported(ParseNolint(error_suppressions, i),
                       NolintErrors(i) \o <<At(i, "build/header_guard", confidence)>>)
    BY Zenon DEF CheckForHeaderGuard, GetHeaderGuardCPPVariable
  <1>6. confidence \in {0, 5}
    OBVIOUS
  <1>. HIDE DEF confidence
  <1>7. Reported(error_suppressions, << >>) => Tells(error_suppressions, {})
    BY <1>3, HoldsNone DEF Tells
  <1>8. Reported(error_suppressions, <<At(0, "build/header_guard", 5)>>)
          => Tells(error_suppressions, {GuardError(0, 5)})
    <2>1. 0 \in Nat /\ 5 \in {0, 5}
      OBVIOUS
    <2>2. Holds(<<At(0, "build/header_guard", 5)>>, {GuardError(0, 5)})
      BY ONLY <1>4, <2>1
    <2>. QED
      BY <1>3, <2>2 DEF Tells
  <1>9. Reported(ParseNolint(error_suppressions, i),
                 NolintErrors(i) \o <<At(i, "build/header_guard", confidence)>>)
          => Tells(ParseNolint(error_suppressions, i), NolintSet(i) \cup {GuardError(i, confidence)})
    <2>1. Holds(NolintErrors(i), NolintSet(i)) /\ ParseNolint(error_suppressions, i) \in Suppressions
      BY <1>1, <1>2, NolintTyped DEF NolintSet
    <2>2. Holds(<<At(i, "build/header_guard", confidence)>>, {GuardError(i, confidence)})
      BY <1>2, <1>4, <1>6
    <2>3. Holds(NolintErrors(i) \o <<At(i, "build/header_guard", confidence)>>,
                NolintSet(i) \cup {GuardError(i, confidence)})
      BY <2>1, <2>2, HoldsBoth
    <2>. QED
      BY <2>1, <2>3 DEF Tells
  <1>. QED
    BY <1>5, <1>6, <1>7, <1>8, <1>9, Zenon

(* What the second part raises: nothing of a right comment at the end. *)
RightEnd(n) ==
  /\ n # 0 /\ Guard(n).name = "GUARD_"
  /\ \/ Guard(n).comment = "//"
     \/ Guard(n).comment = "/*" /\ \A m \in 1 .. NumLines : Guard(m).comment # "//"

(* The second part of the check of the guard. *)
LEMMA GuardEndTells ==
  ASSUME LintInv, CheckForHeaderGuardEnd, NEW n, n = LastWith("#endif")
  PROVE  /\ pc' = "lines"
         /\ \/ RightEnd(n) /\ Tells(ParseNolint(error_suppressions, n), NolintSet(n))
            \/ ~RightEnd(n) /\ \E confidence \in {0, 5} : Tells(ParseNolint(error_suppressions, n),
                                                 NolintSet(n) \cup {GuardError(n, confidence)})
  <1>1. filename \in DOMAIN Sources
    BY FilesProperties DEF CheckForHeaderGuardEnd, InFile
  <1>2. n \in Nat
    BY <1>1, GuardLines
  <1>. DEFINE end == IF n = 0 THEN [name |-> "none", comment |-> "none"] ELSE Guard(n)
              read == \/ end.comment = "//"
                      \/ end.comment = "/*" /\ \A m \in 1 .. NumLines : Guard(m).comment # "//"
  <1>3. /\ pc' = "lines"
        /\ Reported(ParseNolint(error_suppressions, n), NolintErrors(n) \o
             CASE read /\ end.name = "GUARD_" -> << >>
               [] read /\ end.name = "GUARD__" -> <<At(n, "build/header_guard", 0)>>
               [] OTHER                        -> <<At(n, "build/header_guard", 5)>>)
    BY Zenon DEF CheckForHeaderGuardEnd, GetHeaderGuardCPPVariable
  <1>4. read /\ end.name = "GUARD_" <=> RightEnd(n)
    <2>1. CASE n = 0
      BY <2>1 DEF RightEnd
    <2>2. CASE n # 0
      <3>1. end = Guard(n)
        BY <2>2
      <3>. HIDE DEF end
      <3>. QED
        BY <2>2, <3>1, Zenon DEF RightEnd
    <2>. QED
      BY <2>1, <2>2
  <1>. DEFINE right == read /\ end.name = "GUARD_"
              old == read /\ end.name = "GUARD__"
              last == CASE right -> << >>
                        [] old   -> <<At(n, "build/header_guard", 0)>>
                        [] OTHER -> <<At(n, "build/header_guard", 5)>>
  <1>5. right => ~old
    OBVIOUS
  <1>6. Reported(ParseNolint(error_suppressions, n), NolintErrors(n) \o last) /\ (right <=> RightEnd(n))
    BY <1>3, <1>4, Zenon
  <1>. HIDE DEF right, old
  <1>7. \/ RightEnd(n) /\ last = << >>
        \/ ~RightEnd(n) /\ \E confidence \in {0, 5} : last = <<At(n, "build/header_guard", confidence)>>
    <2>1. CASE right
      BY <1>5, <1>6, <2>1
    <2>2. CASE old
      BY <1>5, <1>6, <2>2
    <2>3. CASE ~right /\ ~old
      BY <1>6, <2>3
    <2>. QED
      BY <2>1, <2>2, <2>3
  <1>. HIDE DEF last
  <1>8. Holds(NolintErrors(n), NolintSet(n)) /\ ParseNolint(error_suppressions, n) \in Suppressions
    BY <1>1, <1>2, NolintTyped DEF NolintSet
  <1>9. CASE RightEnd(n) /\ last = << >>
    <2>1. Holds(NolintErrors(n) \o last, NolintSet(n) \cup {})
      BY <1>8, <1>9, HoldsNone, HoldsBoth
    <2>2. NolintSet(n) \cup {} = NolintSet(n)
      OBVIOUS
    <2>3. Tells(ParseNolint(error_suppressions, n), NolintSet(n))
      BY <1>6, <1>8, <2>1, <2>2 DEF Tells
    <2>. QED
      BY <1>3, <1>9, <2>3
  <1>10. CASE ~RightEnd(n) /\ \E confidence \in {0, 5} : last = <<At(n, "build/header_guard", confidence)>>
    <2>1. PICK confidence \in {0, 5} : last = <<At(n, "build/header_guard", confidence)>>
      BY <1>10
    <2>2. confidence \in 0 .. 5
      OBVIOUS
    <2>3. At(n, "build/header_guard", confidence) \in Errors
      BY <1>2, <2>2, CategoriesAssumption, ReportsAreErrors
    <2>4. Holds(last, {GuardError(n, confidence)})
      BY <2>1, <2>3, HoldsOne DEF GuardError
    <2>5. Holds(NolintErrors(n) \o last, NolintSet(n) \cup {GuardError(n, confidence)})
      BY <1>8, <2>4, HoldsBoth
    <2>6. Tells(ParseNolint(error_suppressions, n), NolintSet(n) \cup {GuardError(n, confidence)})
      BY <1>6, <1>8, <2>5 DEF Tells
    <2>. QED
      BY <1>3, <1>10, <2>6
  <1>. QED
    BY <1>7, <1>9, <1>10

(* What is told of the width of a line; a block of asm has no check of it. *)
Wide(n) == IF source.lines[n].asm THEN {} ELSE ToSet(TooWide(n))

(* What a line raises. *)
LEMMA LineTells ==
  ASSUME LintInv, ProcessLine
  PROVE  /\ line \in 1 .. NumLines
         /\ Tells(ParseNolint(error_suppressions, line), OfLine(source, line) \cup Wide(line))
         /\ \A e \in Wide(line) : e.category = "whitespace/line_length"
  <1>. DEFINE l == source.lines[line]
              nolint == NolintErrors(line)
              nesting == RaisedOn(line, l.nesting)
              found == RaisedOn(line, l.found)
              checks == IF l.asm THEN << >> ELSE TooWide(line) \o found
              cxx11 == RaisedOn(line, l.cxx11)
              C == IF l.asm THEN {} ELSE ToSet(TooWide(line)) \cup ToSet(found)
  <1>1. filename \in DOMAIN Sources
    BY FilesProperties DEF ProcessLine, InFile
  <1>2. line \in Nat
    BY DEF LintInv, TypeOK
  <1>3. Reported(ParseNolint(error_suppressions, line), nolint \o nesting \o checks \o cxx11)
    BY Zenon DEF ProcessLine
  <1>4. line \in 1 .. NumLines
    <2>1. source.lines \in Seq(Lines)
      BY <1>1, SourcesAssumption DEF source
    <2>2. NumLines \in Nat /\ line >= 1 /\ line <= NumLines
      BY <2>1, LenProperties DEF NumLines, ProcessLine, LintInv, Placed, InFile
    <2>. QED
      BY <1>2, <2>2
  <1>5. l \in Lines
    BY <1>1, <1>4, SourcesAssumption, ElementOfSeq DEF source, NumLines
  <1>6. l.nesting \in Seq(Findings) /\ l.found \in Seq(Findings) /\ l.cxx11 \in Seq(Findings)
    BY <1>5 DEF Lines
  <1>7. Holds(TooWide(line), ToSet(TooWide(line))) /\ \A e \in ToSet(TooWide(line)) : e.category = "whitespace/line_length"
    <2>. DEFINE one == At(line, "whitespace/line_length", 4)
                two == At(line, "whitespace/line_length", 2)
    <2>1. one \in Errors /\ two \in Errors
      BY <1>2, CategoriesAssumption, ReportsAreErrors
    <2>2. one.category = "whitespace/line_length" /\ two.category = "whitespace/line_length"
      BY DEF At
    <2>3. TooWide(line) = <<one>> \/ TooWide(line) = <<two>> \/ TooWide(line) = << >>
      BY Zenon DEF TooWide
    <2>. HIDE DEF one, two
    <2>4. /\ Holds(<<one>>, {one}) /\ Holds(<<two>>, {two}) /\ Holds(<< >>, {})
      BY <2>1, HoldsOne, HoldsNone
    <2>5. \A e \in {one} \cup {two} \cup {} : e.category = "whitespace/line_length"
      BY <2>2
    <2>. QED
      BY <2>3, <2>4, <2>5 DEF Holds
  <1>8. OfLine(source, line) \cup Wide(line)
          = ((NolintSet(line) \cup ToSet(nesting)) \cup C) \cup ToSet(cxx11)
    <2>1. BadNolint(source, line) = NolintSet(line)
      <3>1. Nolint(line) = l.nolint
        BY <1>4, Zenon DEF Nolint
      <3>2. BadNolint(source, line) = IF l.nolint.category = Unknown THEN {At(line, "readability/nolint", 5)} ELSE {}
        BY DEF BadNolint
      <3>. HIDE DEF l
      <3>. QED
        BY <3>1, <3>2 DEF NolintSet
    <2>2. OfLine(source, line) = ToSet(nesting) \cup ToSet(cxx11) \cup (IF l.asm THEN {} ELSE ToSet(found))
                                 \cup BadNolint(source, line)
      BY Zenon DEF OfLine
    <2>3. Wide(line) = IF l.asm THEN {} ELSE ToSet(TooWide(line))
      BY Zenon DEF Wide
    <2>. HIDE DEF l, nesting, cxx11, found
    <2>4. CASE l.asm
      BY <2>1, <2>2, <2>3, <2>4
    <2>5. CASE ~l.asm
      BY <2>1, <2>2, <2>3, <2>5
    <2>. QED
      BY <2>4, <2>5
  <1>9. /\ Holds(nolint, NolintSet(line)) /\ Holds(nesting, ToSet(nesting)) /\ Holds(cxx11, ToSet(cxx11))
        /\ Holds(found, ToSet(found)) /\ ParseNolint(error_suppressions, line) \in Suppressions
    <2>1. nesting \in Seq(Reports) /\ cxx11 \in Seq(Reports) /\ found \in Seq(Reports)
      <3>. HIDE DEF l
      <3>. QED
        BY <1>2, <1>6, RaisedTyped
    <2>. QED
      BY <1>1, <1>2, <2>1, NolintTyped, HoldsReports DEF NolintSet
  <1>10. Holds(checks, C)
    <2>1. Holds(TooWide(line) \o found, ToSet(TooWide(line)) \cup ToSet(found))
      <3>. HIDE DEF found
      <3>. QED
        BY <1>7, <1>9, HoldsBoth
    <2>. HIDE DEF l, found
    <2>. QED
      BY <2>1, HoldsNone
  <1>11. \A e \in Wide(line) : e.category = "whitespace/line_length"
    BY <1>7 DEF Wide
  <1>. HIDE DEF l, nolint, nesting, checks, cxx11, C
  <1>12. Holds(nolint \o nesting, NolintSet(line) \cup ToSet(nesting))
    BY <1>9, HoldsBoth
  <1>13. Holds((nolint \o nesting) \o checks, (NolintSet(line) \cup ToSet(nesting)) \cup C)
    BY <1>10, <1>12, HoldsBoth
  <1>14. Holds(((nolint \o nesting) \o checks) \o cxx11,
               ((NolintSet(line) \cup ToSet(nesting)) \cup C) \cup ToSet(cxx11))
    BY <1>9, <1>13, HoldsBoth
  <1>. QED
    BY <1>3, <1>4, <1>8, <1>9, <1>11, <1>14 DEF Tells

(* What the end of a file raises: the errors on ends of lines, where some lines *)
(* end with a carriage return and others do not, are one for each of the former. *)
LEMMA FinishTells ==
  ASSUME LintInv, FinishFile
  PROVE  Tells(error_suppressions, AfterLines(source))
  <1>. DEFINE m == NumLines - 1
              cr == {n \in 1 .. m : source.lines[n].cr}
              Ends == [n \in 1 .. m |-> IF n \in cr THEN <<At(n, "whitespace/newline", 1)>> ELSE << >>]
              unmixed == cr = {} \/ cr = 1 .. m
              header == IF source.extension = "cc" THEN source.header ELSE << >>
              newline == IF source.newline THEN << >>
                         ELSE <<At(NumLines, "whitespace/ending_newline", 5)>>
              ends == IF unmixed THEN << >> ELSE FlattenSeq(Ends)
              H == IF source.extension = "cc" THEN ToSet(source.header) ELSE {}
              L == IF source.newline THEN {} ELSE {At(NumLines, "whitespace/ending_newline", 5)}
              R == {At(n, "whitespace/newline", 1) :
                      n \in {i \in 1 .. m : source.lines[i].cr /\ \E k \in 1 .. m : ~source.lines[k].cr}}
  <1>1. filename \in DOMAIN Sources
    BY FilesProperties DEF FinishFile, InFile
  <1>2. /\ source.blocks \in Seq(Reports) /\ source.includes \in Seq(Reports)
        /\ source.header \in Seq(Reports) /\ source.characters \in Seq(Reports)
        /\ NumLines \in Nat
    BY <1>1, GuardLines, SourcesAssumption DEF source
  <1>3. Reported(error_suppressions,
          source.blocks \o source.includes \o header \o source.characters \o newline \o ends)
    BY Zenon DEF FinishFile
  <1>4. AfterLines(source) = R \cup ToSet(source.blocks) \cup ToSet(source.includes)
                             \cup ToSet(source.characters) \cup H \cup L
    BY Zenon DEF AfterLines, NumLines
  <1>5. Holds(newline, L)
    <2>1. At(NumLines, "whitespace/ending_newline", 5) \in Errors
      BY <1>2, CategoriesAssumption, ReportsAreErrors
    <2>. QED
      BY <2>1, HoldsNone, HoldsOne
  <1>6. Holds(header, H)
    BY <1>2, HoldsNone, HoldsReports
  <1>7. \A n \in Nat : At(n, "whitespace/newline", 1) \in Errors
    BY CategoriesAssumption, ReportsAreErrors
  <1>8. Holds(ends, R)
    <2>1. CASE unmixed
      <3>1. R = {}
        BY <2>1
      <3>. QED
        BY <2>1, <3>1, HoldsNone
    <2>2. CASE ~unmixed
      <3>1. m \in Nat
        <4>1. m \in Int /\ cr # {}
          BY <1>2, <2>2
        <4>. QED
          BY <4>1
      <3>2. cr \subseteq 1 .. m /\ \A n \in 1 .. m : n \in Nat
        BY <1>2
      <3>3. \A n \in 1 .. m : IF n \in cr THEN <<At(n, "whitespace/newline", 1)>> \in Seq(Errors) ELSE TRUE
        BY <1>7, <3>2
      <3>4. R = {At(n, "whitespace/newline", 1) : n \in cr}
        BY <2>2
      <3>. HIDE DEF cr, R
      <3>5. Ends \in [1 .. m -> Seq(Errors)]
        BY <3>3, EmptySeq
      <3>6. Ends \in Seq(Seq(Errors))
        <4>. DEFINE S == Seq(Errors)
        <4>1. m \in Nat /\ Ends \in [1 .. m -> S]
          BY <3>1, <3>5
        <4>. HIDE DEF S, m, Ends
        <4>2. Ends \in Seq(S)
          BY ONLY <4>1, SeqDef
        <4>. QED
          BY <4>2 DEF S
      <3>7. DOMAIN Ends = 1 .. m /\ \A n \in 1 .. m : Ends[n] = IF n \in cr THEN <<At(n, "whitespace/newline", 1)>> ELSE << >>
        OBVIOUS
      <3>. HIDE DEF Ends
      <3>8. FlattenSeq(Ends) \in Seq(Errors)
            /\ \A x : x \in ToSet(FlattenSeq(Ends)) <=> \E k \in DOMAIN Ends : x \in ToSet(Ends[k])
        BY <3>6, HoldsFlat
      <3>9. \A x \in Errors : x \in ToSet(FlattenSeq(Ends)) <=> \E k \in 1 .. m : x \in ToSet(Ends[k])
        BY <3>7, <3>8
      <3>10. \A k \in 1 .. m : ToSet(Ends[k]) = IF k \in cr THEN {At(k, "whitespace/newline", 1)} ELSE {}
        BY <3>7 DEF ToSet
      <3>11. \A x \in ToSet(FlattenSeq(Ends)) : x \in Errors
        BY <3>8, LenProperties, ElementOfSeq DEF ToSet
      <3>12. ToSet(FlattenSeq(Ends)) = R
        <4>1. \A x \in R : x \in Errors
          BY <1>7, <3>2, <3>4
        <4>2. ASSUME NEW x \in Errors PROVE x \in ToSet(FlattenSeq(Ends)) <=> x \in R
          <5>1. x \in ToSet(FlattenSeq(Ends)) <=> \E k \in 1 .. m : k \in cr /\ x = At(k, "whitespace/newline", 1)
            BY <3>9, <3>10
          <5>2. x \in R <=> \E k \in cr : x = At(k, "whitespace/newline", 1)
            BY <3>4
          <5>. HIDE DEF m
          <5>. QED
            BY <3>2, <5>1, <5>2
        <4>. QED
          BY <3>11, <4>1, <4>2
      <3>13. ends = FlattenSeq(Ends)
        BY <2>2
      <3>. QED
        BY <3>8, <3>12, <3>13 DEF Holds
    <2>. QED
      BY <2>1, <2>2
  <1>. DEFINE B == ToSet(source.blocks)
              I == ToSet(source.includes)
              K == ToSet(source.characters)
              All6 == ((((B \cup I) \cup H) \cup K) \cup L) \cup R
  <1>9. Holds(source.blocks, B) /\ Holds(source.includes, I) /\ Holds(source.characters, K)
    BY <1>2, HoldsReports
  <1>10. AfterLines(source) = All6
    <2>. HIDE DEF R, H, L, B, I, K
    <2>1. AfterLines(source) = R \cup B \cup I \cup K \cup H \cup L
      BY <1>4, Zenon DEF B, I, K
    <2>. QED
      BY <2>1
  <1>. HIDE DEF newline, ends, header, R, H, L, B, I, K
  <1>11. Holds(source.blocks \o source.includes, B \cup I)
    BY <1>9, HoldsBoth
  <1>12. Holds((source.blocks \o source.includes) \o header, (B \cup I) \cup H)
    BY <1>6, <1>11, HoldsBoth
  <1>13. Holds(((source.blocks \o source.includes) \o header) \o source.characters, ((B \cup I) \cup H) \cup K)
    BY <1>9, <1>12, HoldsBoth
  <1>14. Holds((((source.blocks \o source.includes) \o header) \o source.characters) \o newline,
               (((B \cup I) \cup H) \cup K) \cup L)
    BY <1>5, <1>13, HoldsBoth
  <1>15. Holds(((((source.blocks \o source.includes) \o header) \o source.characters) \o newline) \o ends, All6)
    BY <1>8, <1>14, HoldsBoth
  <1>16. error_suppressions \in Suppressions
    BY DEF Suppressions, LintInv, TypeOK
  <1>. QED
    BY <1>3, <1>10, <1>15, <1>16, Zenon DEF Tells

(* Each of the steps through a file tells some errors of known categories. *)
LEMMA FileTells ==
  ASSUME LintInv, \/ StartFile \/ CheckForHeaderGuard \/ CheckForHeaderGuardEnd
                  \/ ProcessLine \/ FinishFile
  PROVE  \E suppressions, E : Tells(suppressions, E)
  BY StartFileTells, GuardTells, GuardEndTells, LineTells, FinishTells

-----------------------------------------------------------------------------
(* What is printed names a category and is as sure as the verbosity asks for. *)
LEMMA PrintedTyped ==
  ASSUME NEW ps, NEW least, AsSevere(ps, least)
  PROVE  \A i \in DOMAIN ps :
           ps[i].category \in Categories /\ ps[i].confidence \in 0 .. 5 /\ ps[i].confidence >= least
  <1>1. PICK U : ps \in Seq(U) /\ Told(U) /\ \A u \in U : u.confidence >= least
    BY DEF AsSevere
  <1>2. \A i \in DOMAIN ps : ps[i] \in U
    BY <1>1, LenProperties, ElementOfSeq
  <1>. QED
    BY <1>1, <1>2 DEF Told

(* A step that raises nothing leaves what was printed and counted. *)
LEMMA SilentKeeps ==
  ASSUME LintInv, UNCHANGED <<counts, verbose_level, counting>>
  PROVE  PrintedInv' /\ CountInv'
  BY DEF LintInv, PrintedInv, CountInv, counts

(* A step that raises errors prints and counts the same ones. *)
LEMMA RaisesKeeps ==
  ASSUME LintInv, NEW suppressions, NEW E, Tells(suppressions, E), UNCHANGED <<verbose_level, counting>>
  PROVE  PrintedInv' /\ CountInv' /\ error_suppressions' \in Suppressions
  <1>1. PICK errors \in Seq(Errors) : Error(suppressions, errors) /\ error_suppressions' = suppressions
    BY Zenon DEF Tells, Reported, Holds
  <1>2. PrintedInv /\ CountInv /\ verbose_level \in Int /\ counting \in {"total", "toplevel", "detailed"}
    BY DEF LintInv, TypeOK
  <1>3. PrintedInv' /\ CountInv'
    BY <1>1, <1>2, ErrorKeeps, ReportsAreErrors
  <1>. QED
    BY <1>1, <1>3 DEF Tells

(* What a step leaves in place when it stays in a file, or goes to the next one *)
(* with the filters of before.                                                  *)
Stays ==
  /\ pc \in InFile /\ UNCHANGED <<status, command, config, settings>>
  /\ line' \in Nat /\ level' \in Nat /\ line_length' \in Int /\ keep_looking' \in BOOLEAN
  /\ cfg_filters' \in Seq(Seq(Filters)) /\ error_suppressions' \in Suppressions
  /\ PrintedInv' /\ CountInv'

(* A step inside a file keeps the types of what it does not touch, and leaving the *)
(* file puts the filters back.                                                     *)
LEMMA StaysTyped ==
  ASSUME LintInv, Stays,
         \/ /\ pc' \in InFile /\ current' = current /\ HasSign(filters') /\ filters' \in Seq(Filters)
            /\ pc' \in {"guard", "endif", "lines"} => line' >= 1
         \/ LeaveFile
  PROVE  LintInv'
  <1>. USE DEF LintInv, Stays, InFile
  <1>1. /\ Arguments' = Arguments /\ filenames' = filenames /\ Len(filenames) \in Nat
        /\ current \in Nat /\ current <= Len(filenames) /\ current >= 1
    BY FilesProperties, SameArguments DEF filenames, TypeOK, Placed
  <1>2. /\ pc # "exit" /\ status = -1 /\ HasSign(filters_backup) /\ filters_backup \in Seq(Filters)
        /\ filters_backup = DefaultFilters \o Arguments.filters
        /\ UNCHANGED <<status, command, config, verbose_level, counting, filters_backup>>
    BY DEF TypeOK, Placed, settings
  <1>3. \/ /\ pc' \in InFile /\ current' = current /\ HasSign(filters') /\ filters' \in Seq(Filters)
           /\ pc' \in {"guard", "endif", "lines"} => line' >= 1
        \/ pc' = "next" /\ current' = current + 1 /\ filters' = filters_backup
    BY DEF LeaveFile
  <1>4. HasSign(filters)' = HasSign(filters') /\ HasSign(filters_backup)' = HasSign(filters_backup)
    BY <1>2 DEF HasSign
  <1>5. TypeOK'
    <2>1. \A i \in DOMAIN printed' :
            /\ printed'[i].category \in Categories /\ printed'[i].confidence \in 0 .. 5
            /\ printed'[i].confidence >= verbose_level'
      BY PrintedTyped DEF PrintedInv
    <2>2. /\ pc' \in {"next"} \cup InFile /\ current' \in 1 .. Len(filenames) + 1
          /\ filters' \in Seq(Filters) /\ HasSign(filters')
      <3>1. current + 1 \in 1 .. Len(filenames) + 1 /\ current \in 1 .. Len(filenames) + 1
        BY <1>1
      <3>. QED
        BY <1>2, <1>3, <3>1, Zenon
    <2>. QED
      BY <1>1, <1>2, <1>4, <2>1, <2>2 DEF TypeOK, Suppressions
  <1>6. Placed'
    <2>1. pc' \in InFile => current' <= Len(filenames)' /\ (filters_backup = DefaultFilters \o Arguments.filters)'
      BY <1>1, <1>2, <1>3
    <2>2. pc' = "next" => filters' = DefaultFilters \o Arguments'.filters
      BY <1>1, <1>2, <1>3
    <2>3. pc' # "exit" /\ pc' # "parse" /\ (pc' \in {"guard", "endif", "lines"} => line' >= 1)
      BY <1>3
    <2>4. HasSign(filters')
      BY <1>2, <1>3
    <2>5. command' \in Commands /\ config' \in Configs
      BY <1>2 DEF Placed
    <2>. QED
      BY <1>2, <1>4, <2>1, <2>2, <2>3, <2>4, <2>5 DEF Placed, FiltersBetweenFiles
  <1>. QED
    BY <1>5, <1>6

(* The command line. *)
LEMMA ParseKeeps ==
  ASSUME LintInv, ParseArguments
  PROVE  LintInv'
  <1>. DEFINE a == Arguments
  <1>1. /\ pc = "parse" /\ current = 1 /\ printed = << >> /\ errors_by_category = [c \in Kinds |-> 0]
        /\ filters_backup = DefaultFilters /\ status = -1
        /\ error_count = 0
    BY DEF ParseArguments, LintInv, Placed, TypeOK, CountInv
  <1>2. /\ a \in Parsed /\ (a.status = -1 => HasSign(a.filters) /\ filenames # << >>)
        /\ Arguments' = a /\ filenames' = filenames
    BY ArgumentsTyped, SameArguments DEF LintInv, Placed, ParseArguments, filenames
  <1>3. /\ UNCHANGED <<command, config, current, filters_backup, error_suppressions, line>>
        /\ UNCHANGED <<error_count, errors_by_category, printed, level, cfg_filters, keep_looking>>
    BY DEF ParseArguments, counts, walk
  <1>4. CountInv'
    <2>1. Total(errors_by_category') = 0
      BY <1>1, <1>3, KindsAreFinite, TotalOfNone
    <2>. QED
      BY <1>1, <1>3, <2>1 DEF CountInv, LintInv
  <1>5. PrintedInv'
    <2>1. << >> \in Seq({}) /\ Told({})
      BY EmptySeq DEF Told
    <2>2. AsSevere(<< >>, verbose_level')
      BY <2>1 DEF AsSevere
    <2>. QED
      BY <1>1, <1>3, <2>2 DEF PrintedInv
  <1>6. DOMAIN printed' = {}
    BY <1>1, <1>3
  <1>. HIDE DEF a
  <1>7. CASE a.status # -1
    <2>1. /\ pc' = "exit" /\ status' = a.status /\ status' \in {0, 1}
          /\ UNCHANGED <<verbose_level, counting, line_length, filters>>
      BY <1>2, <1>7 DEF ParseArguments, a, Parsed
    <2>2. TypeOK'
      BY <1>2, <1>3, <1>6, <2>1 DEF LintInv, TypeOK
    <2>3. Placed'
      BY <1>1, <1>2, <1>3, <2>1 DEF LintInv, Placed, FiltersBetweenFiles, InFile, HasSign
    <2>. QED
      BY <1>4, <1>5, <2>2, <2>3 DEF LintInv
  <1>8. CASE ~(a.status # -1)
    <2>1. /\ pc' = "next" /\ status' = status
          /\ verbose_level' = a.verbose_level /\ counting' = a.counting
          /\ line_length' = a.line_length /\ filters' = DefaultFilters \o a.filters
      BY <1>8 DEF ParseArguments, a
    <2>2. /\ a.filters \in Seq(Filters) /\ a.verbose_level \in Int /\ a.line_length \in Int
          /\ a.counting \in {"total", "toplevel", "detailed"} /\ HasSign(a.filters)
      BY <1>2, <1>8 DEF Parsed
    <2>3. filters' \in Seq(Filters) /\ HasSign(filters')
      BY <2>1, <2>2, SignsAdd, CategoriesAssumption
    <2>4. TypeOK'
      BY <1>1, <1>2, <1>3, <1>6, <2>1, <2>2, <2>3 DEF LintInv, TypeOK
    <2>5. HasSign(filters)' /\ HasSign(filters_backup)'
      BY <1>1, <1>3, <2>3, CategoriesAssumption DEF HasSign
    <2>6. Placed'
      BY <1>1, <1>2, <1>3, <2>1, <2>5 DEF LintInv, Placed, FiltersBetweenFiles, InFile
    <2>. QED
      BY <1>4, <1>5, <2>4, <2>6 DEF LintInv
  <1>. QED
    BY <1>7, <1>8

(* The next file: the filters are backed up. *)
LEMMA NextFileKeeps ==
  ASSUME LintInv, NextFile
  PROVE  LintInv'
  <1>1. /\ pc = "next" /\ pc' = "config" /\ current <= Len(filenames) /\ filters_backup' = filters
        /\ level' = 0 /\ cfg_filters' = << >> /\ keep_looking' = TRUE
        /\ UNCHANGED <<status, command, config, current, verbose_level, counting, line_length, filters,
                       counts, error_suppressions, line>>
    BY DEF NextFile
  <1>2. Arguments' = Arguments /\ filenames' = filenames /\ filters = DefaultFilters \o Arguments.filters
    BY <1>1, SameArguments DEF filenames, LintInv, Placed, FiltersBetweenFiles
  <1>3. PrintedInv' /\ CountInv'
    BY <1>1, SilentKeeps
  <1>4. TypeOK'
    BY <1>1, <1>2 DEF LintInv, TypeOK, counts, HasSign
  <1>5. HasSign(filters)' /\ HasSign(filters_backup)' /\ << >> \in Seq(Seq(Filters))
    BY <1>1, EmptySeq DEF LintInv, Placed, HasSign
  <1>6. Placed'
    BY <1>1, <1>2, <1>5 DEF LintInv, Placed, FiltersBetweenFiles, InFile
  <1>. QED
    BY <1>3, <1>4, <1>6 DEF LintInv

(* A directory of the walk: lists of signed filters are gathered. *)
LEMMA LookForConfigKeeps ==
  ASSUME LintInv, LookForConfig
  PROVE  LintInv'
  <1>. DEFINE found == config[Directory(level + 1)]
              c == ReadConfig(BaseName(level + 1), found.lines)
  <1>1. /\ pc = "config" /\ level' = level + 1 /\ level \in Nat /\ level < Len(source.path)
        /\ UNCHANGED <<status, command, config, settings, counts, error_suppressions, line>>
    BY DEF LookForConfig, LintInv, TypeOK
  <1>2. /\ filename \in DOMAIN Sources /\ config \in Configs
        /\ cfg_filters \in Seq(Seq(Filters)) /\ line_length \in Int /\ keep_looking \in BOOLEAN
        /\ line \in Nat /\ error_suppressions \in Suppressions
        /\ HasSign(filters) /\ filters \in Seq(Filters)
    BY <1>1, FilesProperties DEF InFile, LintInv, Placed, TypeOK, Suppressions
  <1>3. Directory(level + 1) \in DOMAIN config
    <2>1. source.path \in Seq(ToSet(source.path)) /\ ToSet(source.path) \subseteq DOMAIN config
      BY <1>2, SourcesAssumption DEF source
    <2>2. Len(source.path) \in Nat
      BY <2>1, LenProperties
    <2>3. level + 1 \in 1 .. Len(source.path)
      BY <1>1, <2>2
    <2>. QED
      BY <2>1, <2>3, ElementOfSeq DEF Directory
  <1>4. /\ found.is \in {"absent", "unreadable", "readable"}
        /\ found.lines \in Seq(ToSet(found.lines)) /\ \A l \in ToSet(found.lines) : Takes(l)
    BY <1>2, <1>3, ConfigsAssumption
  <1>5. c \in Overridden
    BY <1>2, <1>4, ReadConfigTyped
  <1>. HIDE DEF c
  <1>6. \/ /\ UNCHANGED <<pc, current, filters, cfg_filters, line_length>> /\ keep_looking' \in {keep_looking, FALSE}
        \/ /\ keep_looking' = c.keep_looking /\ cfg_filters' = c.cfg_filters /\ line_length' = c.line_length
           /\ LeaveFile \/ UNCHANGED <<pc, current, filters>>
    BY <1>4, Zenon DEF LookForConfig, c
  <1>7. /\ keep_looking' \in BOOLEAN /\ cfg_filters' \in Seq(Seq(Filters)) /\ line_length' \in Int
        /\ LeaveFile \/ UNCHANGED <<pc, current, filters>>
    BY <1>2, <1>5, <1>6 DEF Overridden
  <1>8. PrintedInv' /\ CountInv'
    BY <1>1, SilentKeeps DEF settings
  <1>9. Stays
    BY <1>1, <1>2, <1>7, <1>8 DEF Stays, InFile
  <1>10. \/ /\ pc' \in InFile /\ current' = current /\ HasSign(filters') /\ filters' \in Seq(Filters)
            /\ pc' \in {"guard", "endif", "lines"} => line' >= 1
         \/ LeaveFile
    BY <1>1, <1>2, <1>7 DEF InFile
  <1>. QED
    BY <1>9, <1>10, StaysTyped

(* A pattern that does not compile ends the run; what is above it was obeyed. *)
LEMMA BadPatternKeeps ==
  ASSUME LintInv, BadPattern
  PROVE  LintInv'
  <1>. DEFINE lines == config[Directory(level + 1)].lines
              m == Min(BadPatterns(lines)) - 1
              c == ReadConfig(BaseName(level + 1), SubSeq(lines, 1, m))
  <1>1. /\ pc = "config" /\ level \in Nat /\ level < Len(source.path) /\ pc' = "exit" /\ status' = 1
        /\ UNCHANGED <<command, config, current, settings, filters, counts, error_suppressions, walk, line>>
    BY DEF BadPattern, LintInv, TypeOK
  <1>2. Raises(BaseName(level + 1), lines) /\ line_length' = c.line_length
    BY Zenon DEF BadPattern
  <1>3. /\ filename \in DOMAIN Sources /\ config \in Configs
        /\ cfg_filters \in Seq(Seq(Filters)) /\ line_length \in Int
    BY <1>1, FilesProperties DEF InFile, LintInv, Placed, TypeOK
  <1>4. Directory(level + 1) \in DOMAIN config
    <2>1. source.path \in Seq(ToSet(source.path)) /\ ToSet(source.path) \subseteq DOMAIN config
      BY <1>3, SourcesAssumption DEF source
    <2>2. Len(source.path) \in Nat
      BY <2>1, LenProperties
    <2>3. level + 1 \in 1 .. Len(source.path)
      BY <1>1, <2>2
    <2>. QED
      BY <2>1, <2>3, ElementOfSeq DEF Directory
  <1>5. lines \in Seq(ToSet(lines)) /\ \A l \in ToSet(lines) : Takes(l)
    BY <1>3, <1>4, ConfigsAssumption
  <1>6. m \in 0 .. Len(lines) /\ Len(lines) \in Nat
    <2>1. DOMAIN lines = 1 .. Len(lines) /\ Len(lines) \in Nat
      BY <1>5, LenProperties
    <2>2. BadPatterns(lines) # {}
      BY <1>2 DEF Raises
    <2>. HIDE DEF lines
    <2>3. BadPatterns(lines) \in SUBSET (1 .. Len(lines))
      BY <2>1 DEF BadPatterns
    <2>4. Min(BadPatterns(lines)) \in 1 .. Len(lines)
      BY <2>1, <2>2, <2>3, LeastExists
    <2>. QED
      BY <2>1, <2>4
  <1>7. SubSeq(lines, 1, m) \in Seq(ToSet(lines))
    <2>. HIDE DEF lines, m
    <2>1. 1 \in 1 .. Len(lines) + 1 /\ m \in 1 - 1 .. Len(lines)
      BY <1>6
    <2>. QED
      BY <1>5, <2>1, SubSeqProperties
  <1>8. c \in Overridden
    BY <1>3, <1>5, <1>7, ReadConfigTyped
  <1>. HIDE DEF c
  <1>9. line_length' \in Int
    BY <1>2, <1>8 DEF Overridden
  <1>10. UNCHANGED <<command, config, current, verbose_level, counting, filters_backup, filters,
                     printed, error_suppressions, level, cfg_filters, keep_looking, line>>
    BY <1>1 DEF settings, counts, walk
  <1>11. Arguments' = Arguments /\ filenames' = filenames
    BY <1>10, SameArguments DEF filenames
  <1>12. PrintedInv' /\ CountInv'
    BY <1>1, SilentKeeps DEF settings
  <1>13. TypeOK'
    BY <1>1, <1>9, <1>10, <1>11 DEF LintInv, TypeOK
  <1>14. Placed'
    BY <1>1, <1>10, <1>11 DEF LintInv, Placed, FiltersBetweenFiles, InFile, HasSign
  <1>. QED
    BY <1>12, <1>13, <1>14 DEF LintInv

(* The filters gathered, from the outermost directory on; an unsigned one ends the run. *)
LEMMA ApplyConfigKeeps ==
  ASSUME LintInv, ApplyConfig
  PROVE  LintInv'
  <1>. DEFINE added == Reverse(cfg_filters)
              bad == {i \in DOMAIN added : ~HasSign(added[i])}
  <1>1. /\ pc = "config"
        /\ UNCHANGED <<command, config, current, settings, line_length, counts, error_suppressions, walk, line>>
        /\ IF bad = {}
           THEN pc' = "open" /\ filters' = filters \o FlattenSeq(added) /\ UNCHANGED status
           ELSE /\ pc' = "exit" /\ status' = 1
                /\ filters' = filters \o FlattenSeq(SubSeq(added, 1, Min(bad)))
    BY Zenon DEF ApplyConfig
  <1>2. /\ cfg_filters \in Seq(Seq(Filters)) /\ filters \in Seq(Filters) /\ HasSign(filters)
        /\ line \in Nat /\ level \in Nat /\ line_length \in Int /\ keep_looking \in BOOLEAN
        /\ error_suppressions \in Suppressions
    BY <1>1 DEF LintInv, Placed, TypeOK, Suppressions
  <1>3. added \in Seq(Seq(Filters)) /\ DOMAIN added = 1 .. Len(added) /\ Len(added) \in Nat
    BY <1>2, ReverseTyped
  <1>. HIDE DEF added
  <1>4. PrintedInv' /\ CountInv'
    BY <1>1, SilentKeeps DEF settings
  <1>5. CASE bad = {}
    <2>1. FlattenSeq(added) \in Seq(Filters) /\ HasSign(FlattenSeq(added))
      BY <1>3, <1>5, AllSigned
    <2>2. filters' \in Seq(Filters) /\ HasSign(filters')
      BY <1>1, <1>2, <1>5, <2>1, SignsAdd
    <2>3. Stays
      BY <1>1, <1>2, <1>4, <1>5 DEF Stays, InFile, walk
    <2>4. pc' \in InFile /\ current' = current /\ pc' \notin {"guard", "endif", "lines"}
      BY <1>1, <1>5 DEF InFile
    <2>. QED
      BY <2>2, <2>3, <2>4, StaysTyped
  <1>6. CASE bad # {}
    <2>1. Min(bad) \in 1 .. Len(added)
      BY <1>3, <1>6, LeastExists
    <2>2. SubSeq(added, 1, Min(bad)) \in Seq(Seq(Filters))
      <3>. DEFINE S == Seq(Filters)
                  m == Min(bad)
      <3>1. added \in Seq(S) /\ m \in Nat /\ m >= 1 /\ m <= Len(added) /\ Len(added) \in Nat
        BY <1>3, <2>1
      <3>. HIDE DEF S, m, bad
      <3>2. 1 \in 1 .. Len(added) + 1 /\ m \in 1 - 1 .. Len(added)
        BY ONLY <3>1
      <3>3. SubSeq(added, 1, m) \in Seq(S)
        BY ONLY <3>1, <3>2, SubSeqProperties
      <3>. QED
        BY <3>3 DEF S, m
    <2>3. FlattenSeq(SubSeq(added, 1, Min(bad))) \in Seq(Filters)
      BY <2>2, AllSigned
    <2>. HIDE DEF bad
    <2>4. filters' \in Seq(Filters)
      BY <1>1, <1>2, <1>6, <2>3, SignsAdd
    <2>5. /\ pc' = "exit" /\ status' = 1
          /\ UNCHANGED <<command, config, current, verbose_level, counting, filters_backup, line_length,
                         printed, error_suppressions, level, cfg_filters, keep_looking, line>>
      BY <1>1, <1>6 DEF settings, counts, walk
    <2>6. filenames' = filenames
      BY <2>5 DEF filenames
    <2>7. TypeOK'
      BY <2>4, <2>5, <2>6 DEF LintInv, TypeOK
    <2>8. Placed'
      BY <2>5, <2>6 DEF LintInv, Placed, FiltersBetweenFiles, InFile, HasSign
    <2>. QED
      BY <1>4, <2>7, <2>8 DEF LintInv
  <1>. QED
    BY <1>5, <1>6

(* The steps through the lines of a file. *)
LEMMA FileKeeps ==
  ASSUME LintInv, \/ StartFile \/ CheckForHeaderGuard \/ CheckForHeaderGuardEnd
                  \/ ProcessLine \/ FinishFile
  PROVE  LintInv'
  <1>1. PICK suppressions, E : Tells(suppressions, E)
    BY FileTells
  <1>2. /\ UNCHANGED <<status, command, config, settings, line_length, walk>>
        /\ pc \in {"open", "guard", "endif", "lines"}
    BY DEF StartFile, CheckForHeaderGuard, CheckForHeaderGuardEnd, ProcessLine, FinishFile, FileUnchanged
  <1>3. PrintedInv' /\ CountInv' /\ error_suppressions' \in Suppressions
    BY <1>1, <1>2, RaisesKeeps DEF settings
  <1>4. /\ line \in Nat /\ level \in Nat /\ line_length \in Int /\ keep_looking \in BOOLEAN
        /\ cfg_filters \in Seq(Seq(Filters)) /\ HasSign(filters) /\ filters \in Seq(Filters)
        /\ pc \in {"guard", "endif", "lines"} => line >= 1
    BY <1>2 DEF LintInv, TypeOK, Placed
  <1>5. \/ line' \in {line, 1, line + 1} /\ UNCHANGED <<current, filters>> /\ pc' \in {"guard", "endif", "lines"}
           /\ (pc = "open" => line' = 1)
        \/ LeaveFile /\ line' = line
    <2>1. CASE StartFile
      BY <2>1 DEF StartFile
    <2>2. CASE CheckForHeaderGuard
      BY <2>2, Zenon DEF CheckForHeaderGuard
    <2>3. CASE CheckForHeaderGuardEnd
      BY <2>3 DEF CheckForHeaderGuardEnd
    <2>4. CASE ProcessLine
      BY <2>4 DEF ProcessLine
    <2>5. CASE FinishFile
      BY <2>5 DEF FinishFile
    <2>. QED
      BY <2>1, <2>2, <2>3, <2>4, <2>5
  <1>6. line' \in Nat
    BY <1>4, <1>5
  <1>7. Stays
    BY <1>2, <1>3, <1>4, <1>6 DEF Stays, InFile, walk
  <1>8. CASE UNCHANGED <<current, filters>> /\ line' \in {line, 1, line + 1} /\ (pc = "open" => line' = 1)
             /\ pc' \in {"guard", "endif", "lines"}
    <2>1. pc' \in InFile /\ current' = current /\ HasSign(filters') /\ filters' \in Seq(Filters)
      BY <1>4, <1>8 DEF InFile
    <2>2. line' >= 1
      BY <1>2, <1>4, <1>8
    <2>. QED
      BY <1>7, <2>1, <2>2, StaysTyped
  <1>9. CASE LeaveFile
    BY <1>7, <1>9, StaysTyped
  <1>. QED
    BY <1>5, <1>8, <1>9

(* A file that is excluded, cannot be read or has no valid extension. *)
LEMMA SkipFileKeeps ==
  ASSUME LintInv, SkipFile
  PROVE  LintInv'
  <1>1. /\ pc = "open" /\ LeaveFile
        /\ UNCHANGED <<status, command, config, settings, line_length, counts, error_suppressions, walk, line>>
    BY DEF SkipFile
  <1>2. PrintedInv' /\ CountInv'
    BY <1>1, SilentKeeps DEF settings
  <1>3. Stays
    BY <1>1, <1>2 DEF Stays, InFile, walk, LintInv, TypeOK, Placed, Suppressions
  <1>. QED
    BY <1>1, <1>3, StaysTyped

(* The end of the run. *)
LEMMA FinishKeeps ==
  ASSUME LintInv, Finish
  PROVE  LintInv'
  <1>1. /\ pc = "next" /\ pc' = "exit" /\ current > Len(filenames)
        /\ status' = IF error_count > 0 THEN 1 ELSE 0
        /\ UNCHANGED <<command, config, current, verbose_level, counting, filters_backup, line_length,
                       filters, counts, error_suppressions, level, cfg_filters, keep_looking, line>>
    BY DEF Finish, settings, walk
  <1>2. filenames' = filenames
    BY <1>1 DEF filenames
  <1>3. PrintedInv' /\ CountInv'
    BY <1>1, SilentKeeps
  <1>4. TypeOK'
    BY <1>1, <1>2 DEF LintInv, TypeOK, counts, HasSign
  <1>5. status' = 0 => printed = << >>
    <2>1. PICK U : printed \in Seq(U)
      BY DEF LintInv, PrintedInv, AsSevere
    <2>2. Len(printed) \in Nat /\ error_count = Len(printed)
      BY <2>1, LenProperties DEF LintInv, CountInv
    <2>3. status' = 0 => Len(printed) = 0
      BY <1>1, <2>2
    <2>. QED
      BY <2>1, <2>3, EmptySeq
  <1>6. Placed'
    BY <1>1, <1>2, <1>5 DEF LintInv, Placed, FiltersBetweenFiles, InFile, HasSign, counts
  <1>. QED
    BY <1>3, <1>4, <1>6 DEF LintInv

(* The globals as cpplint.py starts with them. *)
LEMMA InitKeeps == Init => LintInv
  <1>. SUFFICES ASSUME Init PROVE LintInv
    OBVIOUS
  <1>1. TypeOK
    <2>1. filenames \in Seq(DOMAIN Sources)
      BY CommandsAssumption DEF Init, filenames
    <2>2. Len(filenames) \in Nat
      BY <2>1, LenProperties
    <2>. QED
      BY <2>2, CategoriesAssumption DEF Init, TypeOK, Initially
  <1>2. PrintedInv
    <2>1. << >> \in Seq({}) /\ Told({})
      BY EmptySeq DEF Told
    <2>2. AsSevere(<< >>, verbose_level)
      BY <2>1 DEF AsSevere
    <2>. QED
      BY <2>2 DEF Init, PrintedInv
  <1>3. CountInv
    BY KindsAreFinite, TotalOfNone DEF Init, CountInv, Kinds, Initially
  <1>4. Placed
    BY EmptySeq, CategoriesAssumption DEF Init, Placed, FiltersBetweenFiles, InFile, Kinds
  <1>. QED
    BY <1>1, <1>2, <1>3, <1>4 DEF LintInv

(* LintInv holds in every state of a run. *)
LEMMA AlwaysLint == Spec => []LintInv
  <1>1. ASSUME LintInv, [Next]_vars PROVE LintInv'
    <2>1. CASE UNCHANGED vars
      <3>1. UNCHANGED <<pc, status, command, config, current, verbose_level, counting, filters_backup, line_length,
                       filters, error_count, errors_by_category, printed, error_suppressions,
                       level, cfg_filters, keep_looking, line>>
        BY <2>1 DEF vars, settings, counts, walk
      <3>2. Arguments' = Arguments /\ filenames' = filenames
        BY <3>1, SameArguments DEF filenames
      <3>3. PrintedInv' /\ CountInv'
        BY <1>1, <3>1, SilentKeeps DEF counts
      <3>4. TypeOK'
        BY <1>1, <3>1, <3>2 DEF LintInv, TypeOK, HasSign
      <3>5. Placed'
        BY <1>1, <3>1, <3>2 DEF LintInv, Placed, FiltersBetweenFiles, HasSign
      <3>. QED
        BY <3>3, <3>4, <3>5 DEF LintInv
    <2>. QED
      BY <1>1, <2>1, ParseKeeps, NextFileKeeps, LookForConfigKeeps, BadPatternKeeps, ApplyConfigKeeps, FileKeeps,
         SkipFileKeeps, FinishKeeps DEF Next
  <1>. QED
    BY InitKeeps, <1>1, PTL DEF Spec

(* The settings keep their types through options, configurations and files:   *)
(* verbose_level and line_length are any integers, the filters of a file in   *)
(* hand all have a sign, and every error printed is of a known category and   *)
(* at least of the severity asked for.                                        *)
THEOREM SettingsAreTyped == Spec => []TypeOK
  <1>1. LintInv => TypeOK
    BY DEF LintInv
  <1>. QED
    BY AlwaysLint, <1>1, PTL

(* Between two files the filters are those of the command line again, whatever *)
(* CPPLINT.cfg files the file before had and wherever it was left.             *)
THEOREM NoFilterIsLeftBehind == Spec => []FiltersBetweenFiles
  <1>1. LintInv => FiltersBetweenFiles
    BY DEF LintInv, Placed
  <1>. QED
    BY AlwaysLint, <1>1, PTL

(* The errors counted by category, those counted in all and those printed are *)
(* as many, and 0 is the exit status only when none was printed.              *)
THEOREM TheCountsAddUp == Spec => []CountsAddUp
  <1>1. LintInv => CountsAddUp
    BY DEF LintInv, CountInv, Placed, CountsAddUp, Total
  <1>. QED
    BY AlwaysLint, <1>1, PTL

-----------------------------------------------------------------------------
(* What the filters of the options and of the configurations come to. *)
Or(a, b) == IF a # "none" THEN a ELSE b

(* The first that says anything is found from its place. *)
LEMMA FirstIs ==
  ASSUME NEW n \in Nat, NEW s \in SUBSET (1 .. n), NEW v, DOMAIN v = s
  PROVE  /\ (\A i \in s : v[i] = "none") => FirstToSpeak(v) = "none"
         /\ \A i \in s : v[i] # "none" /\ (\A j \in s : j < i => v[j] = "none") => FirstToSpeak(v) = v[i]
  <1>. DEFINE speaking == {i \in DOMAIN v : v[i] # "none"}
  <1>1. FirstToSpeak(v) = IF speaking = {} THEN "none" ELSE v[Min(speaking)]
    BY Zenon DEF FirstToSpeak
  <1>2. speaking \in SUBSET (1 .. n) /\ \A i \in s : i \in speaking <=> v[i] # "none"
    OBVIOUS
  <1>3. ASSUME \A i \in s : v[i] = "none" PROVE FirstToSpeak(v) = "none"
    <2>1. speaking = {}
      BY <1>3
    <2>. QED
      BY <1>1, <2>1
  <1>4. ASSUME NEW i \in s, v[i] # "none", \A j \in s : j < i => v[j] = "none"
        PROVE  FirstToSpeak(v) = v[i]
    <2>1. i \in speaking /\ i \in 1 .. n
      BY <1>2, <1>4
    <2>. DEFINE m == Min(speaking)
    <2>2. m \in speaking /\ m <= i
      <3>. HIDE DEF speaking
      <3>. QED
        BY <1>2, <2>1, LeastExists
    <2>3. m \in s /\ v[m] # "none" /\ m \in 1 .. n
      BY <1>2, <2>2
    <2>. HIDE DEF m, speaking
    <2>4. m = i
      BY <1>4, <2>1, <2>2, <2>3
    <2>5. FirstToSpeak(v) = v[m]
      BY <1>1, <2>1 DEF m
    <2>. QED
      BY <2>4, <2>5
  <1>. QED
    BY <1>3, <1>4

(* One more, after all others, decides if they say nothing. *)
LEMMA FirstAdds ==
  ASSUME NEW n \in Nat, NEW s \in SUBSET (1 .. n), NEW m \in 1 .. n, \A i \in s : i < m,
         NEW v, DOMAIN v = s \cup {m}, NEW u, DOMAIN u = s, \A i \in s : u[i] = v[i]
  PROVE  FirstToSpeak(v) = Or(FirstToSpeak(u), v[m])
  <1>1. s \cup {m} \in SUBSET (1 .. n)
    OBVIOUS
  <1>2. /\ (\A i \in s : u[i] = "none") => FirstToSpeak(u) = "none"
        /\ \A i \in s : u[i] # "none" /\ (\A j \in s : j < i => u[j] = "none") => FirstToSpeak(u) = u[i]
    BY FirstIs
  <1>3. /\ (\A i \in s \cup {m} : v[i] = "none") => FirstToSpeak(v) = "none"
        /\ \A i \in s \cup {m} : v[i] # "none" /\ (\A j \in s \cup {m} : j < i => v[j] = "none")
             => FirstToSpeak(v) = v[i]
    <2>. DEFINE t == s \cup {m}
    <2>1. t \in SUBSET (1 .. n) /\ DOMAIN v = t
      BY <1>1
    <2>. HIDE DEF t
    <2>2. /\ (\A i \in t : v[i] = "none") => FirstToSpeak(v) = "none"
          /\ \A i \in t : v[i] # "none" /\ (\A j \in t : j < i => v[j] = "none")
               => FirstToSpeak(v) = v[i]
      BY <2>1, FirstIs
    <2>. QED
      BY <2>2 DEF t
  <1>4. CASE \A i \in s : u[i] = "none"
    <2>1. FirstToSpeak(u) = "none"
      BY <1>2, <1>4
    <2>2. FirstToSpeak(v) = v[m]
      BY <1>3, <1>4
    <2>. QED
      BY <2>1, <2>2 DEF Or
  <1>5. CASE ~\A i \in s : u[i] = "none"
    <2>. DEFINE speaking == {i \in s : u[i] # "none"}
    <2>1. speaking \in SUBSET (1 .. n) /\ speaking # {}
      BY <1>5
    <2>2. PICK i \in speaking : \A j \in speaking : i <= j
      <3>. HIDE DEF speaking
      <3>. QED
        BY <2>1, LeastExists
    <2>3. i \in s /\ i \in 1 .. n /\ u[i] # "none" /\ \A j \in s : j < i => u[j] = "none"
      BY <2>1, <2>2
    <2>4. FirstToSpeak(u) = u[i]
      BY <1>2, <2>3
    <2>5. \A j \in s \cup {m} : j < i => v[j] = "none"
      BY <2>3
    <2>6. FirstToSpeak(v) = v[i]
      BY <1>3, <2>3, <2>5
    <2>. QED
      BY <2>3, <2>4, <2>6 DEF Or
  <1>. QED
    BY <1>4, <1>5

(* The last filter of a list that covers a category is found from its place. *)
LEMMA VerdictIs ==
  ASSUME NEW fs \in Seq(Filters), NEW category
  PROVE  /\ (\A i \in DOMAIN fs : category \notin fs[i].covers) => Verdict(fs, category) = "none"
         /\ \A i \in DOMAIN fs :
              category \in fs[i].covers /\ (\A j \in DOMAIN fs : j > i => category \notin fs[j].covers)
                => Verdict(fs, category) = fs[i].sign
  <1>. DEFINE hits == {i \in DOMAIN fs : category \in fs[i].covers}
              n == Len(fs)
  <1>0. n \in Nat /\ DOMAIN fs = 1 .. n
    BY LenProperties
  <1>1. Verdict(fs, category) = IF hits = {} THEN "none" ELSE fs[Max(hits)].sign
    BY Zenon DEF Verdict
  <1>. HIDE DEF n
  <1>2. hits \in SUBSET (1 .. n) /\ \A i \in 1 .. n : i \in hits <=> category \in fs[i].covers
    BY <1>0
  <1>3. ASSUME \A i \in DOMAIN fs : category \notin fs[i].covers PROVE Verdict(fs, category) = "none"
    <2>1. hits = {}
      BY <1>3
    <2>. QED
      BY <1>1, <2>1
  <1>4. ASSUME NEW i \in DOMAIN fs, category \in fs[i].covers,
               \A j \in DOMAIN fs : j > i => category \notin fs[j].covers
        PROVE  Verdict(fs, category) = fs[i].sign
    <2>1. i \in hits /\ i \in 1 .. n
      BY <1>0, <1>4
    <2>. DEFINE m == Max(hits)
    <2>2. m \in hits /\ m >= i
      <3>. HIDE DEF hits
      <3>. QED
        BY <1>0, <1>2, <2>1, GreatestExists
    <2>3. m \in 1 .. n /\ category \in fs[m].covers
      BY <1>2, <2>2
    <2>. HIDE DEF m, hits
    <2>4. m = i
      BY <1>0, <1>4, <2>1, <2>2, <2>3
    <2>5. Verdict(fs, category) = fs[m].sign
      BY <1>1, <2>1 DEF m
    <2>. QED
      BY <2>4, <2>5
  <1>. QED
    BY <1>3, <1>4

(* There is such a last one, or none. *)
LEMMA LastCover ==
  ASSUME NEW fs \in Seq(Filters), NEW category, \E i \in DOMAIN fs : category \in fs[i].covers
  PROVE  \E i \in DOMAIN fs : /\ category \in fs[i].covers
                              /\ \A j \in DOMAIN fs : j > i => category \notin fs[j].covers
  <1>. DEFINE hits == {i \in DOMAIN fs : category \in fs[i].covers}
              n == Len(fs)
  <1>1. n \in Nat /\ DOMAIN fs = 1 .. n
    BY LenProperties
  <1>. HIDE DEF n
  <1>2. hits \in SUBSET (1 .. n) /\ hits # {}
    BY <1>1
  <1>3. PICK i \in hits : \A j \in hits : i >= j
    <2>. HIDE DEF hits
    <2>. QED
      BY <1>1, <1>2, GreatestExists
  <1>4. \A j \in 1 .. n : j > i => j \notin hits
    BY <1>2, <1>3
  <1>. QED
    BY <1>1, <1>3, <1>4

(* Of two lists put together, the second decides if it says anything. *)
LEMMA VerdictOfTwo ==
  ASSUME NEW a \in Seq(Filters), NEW b \in Seq(Filters), HasSign(b), NEW category
  PROVE  Verdict(a \o b, category) = Or(Verdict(b, category), Verdict(a, category))
  <1>. DEFINE c == a \o b
  <1>1. /\ c \in Seq(Filters) /\ Len(c) = Len(a) + Len(b)
        /\ \A i \in 1 .. Len(a) + Len(b) : c[i] = IF i <= Len(a) THEN a[i] ELSE b[i - Len(a)]
    BY ConcatProperties
  <1>2. /\ Len(a) \in Nat /\ DOMAIN a = 1 .. Len(a) /\ Len(b) \in Nat /\ DOMAIN b = 1 .. Len(b)
        /\ DOMAIN c = 1 .. Len(a) + Len(b)
    BY <1>1, LenProperties
  <1>. HIDE DEF c
  <1>3. /\ \A i \in 1 .. Len(a) : i \in 1 .. Len(a) + Len(b) /\ c[i] = a[i]
        /\ \A i \in 1 .. Len(b) : i + Len(a) \in 1 .. Len(a) + Len(b) /\ c[i + Len(a)] = b[i]
        /\ \A j \in 1 .. Len(a) + Len(b) : j > Len(a) => j - Len(a) \in 1 .. Len(b) /\ c[j] = b[j - Len(a)]
    <2>1. ASSUME NEW i \in 1 .. Len(b)
          PROVE  i + Len(a) \in 1 .. Len(a) + Len(b) /\ c[i + Len(a)] = b[i]
      <3>1. i + Len(a) \in 1 .. Len(a) + Len(b) /\ ~(i + Len(a) <= Len(a)) /\ (i + Len(a)) - Len(a) = i
        BY <1>2
      <3>. QED
        BY <1>1, <3>1
    <2>2. \A i \in 1 .. Len(a) : i \in 1 .. Len(a) + Len(b) /\ c[i] = a[i]
      BY <1>1, <1>2
    <2>3. ASSUME NEW j \in 1 .. Len(a) + Len(b), j > Len(a)
          PROVE  j - Len(a) \in 1 .. Len(b) /\ c[j] = b[j - Len(a)]
      <3>1. j - Len(a) \in 1 .. Len(b) /\ ~(j <= Len(a))
        BY <1>2, <2>3
      <3>. QED
        BY <1>1, <3>1
    <2>. QED
      BY <2>1, <2>2, <2>3
  <1>4. CASE \E i \in DOMAIN b : category \in b[i].covers
    <2>1. PICK i \in DOMAIN b : /\ category \in b[i].covers
                                /\ \A j \in DOMAIN b : j > i => category \notin b[j].covers
      BY <1>4, LastCover
    <2>2. Verdict(b, category) = b[i].sign /\ b[i].sign # "none"
      BY <2>1, VerdictIs DEF HasSign
    <2>. DEFINE k == i + Len(a)
    <2>3. k \in DOMAIN c /\ c[k] = b[i]
      BY <1>2, <1>3
    <2>4. ASSUME NEW j \in DOMAIN c, j > k PROVE category \notin c[j].covers
      <3>1. j - Len(a) \in DOMAIN b /\ j - Len(a) > i /\ c[j] = b[j - Len(a)]
        BY <1>2, <1>3, <2>4
      <3>. QED
        BY <2>1, <3>1
    <2>. HIDE DEF k
    <2>5. Verdict(c, category) = c[k].sign
      BY <1>1, <2>1, <2>3, <2>4, VerdictIs
    <2>. QED
      BY <2>2, <2>3, <2>5 DEF Or, c
  <1>5. CASE ~\E i \in DOMAIN b : category \in b[i].covers
    <2>1. Verdict(b, category) = "none"
      BY <1>5, VerdictIs
    <2>2. \A j \in DOMAIN c : j > Len(a) => category \notin c[j].covers
      BY <1>2, <1>3, <1>5
    <2>3. CASE \E i \in DOMAIN a : category \in a[i].covers
      <3>1. PICK i \in DOMAIN a : /\ category \in a[i].covers
                                  /\ \A j \in DOMAIN a : j > i => category \notin a[j].covers
        BY <2>3, LastCover
      <3>2. Verdict(a, category) = a[i].sign
        BY <3>1, VerdictIs
      <3>3. i \in DOMAIN c /\ c[i] = a[i]
        BY <1>2, <1>3
      <3>4. ASSUME NEW j \in DOMAIN c, j > i PROVE category \notin c[j].covers
        <4>1. CASE j > Len(a)
          BY <2>2, <4>1
        <4>2. CASE ~(j > Len(a))
          <5>1. j \in DOMAIN a /\ c[j] = a[j]
            BY <1>2, <1>3, <4>2
          <5>. QED
            BY <3>1, <3>4, <5>1
        <4>. QED
          BY <4>1, <4>2
      <3>5. Verdict(c, category) = c[i].sign
        BY <1>1, <3>1, <3>3, <3>4, VerdictIs
      <3>. QED
        BY <2>1, <3>2, <3>3, <3>5 DEF Or, c
    <2>4. CASE ~\E i \in DOMAIN a : category \in a[i].covers
      <3>1. Verdict(a, category) = "none"
        BY <2>4, VerdictIs
      <3>2. ASSUME NEW j \in DOMAIN c PROVE category \notin c[j].covers
        <4>1. CASE j > Len(a)
          BY <2>2, <4>1
        <4>2. CASE ~(j > Len(a))
          BY <1>2, <1>3, <2>4, <4>2
        <4>. QED
          BY <4>1, <4>2
      <3>3. Verdict(c, category) = "none"
        BY <1>1, <3>2, VerdictIs
      <3>. QED
        BY <2>1, <3>1, <3>3 DEF Or, c
    <2>. QED
      BY <2>3, <2>4
  <1>. QED
    BY <1>4, <1>5

(* A category is filtered when the last filter that covers it has a minus. *)
LEMMA FilteredIs ==
  ASSUME filters \in Seq(Filters), NEW category
  PROVE  IsFiltered(category) <=> Verdict(filters, category) = "-"
  <1>. DEFINE D == 1 .. Len(filters)
              Add(filtered, f) == IF category \in f.covers THEN f.sign = "-" ELSE filtered
              step == [vx \in BOOLEAN \X D |-> Add(vx[1], filters[vx[2]])]
              F(f) == [s \in SUBSET D |-> IF s = {} THEN FALSE ELSE Add(f[s \ {Max(s)}], filters[Max(s)])]
              g == CHOOSE f : f = F(f)
              Off(s) == \E i \in s : /\ category \in filters[i].covers /\ filters[i].sign = "-"
                                     /\ \A j \in s : j > i => category \notin filters[j].covers
              Good == {s \in SUBSET D : g[s] <=> Off(s)}
  <1>0. DOMAIN filters = D /\ Len(filters) \in Nat
    BY LenProperties
  <1>1. Picks(D)
    BY <1>0, GreatestPicks
  <1>2. \A s \in SUBSET D : s # {} => Max(s) \in s /\ Max(s) \in Nat
                                     /\ \A j \in s : j \in Nat /\ j <= Max(s)
    <2>1. ASSUME NEW s \in SUBSET D, s # {}
          PROVE  Max(s) \in s /\ \A j \in s : Max(s) >= j
      BY <1>0, <2>1, GreatestExists
    <2>2. \A i \in D : i \in Nat
      BY <1>0
    <2>. HIDE DEF D
    <2>. QED
      BY <2>1, <2>2
  <1>. HIDE DEF D
  <1>3. IsFiltered(category) = g[D]
    BY <1>0 DEF IsFiltered, FoldLeft, MapThenFoldSet
  <1>4. \A v \in BOOLEAN, i \in D : Add(v, filters[i]) \in BOOLEAN
    OBVIOUS
  <1>. HIDE DEF Add
  <1>5. \E f \in [SUBSET D -> BOOLEAN] : f = F(f)
    <2>1. step \in [BOOLEAN \X D -> BOOLEAN]
      BY <1>4
    <2>2. \A v \in BOOLEAN, i \in D : step[<<v, i>>] = Add(v, filters[i])
      OBVIOUS
    <2>. HIDE DEF step
    <2>3. Foldable(D, BOOLEAN, FALSE, Greatest(D), step)
      BY <1>1, <2>1 DEF Foldable, Picks
    <2>4. PICK f : IsFold(f, D, BOOLEAN, FALSE, Greatest(D), step)
      BY <2>3, FoldExists DEF HasFold
    <2>5. \A s \in SUBSET D : s # {} =>
            step[<<f[s \ {Max(s)}], Max(s)>>] = Add(f[s \ {Max(s)}], filters[Max(s)])
      BY <1>1, <2>2, <2>4 DEF IsFold, Picks
    <2>6. f = F(f)
      <3>1. f = [s \in SUBSET D |-> f[s]]
        BY <2>4 DEF IsFold
      <3>2. \A s \in SUBSET D :
              f[s] = IF s = {} THEN FALSE ELSE Add(f[s \ {Max(s)}], filters[Max(s)])
        <4>1. ASSUME NEW s \in SUBSET D
              PROVE  f[s] = IF s = {} THEN FALSE ELSE step[<<f[s \ {Max(s)}], Max(s)>>]
          BY <1>1, <2>4, Zenon DEF IsFold, Picks
        <4>. QED
          BY <2>5, <4>1, Zenon
      <3>. QED
        BY <3>1, <3>2, Zenon
    <2>. QED
      BY <2>4, <2>6, Zenon DEF IsFold
  <1>6. g = F(g)
    BY <1>5, Zenon
  <1>. HIDE DEF g
  <1>7. D \in Good
    <2>1. {} \in Good
      <3>1. g[{}] = FALSE
        BY <1>6
      <3>. QED
        BY <3>1
    <2>2. ASSUME NEW s \in SUBSET D, s # {}, s \ {Max(s)} \in Good PROVE s \in Good
      <3>. DEFINE m == Max(s)
                  r == s \ {m}
      <3>1. g[s] = Add(g[r], filters[m])
        BY <1>6, <2>2
      <3>2. m \in s /\ \A j \in s : j \in Nat /\ m \in Nat /\ j <= m
        BY <1>2, <2>2
      <3>3. g[r] <=> Off(r)
        BY <2>2
      <3>. HIDE DEF m, g
      <3>4. CASE category \in filters[m].covers
        <4>1. g[s] <=> filters[m].sign = "-"
          BY <3>1, <3>4 DEF Add
        <4>2. Off(s) <=> filters[m].sign = "-"
          BY <3>2, <3>4
        <4>. QED
          BY <4>1, <4>2
      <3>5. CASE category \notin filters[m].covers
        <4>1. g[s] <=> g[r]
          BY <3>1, <3>5 DEF Add
        <4>2. Off(s) <=> Off(r)
          BY <3>2, <3>5
        <4>. QED
          BY <3>3, <4>1, <4>2
      <3>. QED
        BY <3>4, <3>5
    <2>. HIDE DEF Good
    <2>3. Kept(D, Greatest(D), Good)
      BY <1>1, <2>1, <2>2 DEF Kept, Picks
    <2>. QED
      BY <2>3, FoldKeeps
  <1>8. Off(D) <=> Verdict(filters, category) = "-"
    <2>1. CASE \E i \in D : category \in filters[i].covers
      <3>1. PICK i \in D : /\ category \in filters[i].covers
                           /\ \A j \in D : j > i => category \notin filters[j].covers
        BY <1>0, <2>1, LastCover
      <3>2. Verdict(filters, category) = filters[i].sign
        BY <1>0, <3>1, VerdictIs
      <3>3. Off(D) <=> filters[i].sign = "-"
        <4>1. D \subseteq Nat
          BY <1>0 DEF D
        <4>. QED
          BY <3>1, <4>1
      <3>. QED
        BY <3>2, <3>3
    <2>2. CASE ~\E i \in D : category \in filters[i].covers
      BY <1>0, <2>2, VerdictIs
    <2>. QED
      BY <2>1, <2>2
  <1>9. g[D] <=> Off(D)
    BY <1>7
  <1>. HIDE DEF Off
  <1>. QED
    BY <1>3, <1>8, <1>9

(* Of lists put together, the last that says anything of a category decides. *)
LastSays(vs, m, verdict) ==
  \/ verdict = "none" /\ \A i \in 1 .. m : vs[i] = "none"
  \/ \E i \in 1 .. m : /\ verdict = vs[i] /\ vs[i] # "none"
                       /\ \A j \in 1 .. m : j > i => vs[j] = "none"

(* One list more. *)
LEMMA LastSaysNext ==
  ASSUME NEW vs, NEW m \in Nat, NEW before, LastSays(vs, m, before),
         NEW verdict, verdict = Or(vs[m + 1], before)
  PROVE  LastSays(vs, m + 1, verdict)
  <1>1. 1 .. m + 1 = (1 .. m) \cup {m + 1} /\ \A j \in 1 .. m : ~(j > m + 1)
    OBVIOUS
  <1>2. CASE vs[m + 1] # "none"
    <2>1. verdict = vs[m + 1]
      BY <1>2 DEF Or
    <2>2. m + 1 \in 1 .. m + 1 /\ \A j \in 1 .. m + 1 : ~(j > m + 1)
      OBVIOUS
    <2>. QED
      BY <1>2, <2>1, <2>2 DEF LastSays
  <1>3. CASE vs[m + 1] = "none"
    <2>1. verdict = before
      BY <1>3 DEF Or
    <2>2. CASE before = "none" /\ \A i \in 1 .. m : vs[i] = "none"
      BY <1>1, <1>3, <2>1, <2>2 DEF LastSays
    <2>3. CASE \E i \in 1 .. m : /\ before = vs[i] /\ vs[i] # "none"
                                 /\ \A j \in 1 .. m : j > i => vs[j] = "none"
      <3>1. PICK i \in 1 .. m : /\ before = vs[i] /\ vs[i] # "none"
                                /\ \A j \in 1 .. m : j > i => vs[j] = "none"
        BY <2>3
      <3>2. i \in 1 .. m + 1 /\ \A j \in 1 .. m + 1 : j > i => vs[j] = "none"
        BY <1>1, <1>3, <3>1
      <3>. QED
        BY <2>1, <3>1, <3>2 DEF LastSays
    <2>. QED
      BY <2>2, <2>3 DEF LastSays
  <1>. QED
    BY <1>2, <1>3

(* What a whole row of lists says. *)
LEMMA VerdictOfFlat ==
  ASSUME NEW seqs \in Seq(Seq(Filters)), \A i \in DOMAIN seqs : HasSign(seqs[i]), NEW category
  PROVE  LastSays([i \in DOMAIN seqs |-> Verdict(seqs[i], category)], Len(seqs),
                  Verdict(FlattenSeq(seqs), category))
  <1>. DEFINE n == Len(seqs)
              vs == [i \in DOMAIN seqs |-> Verdict(seqs[i], category)]
              F(f, m) == [i \in 1 .. m |-> IF i = 1 THEN seqs[i] ELSE f[i - 1] \o seqs[i]]
              g == CHOOSE f : f = F(f, n)
              Q(f) == {m \in Nat : 1 <= m /\ m <= n =>
                         f[m] \in Seq(Filters) /\ LastSays(vs, m, Verdict(f[m], category))}
  <1>0. /\ n \in Nat /\ DOMAIN seqs = 1 .. n
        /\ \A i \in 1 .. n : seqs[i] \in Seq(Filters) /\ HasSign(seqs[i])
    BY LenProperties, ElementOfSeq
  <1>1. FlattenSeq(seqs) = IF n = 0 THEN seqs ELSE g[n]
    BY Zenon DEF FlattenSeq
  <1>. HIDE DEF n
  <1>2. \E f : f = F(f, n)
    BY <1>0, FlattenExists DEF n
  <1>3. g = F(g, n)
    BY <1>2, Zenon
  <1>4. \A i \in 1 .. n : vs[i] = Verdict(seqs[i], category)
    BY <1>0
  <1>. HIDE DEF g, vs
  <1>5. Nat \subseteq Q(g)
    <2>1. 0 \in Q(g)
      OBVIOUS
    <2>2. ASSUME NEW m \in Nat, m \in Q(g) PROVE m + 1 \in Q(g)
      <3>1. ASSUME m + 1 <= n
            PROVE  g[m + 1] \in Seq(Filters) /\ LastSays(vs, m + 1, Verdict(g[m + 1], category))
        <4>1. m + 1 \in 1 .. n /\ (m + 1) - 1 = m
          BY <1>0, <3>1
        <4>2. g[m + 1] = IF m + 1 = 1 THEN seqs[m + 1] ELSE g[m] \o seqs[m + 1]
          BY <1>3, <4>1
        <4>3. seqs[m + 1] \in Seq(Filters) /\ HasSign(seqs[m + 1]) /\ vs[m + 1] = Verdict(seqs[m + 1], category)
          BY <1>0, <1>4, <4>1
        <4>4. CASE m = 0
          <5>1. g[m + 1] = seqs[m + 1] /\ LastSays(vs, m, "none")
            BY <4>2, <4>4 DEF LastSays
          <5>2. Verdict(g[m + 1], category) = Or(vs[m + 1], "none")
            BY <4>3, <5>1 DEF Or
          <5>. QED
            BY <4>3, <5>1, <5>2, LastSaysNext
        <4>5. CASE m # 0
          <5>1. g[m] \in Seq(Filters) /\ LastSays(vs, m, Verdict(g[m], category))
            BY <1>0, <2>2, <3>1, <4>5
          <5>2. g[m + 1] = g[m] \o seqs[m + 1]
            <6>1. m + 1 # 1
              BY <4>5
            <6>. QED
              BY <4>2, <6>1, Zenon
          <5>3. g[m + 1] \in Seq(Filters)
            BY <4>3, <5>1, <5>2, SignsAdd
          <5>4. Verdict(g[m + 1], category) = Or(vs[m + 1], Verdict(g[m], category))
            BY <4>3, <5>1, <5>2, VerdictOfTwo
          <5>. QED
            BY <5>1, <5>3, <5>4, LastSaysNext
        <4>. QED
          BY <4>4, <4>5
      <3>. QED
        BY <3>1
    <2>. HIDE DEF Q
    <2>. QED
      BY <2>1, <2>2, SetInduction
  <1>6. CASE n = 0
    <2>1. FlattenSeq(seqs) = seqs /\ DOMAIN seqs = {} /\ seqs = << >>
      BY <1>0, <1>1, <1>6, EmptySeq DEF n
    <2>2. Verdict(FlattenSeq(seqs), category) = "none"
      <3>1. << >> \in Seq(Filters) /\ DOMAIN << >> = {}
        BY EmptySeq
      <3>. QED
        BY <2>1, <3>1, VerdictIs
    <2>. QED
      BY <1>6, <2>2 DEF LastSays, vs, n
  <1>7. CASE n # 0
    <2>1. FlattenSeq(seqs) = g[n]
      BY <1>1, <1>7
    <2>2. n \in Q(g)
      <3>. HIDE DEF Q
      <3>. QED
        BY <1>0, <1>5
    <2>3. LastSays(vs, n, Verdict(g[n], category))
      BY <1>0, <1>7, <2>2
    <2>. QED
      BY <2>1, <2>3 DEF vs, n
  <1>. QED
    BY <1>6, <1>7

(* What the lists of filters gathered on the walk say, first to last. *)
Said(lists, category) == FirstToSpeak([i \in DOMAIN lists |-> Verdict(lists[i], category)])

(* Applied in the opposite order, the first of them decides. *)
LEMMA VerdictOfWalk ==
  ASSUME NEW lists \in Seq(Seq(Filters)), \A i \in DOMAIN lists : HasSign(lists[i]), NEW category
  PROVE  Verdict(FlattenSeq(Reverse(lists)), category) = Said(lists, category)
  <1>. DEFINE n == Len(lists)
              seqs == Reverse(lists)
              w == [i \in DOMAIN lists |-> Verdict(lists[i], category)]
              vs == [i \in DOMAIN seqs |-> Verdict(seqs[i], category)]
              verdict == Verdict(FlattenSeq(seqs), category)
  <1>1. /\ n \in Nat /\ DOMAIN lists = 1 .. n /\ seqs \in Seq(Seq(Filters)) /\ DOMAIN seqs = 1 .. n
        /\ Len(seqs) = n
    BY LenProperties, ReverseTyped
  <1>2. \A i \in 1 .. n : seqs[i] = lists[(n - i) + 1] /\ (n - i) + 1 \in 1 .. n
    BY <1>1 DEF Reverse
  <1>. HIDE DEF n, seqs
  <1>3. \A i \in 1 .. n : HasSign(seqs[i])
    BY <1>1, <1>2
  <1>4. LastSays(vs, n, verdict)
    BY <1>1, <1>3, VerdictOfFlat
  <1>5. \A i \in 1 .. n : (n - i) + 1 \in 1 .. n /\ vs[i] = w[(n - i) + 1]
    BY <1>1, <1>2
  <1>6. DOMAIN w = 1 .. n /\ 1 .. n \in SUBSET (1 .. n)
    BY <1>1
  <1>7. Said(lists, category) = FirstToSpeak(w)
    BY DEF Said
  <1>. HIDE DEF w, vs, verdict
  <1>8. /\ (\A i \in 1 .. n : w[i] = "none") => FirstToSpeak(w) = "none"
        /\ \A i \in 1 .. n : w[i] # "none" /\ (\A j \in 1 .. n : j < i => w[j] = "none")
             => FirstToSpeak(w) = w[i]
    <2>. DEFINE D == 1 .. n
    <2>1. D \in SUBSET (1 .. n) /\ DOMAIN w = D
      BY <1>6
    <2>. HIDE DEF D
    <2>2. /\ (\A i \in D : w[i] = "none") => FirstToSpeak(w) = "none"
          /\ \A i \in D : w[i] # "none" /\ (\A j \in D : j < i => w[j] = "none") => FirstToSpeak(w) = w[i]
      BY <1>1, <2>1, FirstIs
    <2>. QED
      BY <2>2 DEF D
  <1>9. \A k \in 1 .. n : (n - k) + 1 \in 1 .. n /\ w[k] = vs[(n - k) + 1]
    <2>1. ASSUME NEW k \in 1 .. n PROVE (n - k) + 1 \in 1 .. n /\ w[k] = vs[(n - k) + 1]
      <3>1. (n - k) + 1 \in 1 .. n /\ (n - ((n - k) + 1)) + 1 = k
        BY <1>1
      <3>. QED
        BY <1>5, <3>1
    <2>. QED
      BY <2>1
  <1>10. CASE verdict = "none" /\ \A i \in 1 .. n : vs[i] = "none"
    <2>1. \A k \in 1 .. n : w[k] = "none"
      BY <1>9, <1>10
    <2>. QED
      BY <1>7, <1>8, <1>10, <2>1 DEF verdict, seqs
  <1>11. CASE \E i \in 1 .. n : /\ verdict = vs[i] /\ vs[i] # "none"
                                /\ \A j \in 1 .. n : j > i => vs[j] = "none"
    <2>1. PICK i \in 1 .. n : /\ verdict = vs[i] /\ vs[i] # "none"
                              /\ \A j \in 1 .. n : j > i => vs[j] = "none"
      BY <1>11
    <2>. DEFINE k == (n - i) + 1
    <2>2. k \in 1 .. n /\ w[k] = vs[i]
      BY <1>5
    <2>3. ASSUME NEW j \in 1 .. n, j < k PROVE w[j] = "none"
      <3>1. (n - j) + 1 > i
        BY <1>1, <2>3
      <3>. QED
        BY <1>9, <2>1, <3>1
    <2>. HIDE DEF k
    <2>4. FirstToSpeak(w) = w[k]
      BY <1>8, <2>1, <2>2, <2>3
    <2>. QED
      BY <1>7, <2>1, <2>2, <2>4 DEF verdict, seqs
  <1>. QED
    BY <1>4, <1>10, <1>11 DEF LastSays

(* One list more at the end. *)
LEMMA SaidAppend ==
  ASSUME NEW lists \in Seq(Seq(Filters)), NEW fs \in Seq(Filters), NEW category
  PROVE  Said(Append(lists, fs), category) = Or(Said(lists, category), Verdict(fs, category))
  <1>. DEFINE n == Len(lists)
              more == Append(lists, fs)
              u == [i \in DOMAIN lists |-> Verdict(lists[i], category)]
              v == [i \in DOMAIN more |-> Verdict(more[i], category)]
  <1>1. /\ n \in Nat /\ DOMAIN lists = 1 .. n /\ DOMAIN more = 1 .. n + 1
        /\ more[n + 1] = fs /\ \A i \in 1 .. n : more[i] = lists[i]
    <2>. DEFINE S == Seq(Filters)
    <2>1. lists \in Seq(S) /\ fs \in S
      OBVIOUS
    <2>. HIDE DEF S
    <2>2. more \in Seq(S) /\ Len(more) = n + 1 /\ n \in Nat /\ DOMAIN lists = 1 .. n
      BY <2>1, AppendProperties, LenProperties
    <2>3. DOMAIN more = 1 .. n + 1
      BY <2>2, LenProperties
    <2>4. more[n + 1] = fs /\ \A i \in 1 .. n : more[i] = lists[i]
      BY <2>1, AppendProperties
    <2>. QED
      BY <2>2, <2>3, <2>4
  <1>2. Said(more, category) = FirstToSpeak(v) /\ Said(lists, category) = FirstToSpeak(u)
    BY DEF Said
  <1>. HIDE DEF n, more
  <1>3. DOMAIN u = 1 .. n /\ DOMAIN v = (1 .. n) \cup {n + 1} /\ v[n + 1] = Verdict(fs, category)
        /\ \A i \in 1 .. n : u[i] = v[i]
    <2>1. 1 .. n + 1 = (1 .. n) \cup {n + 1}
      BY <1>1
    <2>. QED
      BY <1>1, <2>1
  <1>. HIDE DEF u, v
  <1>. DEFINE D == 1 .. n
              m == n + 1
  <1>4. m \in Nat /\ D \in SUBSET (1 .. m) /\ m \in 1 .. m /\ \A i \in D : i < m
    BY <1>1
  <1>5. DOMAIN u = D /\ DOMAIN v = D \cup {m} /\ \A i \in D : u[i] = v[i]
    BY <1>3
  <1>. HIDE DEF D, m
  <1>6. FirstToSpeak(v) = Or(FirstToSpeak(u), v[m])
    BY <1>4, <1>5, FirstAdds
  <1>. QED
    BY <1>2, <1>3, <1>6 DEF m, more

ExcludesBy(base, l) == l.name = "exclude_files" /\ base \in l.val

(* What one line of a CPPLINT.cfg says of the file, the walk and a category. *)
LEMMA ConfigLineIs ==
  ASSUME NEW c \in Overridden, NEW base, NEW l, Takes(l), NEW d, d = ConfigLine(base, c, l)
  PROVE  /\ d.excluded <=> c.excluded \/ ExcludesBy(base, l)
         /\ ~d.excluded => /\ d.keep_looking <=> c.keep_looking /\ l.name # "set_noparent"
                           /\ \A category : Said(d.cfg_filters, category)
                                = Or(Said(c.cfg_filters, category), OfConfigLine(l, category))
  <1>0. d \in Overridden
    BY ConfigLineTyped
  <1>1. CASE c.excluded
    BY <1>1 DEF ConfigLine
  <1>. SUFFICES ASSUME ~c.excluded
                PROVE  /\ d.excluded <=> ExcludesBy(base, l)
                       /\ ~d.excluded => /\ d.keep_looking <=> c.keep_looking /\ l.name # "set_noparent"
                                         /\ \A category : Said(d.cfg_filters, category)
                                              = Or(Said(c.cfg_filters, category), OfConfigLine(l, category))
    BY <1>1
  <1>2. \A a : Or(a, "none") = a
    BY DEF Or
  <1>3. CASE l.name = "set_noparent"
    <2>1. d = [c EXCEPT !.keep_looking = FALSE]
      BY <1>3 DEF ConfigLine
    <2>2. ~d.excluded /\ ~d.keep_looking /\ d.cfg_filters = c.cfg_filters
      BY <2>1 DEF Overridden
    <2>3. ~ExcludesBy(base, l) /\ \A category : OfConfigLine(l, category) = "none"
      BY <1>3 DEF ExcludesBy, OfConfigLine
    <2>. QED
      BY <1>2, <1>3, <2>2, <2>3
  <1>4. CASE l.name = "filter"
    <2>1. d = [c EXCEPT !.cfg_filters = Append(@, l.val)]
      BY <1>4 DEF ConfigLine
    <2>2. ~d.excluded /\ d.keep_looking = c.keep_looking /\ d.cfg_filters = Append(c.cfg_filters, l.val)
      BY <2>1 DEF Overridden
    <2>3. ~ExcludesBy(base, l) /\ \A category : OfConfigLine(l, category) = Verdict(l.val, category)
      BY <1>4 DEF ExcludesBy, OfConfigLine
    <2>4. c.cfg_filters \in Seq(Seq(Filters)) /\ l.val \in Seq(Filters)
      BY <1>4 DEF Overridden, Takes
    <2>5. \A category : Said(Append(c.cfg_filters, l.val), category)
                          = Or(Said(c.cfg_filters, category), Verdict(l.val, category))
      BY <2>4, SaidAppend
    <2>. QED
      BY <1>4, <2>2, <2>3, <2>5
  <1>5. CASE l.name = "exclude_files"
    <2>. DEFINE b == base \in l.val
    <2>1. d = [c EXCEPT !.excluded = b] /\ b \in BOOLEAN
      BY <1>5 DEF ConfigLine
    <2>2. ExcludesBy(base, l) <=> b
      BY <1>5 DEF ExcludesBy
    <2>. HIDE DEF b
    <2>3. d.excluded = b /\ d.keep_looking = c.keep_looking /\ d.cfg_filters = c.cfg_filters
      BY <2>1 DEF Overridden
    <2>4. \A category : OfConfigLine(l, category) = "none"
      BY <1>5 DEF OfConfigLine
    <2>. QED
      BY <1>2, <1>5, <2>2, <2>3, <2>4
  <1>6. CASE l.name \notin {"set_noparent", "filter", "exclude_files"}
    <2>1. ~d.excluded /\ d.keep_looking = c.keep_looking /\ d.cfg_filters = c.cfg_filters
      <3>1. CASE l.name = "linelength"
        <4>1. d = [c EXCEPT !.line_length = l.val]
          BY <3>1 DEF ConfigLine
        <4>. QED
          BY <4>1 DEF Overridden
      <3>2. CASE l.name # "linelength"
        BY <1>6, <3>2 DEF ConfigLine
      <3>. QED
        BY <3>1, <3>2
    <2>2. ~ExcludesBy(base, l) /\ \A category : OfConfigLine(l, category) = "none"
      BY <1>6 DEF ExcludesBy, OfConfigLine
    <2>. QED
      BY <1>2, <1>6, <2>1, <2>2
  <1>. QED
    BY <1>3, <1>4, <1>5, <1>6

(* What the lines at the places s of a CPPLINT.cfg make of the settings c. *)
AfterConfigLines(s, base, lines, c) ==
  /\ c \in Overridden
  /\ c.excluded <=> \E j \in s : ExcludesBy(base, lines[j])
  /\ ~c.excluded =>
       /\ c.keep_looking <=> \A j \in s : lines[j].name # "set_noparent"
       /\ \A category : Said(c.cfg_filters, category)
            = Or(Said(cfg_filters, category),
                 FirstToSpeak([j \in s |-> OfConfigLine(lines[j], category)]))

(* Said in the order of the lines. *)
LEMMA ReadConfigIs ==
  ASSUME NEW base, NEW S, NEW lines \in Seq(S), \A l \in S : Takes(l),
         cfg_filters \in Seq(Seq(Filters)), line_length \in Int
  PROVE  AfterConfigLines(DOMAIN lines, base, lines, ReadConfig(base, lines))
  <1>. DEFINE D == 1 .. Len(lines)
              start == [keep_looking |-> TRUE, cfg_filters |-> cfg_filters,
                        line_length |-> line_length, excluded |-> FALSE]
              Line(c, l) == ConfigLine(base, c, l)
              step == [vx \in Overridden \X D |-> Line(vx[1], lines[vx[2]])]
              F(f) == [s \in SUBSET D |-> IF s = {} THEN start ELSE Line(f[s \ {Max(s)}], lines[Max(s)])]
              g == CHOOSE f : f = F(f)
              Good == {s \in SUBSET D : AfterConfigLines(s, base, lines, g[s])}
  <1>0. DOMAIN lines = D /\ Len(lines) \in Nat /\ \A i \in D : Takes(lines[i])
    BY LenProperties, ElementOfSeq
  <1>1. Picks(D)
    BY <1>0, GreatestPicks
  <1>10. ASSUME NEW s \in SUBSET D, s # {}
         PROVE  /\ Max(s) \in s /\ Max(s) \in 1 .. Len(lines) /\ s \ {Max(s)} \in SUBSET (1 .. Len(lines))
                /\ \A j \in s \ {Max(s)} : j < Max(s)
    <2>1. Max(s) \in s /\ \A j \in s : Max(s) >= j
      BY <1>0, <1>10, GreatestExists
    <2>. DEFINE m == Max(s)
    <2>2. m \in 1 .. Len(lines) /\ \A j \in s : j \in 1 .. Len(lines)
      BY <2>1
    <2>. HIDE DEF m
    <2>3. \A j \in s \ {m} : j < m
      BY <1>0, <2>1, <2>2 DEF m
    <2>. QED
      BY <2>1, <2>2, <2>3 DEF m
  <1>. HIDE DEF D
  <1>2. ReadConfig(base, lines) = g[D]
    BY <1>0 DEF ReadConfig, FoldLeft, MapThenFoldSet
  <1>3. start \in Overridden /\ start.keep_looking /\ ~start.excluded /\ start.cfg_filters = cfg_filters
    BY DEF Overridden
  <1>4. \A v \in Overridden, i \in D : Line(v, lines[i]) \in Overridden
    BY <1>0, ConfigLineTyped
  <1>. HIDE DEF start, Line
  <1>5. \E f \in [SUBSET D -> Overridden] : f = F(f)
    <2>1. step \in [Overridden \X D -> Overridden]
      BY <1>4
    <2>2. \A v \in Overridden, i \in D : step[<<v, i>>] = Line(v, lines[i])
      OBVIOUS
    <2>. HIDE DEF step
    <2>3. Foldable(D, Overridden, start, Greatest(D), step)
      BY <1>1, <1>3, <2>1 DEF Foldable, Picks
    <2>4. PICK f : IsFold(f, D, Overridden, start, Greatest(D), step)
      BY <2>3, FoldExists DEF HasFold
    <2>5. \A s \in SUBSET D : s # {} =>
            step[<<f[s \ {Max(s)}], Max(s)>>] = Line(f[s \ {Max(s)}], lines[Max(s)])
      BY <1>1, <2>2, <2>4 DEF IsFold, Picks
    <2>6. f = F(f)
      <3>1. f = [s \in SUBSET D |-> f[s]]
        BY <2>4 DEF IsFold
      <3>2. \A s \in SUBSET D :
              f[s] = IF s = {} THEN start ELSE Line(f[s \ {Max(s)}], lines[Max(s)])
        <4>1. ASSUME NEW s \in SUBSET D
              PROVE  f[s] = IF s = {} THEN start ELSE step[<<f[s \ {Max(s)}], Max(s)>>]
          BY <1>1, <2>4, Zenon DEF IsFold, Picks
        <4>. QED
          BY <2>5, <4>1, Zenon
      <3>. QED
        BY <3>1, <3>2, Zenon
    <2>. QED
      BY <2>4, <2>6, Zenon DEF IsFold
  <1>6. g = F(g)
    BY <1>5, Zenon
  <1>. HIDE DEF g
  <1>7. D \in Good
    <2>1. {} \in Good
      <3>1. g[{}] = start
        BY <1>6
      <3>2. ASSUME NEW category PROVE FirstToSpeak([j \in {} |-> OfConfigLine(lines[j], category)]) = "none"
        <4>. DEFINE v == [j \in {} |-> OfConfigLine(lines[j], category)]
                    E == {}
        <4>1. DOMAIN v = E /\ E \in SUBSET (1 .. 0) /\ \A i \in E : v[i] = "none"
          OBVIOUS
        <4>. HIDE DEF v, E
        <4>2. FirstToSpeak(v) = "none"
          BY <4>1, FirstIs
        <4>. QED
          BY <4>2 DEF v
      <3>3. \A category : Said(start.cfg_filters, category)
              = Or(Said(cfg_filters, category), FirstToSpeak([j \in {} |-> OfConfigLine(lines[j], category)]))
        BY <1>3, <3>2 DEF Or
      <3>4. AfterConfigLines({}, base, lines, start)
        BY <1>3, <3>3 DEF AfterConfigLines
      <3>. QED
        BY <3>1, <3>4
    <2>2. ASSUME NEW s \in SUBSET D, s # {}, s \ {Max(s)} \in Good PROVE s \in Good
      <3>. DEFINE m == Max(s)
                  r == s \ {m}
                  c == g[r]
                  l == lines[m]
                  d == g[s]
      <3>1. d = ConfigLine(base, c, l) /\ m \in D
        BY <1>1, <1>6, <2>2 DEF Picks, Line
      <3>2. AfterConfigLines(r, base, lines, c)
        BY <2>2
      <3>3. m \in s /\ m \in 1 .. Len(lines) /\ r \in SUBSET (1 .. Len(lines)) /\ \A j \in r : j < m
        BY <1>10, <2>2
      <3>4. s = r \cup {m}
        BY <3>3
      <3>5. Takes(l)
        BY <1>0, <3>1
      <3>. HIDE DEF m, r, c, l, d
      <3>6. c \in Overridden
        BY <3>2 DEF AfterConfigLines
      <3>7. /\ d.excluded <=> c.excluded \/ ExcludesBy(base, l)
            /\ ~d.excluded => /\ d.keep_looking <=> c.keep_looking /\ l.name # "set_noparent"
                              /\ \A category : Said(d.cfg_filters, category)
                                   = Or(Said(c.cfg_filters, category), OfConfigLine(l, category))
        BY <3>1, <3>5, <3>6, ConfigLineIs
      <3>8. d \in Overridden
        BY <3>1, <3>5, <3>6, ConfigLineTyped
      <3>9. d.excluded <=> \E j \in s : ExcludesBy(base, lines[j])
        BY <3>2, <3>4, <3>7 DEF AfterConfigLines, l
      <3>10. ASSUME ~d.excluded PROVE d.keep_looking <=> \A j \in s : lines[j].name # "set_noparent"
        BY <3>2, <3>4, <3>7, <3>10 DEF AfterConfigLines, l
      <3>11. ASSUME ~d.excluded, NEW category
             PROVE  Said(d.cfg_filters, category)
                      = Or(Said(cfg_filters, category),
                           FirstToSpeak([j \in s |-> OfConfigLine(lines[j], category)]))
        <4>. DEFINE u == [j \in r |-> OfConfigLine(lines[j], category)]
                    v == [j \in s |-> OfConfigLine(lines[j], category)]
        <4>1. DOMAIN u = r /\ DOMAIN v = r \cup {m} /\ (\A i \in r : u[i] = v[i]) /\ v[m] = OfConfigLine(l, category)
          BY <3>4 DEF l
        <4>2. Said(d.cfg_filters, category) = Or(Said(c.cfg_filters, category), OfConfigLine(l, category))
          BY <3>7, <3>11
        <4>3. Said(c.cfg_filters, category) = Or(Said(cfg_filters, category), FirstToSpeak(u))
          BY <3>2, <3>7, <3>11 DEF AfterConfigLines
        <4>. HIDE DEF u, v
        <4>4. FirstToSpeak(v) = Or(FirstToSpeak(u), v[m])
          BY <1>0, <3>3, <4>1, FirstAdds
        <4>5. Said(d.cfg_filters, category) = Or(Said(cfg_filters, category), FirstToSpeak(v))
          BY <4>1, <4>2, <4>3, <4>4 DEF Or
        <4>. QED
          BY <4>5 DEF v
      <3>12. AfterConfigLines(s, base, lines, d)
        BY <3>8, <3>9, <3>10, <3>11 DEF AfterConfigLines
      <3>. QED
        BY <3>12 DEF d
    <2>. HIDE DEF Good
    <2>3. Kept(D, Greatest(D), Good)
      BY <1>1, <2>1, <2>2 DEF Kept, Picks
    <2>. QED
      BY <2>3, FoldKeeps
  <1>8. AfterConfigLines(D, base, lines, g[D])
    BY <1>7
  <1>. QED
    BY <1>0, <1>2, <1>8

-----------------------------------------------------------------------------
(* What is printed of the errors that a step tells. *)
LEMMA TellsPrints ==
  ASSUME LintInv, NEW suppressions, NEW E, Tells(suppressions, E)
  PROVE  /\ error_suppressions' = suppressions /\ E \subseteq Errors
         /\ \A k : PrintedFor(k)' = PrintedFor(k) \cup
              (IF k = current THEN {e \in E : ShouldPrintError(suppressions, e)} ELSE {})
  <1>1. PICK errors : Holds(errors, E) /\ Reported(suppressions, errors)
    BY Zenon DEF Tells
  <1>. DEFINE shown == Shown(suppressions, errors)
              more == [i \in DOMAIN shown |-> Printed(shown[i])]
              N == {e \in E : ShouldPrintError(suppressions, e)}
              T == {e \in Errors : e.confidence >= verbose_level}
  <1>2. errors \in Seq(Errors) /\ ToSet(errors) = E
    BY <1>1 DEF Holds
  <1>3. E \subseteq Errors
    BY <1>2, LenProperties, ElementOfSeq DEF ToSet
  <1>4. shown \in Seq(T) /\ ToSet(shown) = N
    BY <1>2, ShownProperties
  <1>5. printed' = printed \o more /\ error_suppressions' = suppressions
    BY <1>1, Zenon DEF Reported, Error
  <1>. HIDE DEF shown
  <1>6. PICK U : printed \in Seq(U)
    BY DEF LintInv, PrintedInv, AsSevere
  <1>. DEFINE V == U \cup {Printed(e) : e \in T}
  <1>7. more \in Seq(V) /\ ToSet(more) = {Printed(e) : e \in N}
    <2>1. Len(shown) \in Nat /\ DOMAIN shown = 1 .. Len(shown) /\ \A i \in DOMAIN shown : shown[i] \in T
      BY <1>4, LenProperties, ElementOfSeq
    <2>2. more \in [1 .. Len(shown) -> V]
      BY <2>1
    <2>3. more \in Seq(V)
      BY <2>1, <2>2, SeqDef
    <2>4. ToSet(more) = {Printed(e) : e \in ToSet(shown)}
      BY DEF ToSet
    <2>. QED
      BY <1>4, <2>3, <2>4
  <1>8. printed \in Seq(V)
    BY <1>6, SeqMonotonic
  <1>. HIDE DEF V, more, N
  <1>9. ToSet(printed') = ToSet(printed) \cup {Printed(e) : e \in N}
    BY <1>5, <1>7, <1>8, ConcatElements
  <1>10. \A e \in N : At(Printed(e).line, Printed(e).category, Printed(e).confidence) = e
                      /\ Printed(e).file = current
    BY <1>3 DEF N, At, Printed, Errors
  <1>11. ASSUME NEW k
         PROVE  PrintedFor(k)' = PrintedFor(k) \cup (IF k = current THEN N ELSE {})
    <2>1. PrintedFor(k)' = {At(e.line, e.category, e.confidence) : e \in {x \in ToSet(printed') : x.file = k}}
      BY Zenon DEF PrintedFor, ToSet, At
    <2>2. PrintedFor(k) = {At(e.line, e.category, e.confidence) : e \in {x \in ToSet(printed) : x.file = k}}
      BY Zenon DEF PrintedFor
    <2>. DEFINE P == ToSet(printed)
                P1 == ToSet(printed')
                Q(e) == At(e.line, e.category, e.confidence)
    <2>3. P1 = P \cup {Printed(e) : e \in N} /\ \A e \in N : Q(Printed(e)) = e /\ Printed(e).file = current
      BY <1>9, <1>10
    <2>. HIDE DEF P, P1, Q
    <2>4. {Q(e) : e \in {x \in P1 : x.file = k}} = {Q(e) : e \in {x \in P : x.file = k}}
                                                     \cup (IF k = current THEN N ELSE {})
      BY <2>3
    <2>. QED
      BY <2>1, <2>2, <2>4 DEF P, P1, Q
  <1>. QED
    BY <1>3, <1>5, <1>11 DEF N

-----------------------------------------------------------------------------
(* What a run knows of its files: of the one in hand so far, of those before it *)
(* everything.                                                                  *)
Apart == {"whitespace/line_length", "build/header_guard"}
InLines == {"guard", "endif", "lines"}

(* The CPPLINT.cfg that the i-th directory of the file in hand holds. *)
Conf(i) == config[Directory(i)]

(* What the walk through the directories has found so far. *)
Walked ==
  /\ level <= Len(source.path) /\ filters = DefaultFilters \o Arguments.filters
  /\ \A i \in 1 .. level : i \in Reached(source) /\ ~Excludes(Conf(i), BaseName(i))
  /\ keep_looking <=> \A i \in 1 .. level : ~EndsTheWalk(Conf(i))
  /\ \A c \in Categories : Said(cfg_filters, c) = FirstToSpeak([i \in 1 .. level |-> OfConfig(Conf(i), c)])

(* What the filters are once it has ended. *)
Decided ==
  /\ ~Excluded(current)
  /\ \A c \in Categories : Verdict(filters, c) = "-" <=> ~Passes(source, c)

(* The suppressions are those of the NOLINT comments of the lines read. *)
Silences(suppressions, f, read) ==
  /\ suppressions \in Suppressions
  /\ \A c \in Categories \cup {All}, m \in Nat :
       m \in suppressions[c] <=> \E n \in read : /\ f.lines[n].nolint.category = c
                                                 /\ m = IF f.lines[n].nolint.next THEN n + 1 ELSE n

ReadLines(p, f, l) ==
  CASE p = "guard" -> {}
    [] p = "endif" -> Early(f) \cap WrongName(f)
    [] p = "lines" -> Early(f) \cup 1 .. (l - 1)

(* What is told of the file in hand before, in and after the check of its guard. *)
EarlyBad(f, ns) == {e \in UNION {BadNolint(f, n) : n \in ns} : Unsuppressed(f, Early(f) \cap WrongName(f), e)}
ToldByNow(p, f, l) ==
  BeforeLines(f) \cup
  CASE p = "guard" -> {}
    [] p = "endif" -> EarlyBad(f, Early(f) \cap WrongName(f))
    [] p = "lines" -> InEarlyLines(f) \cup UNION {OnLine(f, n) : n \in 1 .. (l - 1)}

Passing(f, E) == {e \in E : e.confidence >= Arguments.verbose_level /\ Passes(f, e.category)}
Others(k) == {e \in PrintedFor(k) : e.category \notin Apart}
GuardTold(k) == \E e \in PrintedFor(k) : e.category = "build/header_guard"
Unguarded(f) == f.extension = "h" /\ ~Guarded(f)
MustBeTold(f) ==
  /\ Unguarded(f) /\ Arguments.verbose_level = 0 /\ Passes(f, "build/header_guard")
  /\ \A n \in DOMAIN f.lines : f.lines[n].nolint.category \notin {All, "build/header_guard"}

(* The guard has been found wrong, if it is. *)
GuardSeen(p, f) == p = "lines" \/ (p = "endif" /\ WrongName(f) # {})

(* How far the file in hand may have been read. *)
Reading(p, f, l) ==
  /\ p \in InLines /\ (p # "lines" => f.extension = "h" /\ l = 1)
  /\ p = "endif" => ~Silenced(f) /\ NamesAgree(f)
  /\ p = "lines" => l <= Len(f.lines) + 1

InHand ==
  /\ source.readable /\ (filename = "-" \/ source.extension \in Arguments.valid_extensions)
  /\ Reading(pc, source, line)
  /\ Silences(error_suppressions, source, ReadLines(pc, source, line))
  /\ Others(current) = Passing(source, ToldByNow(pc, source, line))
  /\ GuardTold(current) => Unguarded(source)
  /\ GuardSeen(pc, source) /\ MustBeTold(source) => GuardTold(current)

Judged(k) ==
  LET f == Sources[filenames[k]] IN
  /\ Others(k) = Deserved(k)
  /\ GuardTold(k) => Unguarded(f)
  /\ Checked(k) /\ MustBeTold(f) => GuardTold(k)

JudgeInv ==
  /\ pc \notin {"parse", "exit"} => verbose_level = Arguments.verbose_level
                                    /\ valid_extensions = Arguments.valid_extensions
  /\ pc = "config" => Walked
  /\ pc \in {"open"} \cup InLines => Decided
  /\ pc \in InLines => InHand
  /\ \A k \in 1 .. Len(filenames) : k > current \/ (k = current /\ pc \notin InLines) => PrintedFor(k) = {}
  /\ \A k \in 1 .. current - 1 : Judged(k)

(* What a file deserves depends on the command line, the disk and the file only. *)
LEMMA SameJudgement ==
  ASSUME UNCHANGED <<command, config>>
  PROVE  /\ Arguments' = Arguments /\ filenames' = filenames
         /\ \A f : Reached(f)' = Reached(f) /\ (MustBeTold(f)' <=> MustBeTold(f))
         /\ \A f, c : Passes(f, c)' <=> Passes(f, c)
         /\ \A k : (Excluded(k)' <=> Excluded(k)) /\ (Checked(k)' <=> Checked(k)) /\ Deserved(k)' = Deserved(k)
  <1>1. Arguments' = Arguments /\ filenames' = filenames
    BY SameArguments DEF filenames
  <1>2. \A f : Reached(f)' = Reached(f)
    BY Zenon DEF Reached
  <1>3. ASSUME NEW f, NEW c PROVE OfWalk(f, c)' = OfWalk(f, c)
    BY <1>2, Zenon DEF OfWalk
  <1>4. \A f, c : Passes(f, c)' <=> Passes(f, c)
    BY <1>1, <1>3, Zenon DEF Passes
  <1>5. \A k : Excluded(k)' <=> Excluded(k)
    BY <1>1, <1>2, Zenon DEF Excluded
  <1>6. \A k : Checked(k)' <=> Checked(k)
    BY <1>1, <1>5, Zenon DEF Checked
  <1>7. \A k : Deserved(k)' = Deserved(k)
    BY <1>1, <1>4, <1>6, Zenon DEF Deserved
  <1>8. \A f : MustBeTold(f)' <=> MustBeTold(f)
    BY <1>1, <1>4, Zenon DEF MustBeTold, Unguarded
  <1>. QED
    BY <1>1, <1>2, <1>4, <1>5, <1>6, <1>7, <1>8

(* No line is read: nothing is suppressed. *)
LEMMA NothingRead ==
  ASSUME LintInv, NEW f
  PROVE  Silences(ResetNolintSuppressions, f, {})
  BY DEF Silences, ResetNolintSuppressions, Suppressions, LintInv, TypeOK

(* One more line is read. *)
LEMMA LineRead ==
  ASSUME LintInv, filename \in DOMAIN Sources, NEW n \in 1 .. NumLines, NEW read,
         Silences(error_suppressions, source, read)
  PROVE  Silences(ParseNolint(error_suppressions, n), source, read \cup {n})
  <1>. DEFINE c0 == source.lines[n].nolint.category
              m0 == IF source.lines[n].nolint.next THEN n + 1 ELSE n
              s == ParseNolint(error_suppressions, n)
              Place(k) == IF source.lines[k].nolint.next THEN k + 1 ELSE k
  <1>1. NumLines \in Nat /\ n \in Nat
    BY GuardLines
  <1>2. s \in Suppressions
    BY <1>1, NolintTyped
  <1>3. s = IF c0 \in DOMAIN error_suppressions
            THEN [error_suppressions EXCEPT ![c0] = @ \cup {m0}] ELSE error_suppressions
    BY DEF ParseNolint, Nolint, NolintLine
  <1>4. DOMAIN error_suppressions = Categories \cup {All}
    BY DEF LintInv, TypeOK
  <1>5. \A c \in Categories \cup {All}, m \in Nat :
          m \in error_suppressions[c] <=> \E k \in read : source.lines[k].nolint.category = c /\ m = Place(k)
    BY DEF Silences
  <1>6. m0 = Place(n)
    OBVIOUS
  <1>. HIDE DEF s, m0, Place
  <1>7. ASSUME NEW c \in Categories \cup {All}, NEW m \in Nat
        PROVE  m \in s[c] <=> \E k \in read \cup {n} : source.lines[k].nolint.category = c /\ m = Place(k)
    <2>1. m \in s[c] <=> m \in error_suppressions[c] \/ (c = c0 /\ m = m0)
      BY <1>3, <1>4
    <2>. QED
      BY <1>5, <1>6, <2>1
  <1>. QED
    BY <1>2, <1>7 DEF Silences, s, Place

(* What the comments read so far leave of an error. *)
LEMMA WhatIsSilenced ==
  ASSUME NEW suppressions, NEW f, NEW read, Silences(suppressions, f, read)
  PROVE  \A e \in Errors : IsErrorSuppressedByNolint(suppressions, e) <=> ~Unsuppressed(f, read, e)
  <1>. SUFFICES ASSUME NEW e \in Errors
                PROVE  IsErrorSuppressedByNolint(suppressions, e) <=> ~Unsuppressed(f, read, e)
    OBVIOUS
  <1>. DEFINE Place(k) == IF f.lines[k].nolint.next THEN k + 1 ELSE k
  <1>1. e.category \in Categories \cup {All} /\ All \in Categories \cup {All} /\ e.line \in Nat
    BY DEF Errors
  <1>2. \A c \in Categories \cup {All}, m \in Nat :
          m \in suppressions[c] <=> \E k \in read : f.lines[k].nolint.category = c /\ m = Place(k)
    BY Zenon DEF Silences
  <1>3. Unsuppressed(f, read, e)
          <=> ~\E k \in read : f.lines[k].nolint.category \in {e.category, All} /\ e.line = Place(k)
    BY Zenon DEF Unsuppressed
  <1>. HIDE DEF Place
  <1>. QED
    BY <1>1, <1>2, <1>3 DEF IsErrorSuppressedByNolint

(* Of the errors told of a file, those that no comment read by then silences, and *)
(* that the filters and the verbosity let pass, are printed for it.               *)
LEMMA MorePrinted ==
  ASSUME LintInv, JudgeInv, pc \in {"open"} \cup InLines,
         NEW suppressions, NEW E, Tells(suppressions, E), NEW read, Silences(suppressions, source, read)
  PROVE  /\ error_suppressions' = suppressions
         /\ \A k : k # current => PrintedFor(k)' = PrintedFor(k)
         /\ \A k : k = current =>
              /\ Others(k)' = Others(k) \cup
                   Passing(source, {e \in E : Unsuppressed(source, read, e) /\ e.category \notin Apart})
              /\ GuardTold(k)' <=> \/ GuardTold(k)
                                   \/ \E e \in Passing(source, E) : /\ e.category = "build/header_guard"
                                                                    /\ Unsuppressed(source, read, e)
  <1>. DEFINE N == {e \in E : ShouldPrintError(suppressions, e)}
              P(e) == e.confidence >= Arguments.verbose_level /\ Passes(source, e.category)
  <1>1. /\ error_suppressions' = suppressions /\ E \subseteq Errors
        /\ \A k : PrintedFor(k)' = PrintedFor(k) \cup (IF k = current THEN N ELSE {})
    BY TellsPrints
  <1>2. pc \notin {"parse", "exit"} /\ verbose_level = Arguments.verbose_level
        /\ \A c \in Categories : IsFiltered(c) <=> ~Passes(source, c)
    <2>1. pc \notin {"parse", "exit"} /\ verbose_level = Arguments.verbose_level
          /\ \A c \in Categories : Verdict(filters, c) = "-" <=> ~Passes(source, c)
      BY Zenon DEF JudgeInv, InLines, Decided
    <2>2. filters \in Seq(Filters)
      BY DEF LintInv, TypeOK
    <2>. QED
      BY <2>1, <2>2, FilteredIs
  <1>3. \A e \in E : IsErrorSuppressedByNolint(suppressions, e) <=> ~Unsuppressed(source, read, e)
    BY <1>1, WhatIsSilenced
  <1>4. \A e \in E : e.category \in Categories
    BY <1>1 DEF Errors
  <1>5. \A e \in E : ShouldPrintError(suppressions, e) <=> P(e) /\ Unsuppressed(source, read, e)
    BY <1>2, <1>3, <1>4 DEF ShouldPrintError
  <1>6. \A k : k # current => PrintedFor(k)' = PrintedFor(k)
    BY <1>1
  <1>. HIDE DEF P
  <1>7. ASSUME NEW k, k = current
        PROVE  Others(k)' = Others(k) \cup
                 {e \in {x \in E : Unsuppressed(source, read, x) /\ x.category \notin Apart} : P(e)}
    <2>1. PrintedFor(k)' = PrintedFor(k) \cup N
      BY <1>1, <1>7
    <2>2. Others(k)' = {e \in PrintedFor(k)' : e.category \notin Apart}
      BY Zenon DEF Others, Apart
    <2>. QED
      BY <1>5, <2>1, <2>2 DEF Others
  <1>8. ASSUME NEW k, k = current
        PROVE  GuardTold(k)' <=> \/ GuardTold(k)
                                 \/ \E e \in {x \in E : P(x)} : /\ e.category = "build/header_guard"
                                                                /\ Unsuppressed(source, read, e)
    <2>1. PrintedFor(k)' = PrintedFor(k) \cup N
      BY <1>1, <1>8
    <2>2. GuardTold(k)' <=> \E e \in PrintedFor(k)' : e.category = "build/header_guard"
      BY Zenon DEF GuardTold
    <2>. QED
      BY <1>5, <2>1, <2>2 DEF GuardTold
  <1>. QED
    BY <1>1, <1>6, <1>7, <1>8 DEF Passing, P

(* A file is judged by what is printed for it. *)
LEMMA SameJudged ==
  ASSUME UNCHANGED <<command, config>>
  PROVE  \A k : PrintedFor(k)' = PrintedFor(k) =>
           /\ Judged(k)' <=> Judged(k)
           /\ Others(k)' = Others(k) /\ (GuardTold(k)' <=> GuardTold(k))
  <1>. SUFFICES ASSUME NEW k, PrintedFor(k)' = PrintedFor(k)
                PROVE  /\ Judged(k)' <=> Judged(k)
                       /\ Others(k)' = Others(k) /\ (GuardTold(k)' <=> GuardTold(k))
    OBVIOUS
  <1>1. Others(k)' = Others(k) /\ (GuardTold(k)' <=> GuardTold(k))
    BY Zenon DEF Others, GuardTold, Apart
  <1>2. /\ filenames' = filenames /\ Deserved(k)' = Deserved(k) /\ (Checked(k)' <=> Checked(k))
        /\ \A f : MustBeTold(f)' <=> MustBeTold(f)
    BY SameJudgement
  <1>3. Judged(k)' <=> Judged(k)
    BY <1>1, <1>2, Zenon DEF Judged
  <1>. QED
    BY <1>1, <1>3

(* What no step inside the files touches. *)
Elsewhere ==
  /\ UNCHANGED <<command, config, verbose_level, valid_extensions>>
  /\ \A k : k # current => PrintedFor(k)' = PrintedFor(k)

(* A step that stays in the file. *)
LEMMA StaysJudged ==
  ASSUME LintInv, JudgeInv, pc \in {"next"} \cup InFile, Elsewhere, current' = current, pc' \in InFile,
         \A k : k = current /\ pc' \notin InLines => PrintedFor(k)' = {},
         pc' = "config" => Walked', pc' \in {"open"} \cup InLines => Decided', pc' \in InLines => InHand'
  PROVE  JudgeInv'
  <1>1. /\ UNCHANGED <<command, config, verbose_level, valid_extensions>>
        /\ \A k : k # current => PrintedFor(k)' = PrintedFor(k)
    BY Zenon DEF Elsewhere
  <1>2. Arguments' = Arguments /\ filenames' = filenames
    BY <1>1, SameJudgement
  <1>3. /\ pc \notin {"parse", "exit"} /\ pc' \notin {"parse", "exit"}
        /\ current \in Nat /\ Len(filenames) \in Nat
    BY FilesProperties DEF InFile, LintInv, TypeOK
  <1>4. verbose_level' = Arguments'.verbose_level /\ valid_extensions' = Arguments'.valid_extensions
    BY <1>1, <1>2, <1>3 DEF JudgeInv
  <1>5. ASSUME NEW k \in 1 .. Len(filenames), k > current \/ (k = current /\ pc' \notin InLines)
        PROVE  PrintedFor(k)' = {}
    <2>1. CASE k = current
      BY <1>3, <1>5, <2>1
    <2>2. CASE k # current
      <3>1. PrintedFor(k) = {}
        BY <1>5, <2>2 DEF JudgeInv
      <3>. QED
        BY <1>1, <2>2, <3>1
    <2>. QED
      BY <2>1, <2>2
  <1>6. ASSUME NEW k \in 1 .. current - 1 PROVE Judged(k)'
    <2>1. k # current /\ Judged(k)
      BY <1>3 DEF JudgeInv
    <2>. QED
      BY <1>1, <2>1, SameJudged
  <1>. HIDE DEF InLines
  <1>7. \A k \in 1 .. Len(filenames)' :
          k > current' \/ (k = current' /\ pc' \notin InLines) => PrintedFor(k)' = {}
    BY <1>2, <1>5
  <1>8. \A k \in 1 .. current' - 1 : Judged(k)'
    BY <1>6
  <1>. QED
    BY <1>4, <1>7, <1>8 DEF JudgeInv, InLines

(* The step that leaves it. *)
LEMMA LeavesJudged ==
  ASSUME LintInv, JudgeInv, pc \in InFile, Elsewhere, LeaveFile, \A k : k = current => Judged(k)'
  PROVE  JudgeInv'
  <1>1. /\ UNCHANGED <<command, config, verbose_level, valid_extensions>>
        /\ \A k : k # current => PrintedFor(k)' = PrintedFor(k)
    BY Zenon DEF Elsewhere
  <1>2. Arguments' = Arguments /\ filenames' = filenames
    BY <1>1, SameJudgement
  <1>3. /\ pc \notin {"parse", "exit"} /\ current' = current + 1 /\ pc' = "next"
        /\ current \in Nat /\ Len(filenames) \in Nat
    BY FilesProperties DEF InFile, LintInv, TypeOK, LeaveFile
  <1>4. verbose_level' = Arguments'.verbose_level /\ valid_extensions' = Arguments'.valid_extensions
    BY <1>1, <1>2, <1>3 DEF JudgeInv
  <1>5. ASSUME NEW k \in 1 .. Len(filenames), k > current
        PROVE  PrintedFor(k)' = {}
    <2>1. PrintedFor(k) = {} /\ k # current
      BY <1>3, <1>5 DEF JudgeInv
    <2>. QED
      BY <1>1, <2>1
  <1>6. ASSUME NEW k \in 1 .. current PROVE Judged(k)'
    <2>1. CASE k = current
      BY <2>1
    <2>2. CASE k # current
      <3>1. Judged(k)
        BY <1>3, <2>2 DEF JudgeInv
      <3>. QED
        BY <1>1, <2>2, <3>1, SameJudged
    <2>. QED
      BY <2>1, <2>2
  <1>7. \A k \in 1 .. Len(filenames)' :
          k > current' \/ (k = current' /\ pc' \notin InLines) => PrintedFor(k)' = {}
    BY <1>2, <1>3, <1>5
  <1>8. \A k \in 1 .. current' - 1 : Judged(k)'
    BY <1>3, <1>6
  <1>. QED
    BY <1>3, <1>4, <1>7, <1>8 DEF JudgeInv, InLines

(* Nothing is printed for a file before its data are looked at, and nothing is *)
(* deserved by one that is not checked.                                        *)
LEMMA UncheckedJudged ==
  ASSUME LintInv, JudgeInv, pc \in {"config", "open"}, NEW k, k = current
  PROVE  PrintedFor(k) = {} /\ (~Checked(k) => Judged(k))
  <1>1. k \in 1 .. Len(filenames)
    BY FilesProperties DEF LintInv, TypeOK, Placed, InFile
  <1>2. PrintedFor(k) = {}
    BY <1>1 DEF JudgeInv, InLines
  <1>3. Others(k) = {} /\ ~GuardTold(k)
    BY <1>2 DEF Others, GuardTold
  <1>4. ~Checked(k) => Deserved(k) = {}
    BY Zenon DEF Deserved
  <1>. QED
    BY <1>2, <1>3, <1>4 DEF Judged

(* The file in hand stays the same. *)
LEMMA SameSource ==
  ASSUME UNCHANGED <<command, config, current>>
  PROVE  /\ filename' = filename /\ source' = source /\ NumLines' = NumLines
         /\ \A i : Conf(i)' = Conf(i) /\ BaseName(i)' = BaseName(i) /\ Directory(i)' = Directory(i)
  <1>1. filename' = filename
    BY DEF filename, filenames
  <1>2. source' = source
    BY <1>1 DEF source
  <1>. QED
    BY <1>1, <1>2 DEF NumLines, Conf, BaseName, Directory

(* What the walk finds in one directory: a CPPLINT.cfg that cannot be read, or is *)
(* not there, has no lines.                                                       *)
LEMMA ConfigFound ==
  ASSUME LintInv, LookForConfig, NEW found, found = Conf(level + 1), NEW base, base = BaseName(level + 1)
  PROVE  \/ Excludes(found, base) /\ LeaveFile
         \/ /\ ~Excludes(found, base) /\ UNCHANGED <<pc, current, filters>>
            /\ keep_looking' <=> ~EndsTheWalk(found)
            /\ \A c \in Categories : Said(cfg_filters', c) = Or(Said(cfg_filters, c), OfConfig(found, c))
  <1>. DEFINE r == ReadConfig(base, found.lines)
  <1>1. /\ pc = "config" /\ level \in Nat /\ level < Len(source.path) /\ keep_looking
        /\ UNCHANGED <<status, command, config, settings, counts, error_suppressions, line>>
    BY DEF LookForConfig, LintInv, TypeOK
  <1>2. /\ filename \in DOMAIN Sources /\ config \in Configs
        /\ cfg_filters \in Seq(Seq(Filters)) /\ line_length \in Int
    BY <1>1, FilesProperties DEF InFile, LintInv, Placed, TypeOK
  <1>3. Directory(level + 1) \in DOMAIN config
    <2>1. source.path \in Seq(ToSet(source.path)) /\ ToSet(source.path) \subseteq DOMAIN config
      BY <1>2, SourcesAssumption DEF source
    <2>2. Len(source.path) \in Nat
      BY <2>1, LenProperties
    <2>3. level + 1 \in 1 .. Len(source.path)
      BY <1>1, <2>2
    <2>. QED
      BY <2>1, <2>3, ElementOfSeq DEF Directory
  <1>4. /\ found.is \in {"absent", "unreadable", "readable"}
        /\ found.lines \in Seq(ToSet(found.lines)) /\ \A l \in ToSet(found.lines) : Takes(l)
        /\ found.is # "readable" => found.lines = << >>
    BY <1>2, <1>3, ConfigsAssumption DEF Conf
  <1>5. AfterConfigLines(DOMAIN found.lines, base, found.lines, r)
    BY <1>2, <1>4, ReadConfigIs
  <1>. HIDE DEF r
  <1>6. r.excluded <=> Excludes(found, base)
    BY <1>5 DEF AfterConfigLines, Excludes, Says, ExcludesBy
  <1>7. ~r.excluded =>
          /\ r.keep_looking <=> Says(found, "set_noparent") = {}
          /\ \A c : Said(r.cfg_filters, c) = Or(Said(cfg_filters, c), OfConfig(found, c))
    <2>1. \A c : OfConfig(found, c) = FirstToSpeak([j \in DOMAIN found.lines |-> OfConfigLine(found.lines[j], c)])
      BY Zenon DEF OfConfig
    <2>2. ~r.excluded => \A c : Said(r.cfg_filters, c) = Or(Said(cfg_filters, c), OfConfig(found, c))
      BY <1>5, <2>1, Zenon DEF AfterConfigLines
    <2>3. ~r.excluded => (r.keep_looking <=> Says(found, "set_noparent") = {})
      BY <1>5 DEF AfterConfigLines, Says
    <2>. QED
      BY <2>2, <2>3
  <1>8. CASE found.is # "readable"
    <2>1. DOMAIN found.lines = {}
      BY <1>4, <1>8
    <2>2. ~Excludes(found, base) /\ Says(found, "set_noparent") = {}
      BY <2>1 DEF Excludes, Says
    <2>3. \A c : OfConfig(found, c) = "none"
      BY <2>1 DEF OfConfig, FirstToSpeak
    <2>4. UNCHANGED <<cfg_filters, pc, current, filters>> /\ keep_looking' = (found.is = "absent")
      BY <1>1, <1>4, <1>8 DEF LookForConfig, Conf
    <2>5. \A c : Said(cfg_filters', c) = Or(Said(cfg_filters, c), OfConfig(found, c))
      BY <2>3, <2>4 DEF Or
    <2>. QED
      BY <1>4, <1>8, <2>2, <2>4, <2>5 DEF EndsTheWalk
  <1>9. CASE found.is = "readable"
    <2>1. /\ keep_looking' = r.keep_looking /\ cfg_filters' = r.cfg_filters
          /\ IF r.excluded THEN LeaveFile ELSE UNCHANGED <<pc, current, filters>>
      BY <1>9 DEF LookForConfig, Conf, r
    <2>2. CASE r.excluded
      BY <1>6, <2>1, <2>2
    <2>3. CASE ~r.excluded
      <3>1. keep_looking' <=> ~EndsTheWalk(found)
        BY <1>7, <1>9, <2>1, <2>3 DEF EndsTheWalk
      <3>2. \A c \in Categories : Said(cfg_filters', c) = Or(Said(cfg_filters, c), OfConfig(found, c))
        BY <1>7, <2>1, <2>3
      <3>. QED
        BY <1>6, <2>1, <2>3, <3>1, <3>2
    <2>. QED
      BY <2>2, <2>3
  <1>. QED
    BY <1>4, <1>8, <1>9

(* The settings of the run and what was printed for the files stay. *)
LEMMA SilentElsewhere ==
  ASSUME UNCHANGED <<command, config, verbose_level, valid_extensions, printed>>
  PROVE  Elsewhere /\ \A k : PrintedFor(k)' = PrintedFor(k)
  <1>1. \A k : PrintedFor(k)' = PrintedFor(k)
    BY Zenon DEF PrintedFor
  <1>. QED
    BY <1>1 DEF Elsewhere

(* The walk begins. *)
LEMMA NextFileJudges ==
  ASSUME LintInv, JudgeInv, NextFile
  PROVE  JudgeInv'
  <1>1. /\ pc = "next" /\ pc' = "config" /\ current <= Len(filenames)
        /\ level' = 0 /\ cfg_filters' = << >> /\ keep_looking' = TRUE
        /\ UNCHANGED <<command, config, current, verbose_level, valid_extensions, printed, filters>>
    BY DEF NextFile, counts
  <1>11. Arguments' = Arguments /\ filters = DefaultFilters \o Arguments.filters
    BY <1>1, SameArguments DEF LintInv, Placed, FiltersBetweenFiles
  <1>2. Elsewhere /\ \A k : PrintedFor(k)' = PrintedFor(k)
    BY <1>1, SilentElsewhere
  <1>3. current \in 1 .. Len(filenames) /\ Len(filenames) \in Nat
    BY <1>1, FilesProperties DEF LintInv, TypeOK
  <1>4. PrintedFor(current) = {}
    BY <1>1, <1>3 DEF JudgeInv, InLines
  <1>5. source' = source /\ \A i : Conf(i)' = Conf(i) /\ BaseName(i)' = BaseName(i)
    BY <1>1, SameSource
  <1>6. 0 <= Len(source.path)
    <2>1. filename \in DOMAIN Sources
      BY <1>3, FilesProperties, ElementOfSeq DEF filename
    <2>2. source.path \in Seq(ToSet(source.path))
      BY <2>1, SourcesAssumption DEF source
    <2>. QED
      BY <2>2, LenProperties
  <1>7. \A c : Said(<< >>, c) = "none" /\ \A v : DOMAIN v = {} => FirstToSpeak(v) = "none"
    BY DEF Said, FirstToSpeak
  <1>8. Walked'
    <2>1. level' <= Len(source'.path)
      BY <1>1, <1>5, <1>6
    <2>2. 1 .. level' = {}
      BY <1>1
    <2>3. \A c \in Categories : Said(cfg_filters', c) = FirstToSpeak([i \in 1 .. level' |-> OfConfig(Conf(i)', c)])
      BY <1>1, <1>7, <2>2
    <2>. QED
      BY <1>1, <1>11, <2>1, <2>2, <2>3 DEF Walked
  <1>9. \A k : k = current /\ pc' \notin InLines => PrintedFor(k)' = {}
    BY <1>2, <1>4
  <1>10. pc' \in InFile /\ pc' \notin {"open"} \cup InLines
    BY <1>1 DEF InFile, InLines
  <1>. QED
    BY <1>1, <1>2, <1>8, <1>9, <1>10, StaysJudged

(* A directory of the walk. *)
LEMMA LookForConfigJudges ==
  ASSUME LintInv, JudgeInv, LookForConfig
  PROVE  JudgeInv'
  <1>. DEFINE found == Conf(level + 1)
              base == BaseName(level + 1)
  <1>1. /\ pc = "config" /\ level' = level + 1 /\ level \in Nat /\ level < Len(source.path) /\ keep_looking
        /\ UNCHANGED <<command, config, verbose_level, valid_extensions, printed>>
    BY DEF LookForConfig, LintInv, TypeOK, settings, counts
  <1>2. Elsewhere /\ \A k : PrintedFor(k)' = PrintedFor(k)
    BY <1>1, SilentElsewhere
  <1>3. Walked
    BY <1>1 DEF JudgeInv
  <1>4. PrintedFor(current) = {} /\ (~Checked(current) => Judged(current))
    BY <1>1, UncheckedJudged
  <1>5. Len(source.path) \in Nat /\ DOMAIN source.path = 1 .. Len(source.path)
    <2>1. source.path \in Seq(ToSet(source.path))
      BY <1>1, FilesProperties, SourcesAssumption DEF source, InFile
    <2>. QED
      BY <2>1, LenProperties
  <1>6. level + 1 \in Reached(source)
    <2>1. \A i \in 1 .. level : ~EndsTheWalk(Conf(i))
      BY <1>1, <1>3 DEF Walked
    <2>2. level + 1 \in 1 .. Len(source.path) /\ (level + 1) - 1 = level
      BY <1>1, <1>5
    <2>. QED
      BY <1>5, <2>1, <2>2 DEF Reached, Conf, Directory
  <1>7. CASE Excludes(found, base) /\ LeaveFile
    <2>1. Excluded(current)
      BY <1>6, <1>7 DEF Excluded, source, filename, Conf, Directory, BaseName
    <2>2. Judged(current)
      BY <1>4, <2>1 DEF Checked
    <2>3. \A k : k = current => Judged(k)'
      BY <1>1, <1>2, <2>2, SameJudged
    <2>. QED
      BY <1>1, <1>2, <1>7, <2>3, LeavesJudged DEF InFile
  <1>8. CASE /\ ~Excludes(found, base) /\ UNCHANGED <<pc, current, filters>>
             /\ keep_looking' <=> ~EndsTheWalk(found)
             /\ \A c \in Categories : Said(cfg_filters', c) = Or(Said(cfg_filters, c), OfConfig(found, c))
    <2>1. source' = source /\ \A i : Conf(i)' = Conf(i) /\ BaseName(i)' = BaseName(i)
      BY <1>1, <1>8, SameSource
    <2>2. Arguments' = Arguments /\ \A f : Reached(f)' = Reached(f)
      BY <1>1, SameJudgement
    <2>3. \A i \in 1 .. level + 1 : i \in 1 .. level \/ i = level + 1
      BY <1>1
    <2>4. /\ \A i \in 1 .. level : i \in Reached(source) /\ ~Excludes(Conf(i), BaseName(i))
          /\ \A i \in 1 .. level : ~EndsTheWalk(Conf(i))
          /\ \A c \in Categories : Said(cfg_filters, c) = FirstToSpeak([i \in 1 .. level |-> OfConfig(Conf(i), c)])
      BY <1>1, <1>3 DEF Walked
    <2>5. \A i \in 1 .. level + 1 : i \in Reached(source) /\ ~Excludes(Conf(i), BaseName(i))
      BY <1>6, <1>8, <2>3, <2>4
    <2>6. keep_looking' <=> \A i \in 1 .. level + 1 : ~EndsTheWalk(Conf(i))
      BY <1>1, <1>8, <2>3, <2>4
    <2>7. ASSUME NEW c \in Categories
          PROVE  Said(cfg_filters', c) = FirstToSpeak([i \in 1 .. level + 1 |-> OfConfig(Conf(i), c)])
      <3>. DEFINE v == [i \in 1 .. level + 1 |-> OfConfig(Conf(i), c)]
                  u == [i \in 1 .. level |-> OfConfig(Conf(i), c)]
                  n == level + 1
                  before == 1 .. level
      <3>1. n \in Nat /\ n \in 1 .. n /\ before \in SUBSET (1 .. n) /\ (\A i \in before : i < n)
            /\ before \cup {n} = 1 .. level + 1
        BY <1>1
      <3>2. DOMAIN v = before \cup {n} /\ DOMAIN u = before /\ (\A i \in before : u[i] = v[i])
            /\ v[n] = OfConfig(found, c)
        BY <3>1
      <3>. HIDE DEF v, u, n, before
      <3>3. FirstToSpeak(v) = Or(FirstToSpeak(u), v[n])
        BY <3>1, <3>2, FirstAdds
      <3>4. FirstToSpeak(u) = Said(cfg_filters, c)
        BY <2>4 DEF u
      <3>5. FirstToSpeak(v) = Said(cfg_filters', c)
        BY <1>8, <3>2, <3>3, <3>4
      <3>. QED
        BY <3>5 DEF v
    <2>8. Walked'
      <3>1. /\ level' <= Len(source'.path) /\ filters' = DefaultFilters \o Arguments'.filters
            /\ \A i \in 1 .. level' : i \in Reached(source)' /\ ~Excludes(Conf(i)', BaseName(i)')
            /\ keep_looking' <=> \A i \in 1 .. level' : ~EndsTheWalk(Conf(i)')
        BY <1>1, <1>3, <1>5, <1>8, <2>1, <2>2, <2>5, <2>6 DEF Walked
      <3>2. \A c \in Categories : Said(cfg_filters', c) = FirstToSpeak([i \in 1 .. level' |-> OfConfig(Conf(i)', c)])
        BY <1>1, <2>1, <2>7
      <3>. QED
        BY <3>1, <3>2 DEF Walked
    <2>9. \A k : k = current /\ pc' \notin InLines => PrintedFor(k)' = {}
      BY <1>2, <1>4
    <2>10. pc \in InFile /\ pc' = "config"
      BY <1>1, <1>8 DEF InFile
    <2>. QED
      BY <1>2, <1>8, <2>8, <2>9, <2>10, StaysJudged DEF InLines, InFile
  <1>. QED
    BY <1>7, <1>8, ConfigFound

(* A list of verdicts with silent ones beside it. *)
LEMMA FirstAmongSilent ==
  ASSUME NEW v, NEW u, \E n \in Nat : DOMAIN v \subseteq 1 .. n, DOMAIN u \subseteq DOMAIN v,
         \A i \in DOMAIN u : u[i] = v[i], \A i \in DOMAIN v : i \notin DOMAIN u => v[i] = "none"
  PROVE  FirstToSpeak(v) = FirstToSpeak(u)
  <1>. DEFINE V == {i \in DOMAIN v : v[i] # "none"}
              U == {i \in DOMAIN u : u[i] # "none"}
  <1>1. V = U
    OBVIOUS
  <1>2. V # {} => v[Min(V)] = u[Min(V)]
    <2>1. PICK n \in Nat : V \in SUBSET (1 .. n)
      OBVIOUS
    <2>2. V \subseteq DOMAIN u
      BY <1>1
    <2>. HIDE DEF V
    <2>. QED
      BY <2>1, <2>2, LeastExists
  <1>3. /\ FirstToSpeak(v) = IF V = {} THEN "none" ELSE v[Min(V)]
        /\ FirstToSpeak(u) = IF U = {} THEN "none" ELSE u[Min(U)]
    BY Zenon DEF FirstToSpeak
  <1>. HIDE DEF V, U
  <1>. QED
    BY <1>1, <1>2, <1>3

(* The verdicts of the configurations, of the flag and of the defaults. *)
LEMMA FirstOfThree ==
  ASSUME NEW a, NEW b, NEW c
  PROVE  FirstToSpeak(<<a, b, c>>) = Or(a, Or(b, c))
  <1>. DEFINE v == <<a, b, c>>
              s == 1 .. 3
  <1>1. DOMAIN v = s /\ s \in SUBSET (1 .. 3) /\ v[1] = a /\ v[2] = b /\ v[3] = c /\ s = {1, 2, 3} /\ 3 \in Nat
    OBVIOUS
  <1>. HIDE DEF v, s
  <1>2. /\ (\A i \in s : v[i] = "none") => FirstToSpeak(v) = "none"
        /\ \A i \in s : v[i] # "none" /\ (\A j \in s : j < i => v[j] = "none") => FirstToSpeak(v) = v[i]
    BY <1>1, FirstIs
  <1>3. CASE a # "none"
    <2>1. FirstToSpeak(v) = v[1]
      BY <1>1, <1>2, <1>3
    <2>. QED
      BY <1>1, <1>3, <2>1 DEF v, Or
  <1>4. CASE a = "none" /\ b # "none"
    <2>1. FirstToSpeak(v) = v[2]
      BY <1>1, <1>2, <1>4
    <2>. QED
      BY <1>1, <1>4, <2>1 DEF v, Or
  <1>5. CASE a = "none" /\ b = "none" /\ c # "none"
    <2>1. FirstToSpeak(v) = v[3]
      BY <1>1, <1>2, <1>5
    <2>. QED
      BY <1>1, <1>5, <2>1 DEF v, Or
  <1>6. CASE a = "none" /\ b = "none" /\ c = "none"
    <2>1. FirstToSpeak(v) = "none"
      BY <1>1, <1>2, <1>6
    <2>. QED
      BY <1>6, <2>1 DEF v, Or
  <1>. QED
    BY <1>3, <1>4, <1>5, <1>6

(* What the walk has gathered when it ends is what all configurations say that *)
(* hold for the file.                                                          *)
LEMMA WalkEnds ==
  ASSUME LintInv, Walked, pc = "config", ~keep_looking \/ level = Len(source.path)
  PROVE  /\ ~Excluded(current)
         /\ \A c \in Categories : Said(cfg_filters, c) = OfWalk(source, c)
  <1>. DEFINE L == Len(source.path)
  <1>1. L \in Nat /\ DOMAIN source.path = 1 .. L /\ level \in Nat /\ level <= L
    <2>1. source.path \in Seq(ToSet(source.path))
      BY FilesProperties, SourcesAssumption DEF source, InFile
    <2>. QED
      BY <2>1, LenProperties DEF LintInv, TypeOK, Walked
  <1>2. /\ \A i \in 1 .. level : i \in Reached(source) /\ ~Excludes(Conf(i), BaseName(i))
        /\ keep_looking <=> \A i \in 1 .. level : ~EndsTheWalk(Conf(i))
        /\ \A c \in Categories : Said(cfg_filters, c) = FirstToSpeak([i \in 1 .. level |-> OfConfig(Conf(i), c)])
    BY DEF Walked
  <1>3. Reached(source) = {i \in 1 .. L : \A j \in 1 .. i - 1 : ~EndsTheWalk(Conf(j))}
    BY <1>1 DEF Reached, Conf, Directory
  <1>. HIDE DEF L
  <1>4. ASSUME NEW i \in Reached(source) PROVE i \in 1 .. level
    <2>1. i \in 1 .. L /\ \A j \in 1 .. i - 1 : ~EndsTheWalk(Conf(j))
      BY <1>3
    <2>2. CASE ~keep_looking
      <3>1. PICK j \in 1 .. level : EndsTheWalk(Conf(j))
        BY <1>2, <2>2
      <3>2. j \notin 1 .. i - 1
        BY <2>1, <3>1
      <3>. QED
        BY <1>1, <2>1, <3>2
    <2>3. CASE level = L
      BY <2>1, <2>3
    <2>. QED
      BY <2>2, <2>3 DEF L
  <1>5. ~Excluded(current)
    <2>1. Excluded(current) => \E i \in Reached(source) : Excludes(Conf(i), BaseName(i))
      BY DEF Excluded, source, filename, Conf, Directory, BaseName
    <2>. QED
      BY <1>2, <1>4, <2>1
  <1>6. ASSUME NEW c \in Categories PROVE Said(cfg_filters, c) = OfWalk(source, c)
    <2>. DEFINE v == [i \in 1 .. L |-> IF i \in Reached(source) THEN OfConfig(Conf(i), c) ELSE "none"]
                u == [i \in 1 .. level |-> OfConfig(Conf(i), c)]
    <2>1. OfWalk(source, c) = FirstToSpeak(v)
      BY <1>1, Zenon DEF OfWalk, Conf, Directory, L
    <2>2. (\E n \in Nat : DOMAIN v \subseteq 1 .. n) /\ DOMAIN u \subseteq DOMAIN v
      <3>1. DOMAIN v = 1 .. L /\ DOMAIN u = 1 .. level
        OBVIOUS
      <3>. HIDE DEF v, u
      <3>2. L \in Nat /\ DOMAIN v \subseteq 1 .. L
        BY <1>1, <3>1
      <3>3. DOMAIN u \subseteq DOMAIN v
        <4>1. 1 .. level \subseteq 1 .. L
          BY <1>1
        <4>. QED
          BY <3>1, <4>1
      <3>. QED
        BY <3>2, <3>3
    <2>3. \A i \in DOMAIN u : u[i] = v[i]
      BY <1>2, <2>2
    <2>4. \A i \in DOMAIN v : i \notin DOMAIN u => v[i] = "none"
      BY <1>4
    <2>5. Said(cfg_filters, c) = FirstToSpeak(u)
      BY <1>2
    <2>. HIDE DEF u, v
    <2>6. FirstToSpeak(v) = FirstToSpeak(u)
      BY <1>1, <2>2, <2>3, <2>4, FirstAmongSilent
    <2>. QED
      BY <2>1, <2>5, <2>6
  <1>. QED
    BY <1>5, <1>6

(* The walk ends: the filters say what the configurations, the flag and the *)
(* defaults say, in this order.                                             *)
LEMMA ApplyConfigDecides ==
  ASSUME LintInv, Walked, ApplyConfig, pc' = "open"
  PROVE  Decided'
  <1>. DEFINE added == Reverse(cfg_filters)
              bad == {i \in DOMAIN added : ~HasSign(added[i])}
              flat == FlattenSeq(added)
              n == Len(cfg_filters)
  <1>1. /\ pc = "config" /\ (~keep_looking \/ level = Len(source.path))
        /\ UNCHANGED <<command, config, current>>
        /\ IF bad = {} THEN pc' = "open" /\ filters' = filters \o flat ELSE pc' = "exit"
    BY Zenon DEF ApplyConfig
  <1>2. bad = {} /\ filters' = filters \o flat
    BY <1>1
  <1>3. cfg_filters \in Seq(Seq(Filters)) /\ filters = DefaultFilters \o Arguments.filters
    BY DEF LintInv, Placed, Walked
  <1>4. added \in Seq(Seq(Filters)) /\ DOMAIN added = 1 .. n /\ n \in Nat /\ DOMAIN cfg_filters = 1 .. n
    BY <1>3, ReverseTyped, LenProperties
  <1>5. \A i \in 1 .. n : added[n - i + 1] = cfg_filters[i]
    BY <1>4 DEF Reverse
  <1>. HIDE DEF added, n
  <1>6. \A i \in DOMAIN cfg_filters : HasSign(cfg_filters[i])
    <2>1. \A i \in 1 .. n : n - i + 1 \in DOMAIN added
      BY <1>4
    <2>. QED
      BY <1>2, <1>4, <1>5, <2>1
  <1>7. flat \in Seq(Filters) /\ HasSign(flat)
    BY <1>2, <1>4, AllSigned
  <1>8. Arguments.filters \in Seq(Filters) /\ HasSign(Arguments.filters)
    <2>1. HasSign(DefaultFilters \o Arguments.filters) /\ command \in Commands
      BY <1>1 DEF LintInv, Placed, InFile
    <2>2. Arguments.filters \in Seq(Filters)
      BY <2>1, ArgumentsTyped DEF Parsed
    <2>. DEFINE a == DefaultFilters
                b == Arguments.filters
    <2>3. a \in Seq(Filters) /\ b \in Seq(Filters) /\ HasSign(a \o b)
      BY <2>1, <2>2, CategoriesAssumption
    <2>. HIDE DEF a, b
    <2>4. HasSign(b)
      <3>1. /\ Len(a) \in Nat /\ Len(b) \in Nat /\ DOMAIN b = 1 .. Len(b)
            /\ DOMAIN (a \o b) = 1 .. Len(a) + Len(b)
            /\ \A i \in 1 .. Len(a) + Len(b) : (a \o b)[i] = IF i <= Len(a) THEN a[i] ELSE b[i - Len(a)]
        BY <2>3, ConcatProperties, LenProperties
      <3>2. \A i \in 1 .. Len(b) : /\ i + Len(a) \in 1 .. Len(a) + Len(b) /\ ~(i + Len(a) <= Len(a))
                                   /\ (i + Len(a)) - Len(a) = i
        BY <3>1
      <3>3. \A i \in 1 .. Len(b) : (a \o b)[i + Len(a)] = b[i]
        BY <3>1, <3>2
      <3>. QED
        BY <2>3, <3>1, <3>2, <3>3 DEF HasSign
    <2>. QED
      BY <2>2, <2>4 DEF b
  <1>9. ~Excluded(current) /\ \A c \in Categories : Said(cfg_filters, c) = OfWalk(source, c)
    BY <1>1, WalkEnds
  <1>10. ASSUME NEW c \in Categories
         PROVE  Verdict(filters', c) = "-" <=> ~Passes(source, c)
    <2>. DEFINE a == DefaultFilters
                b == Arguments.filters
    <2>1. a \in Seq(Filters) /\ b \in Seq(Filters) /\ HasSign(b) /\ a \o b \in Seq(Filters)
      BY <1>8, CategoriesAssumption, ConcatProperties
    <2>2. Passes(source, c) <=> FirstToSpeak(<<OfWalk(source, c), Verdict(b, c), Verdict(a, c)>>) # "-"
      BY Zenon DEF Passes
    <2>3. filters' = (a \o b) \o flat
      BY <1>2, <1>3
    <2>4. Verdict(flat, c) = Said(cfg_filters, c)
      BY <1>3, <1>6, VerdictOfWalk DEF added
    <2>. HIDE DEF a, b, flat
    <2>5. Verdict(a \o b, c) = Or(Verdict(b, c), Verdict(a, c))
      BY <2>1, VerdictOfTwo
    <2>6. Verdict((a \o b) \o flat, c) = Or(Verdict(flat, c), Verdict(a \o b, c))
      BY <1>7, <2>1, VerdictOfTwo
    <2>7. FirstToSpeak(<<OfWalk(source, c), Verdict(b, c), Verdict(a, c)>>)
            = Or(OfWalk(source, c), Or(Verdict(b, c), Verdict(a, c)))
      BY FirstOfThree
    <2>. QED
      BY <1>9, <2>2, <2>3, <2>4, <2>5, <2>6, <2>7
  <1>11. /\ source' = source /\ (\A f, c : Passes(f, c)' <=> Passes(f, c))
         /\ \A k : Excluded(k)' <=> Excluded(k)
    BY <1>1, SameSource, SameJudgement
  <1>12. current' = current
    BY <1>1
  <1>. QED
    BY <1>9, <1>10, <1>11, <1>12 DEF Decided

(* A run that stops keeps what it knows of the files before. *)
LEMMA ExitsJudged ==
  ASSUME JudgeInv, pc \notin InLines, pc' = "exit", UNCHANGED <<command, config, current, printed>>
  PROVE  JudgeInv'
  <1>1. \A k : PrintedFor(k)' = PrintedFor(k)
    BY Zenon DEF PrintedFor
  <1>2. filenames' = filenames
    BY DEF filenames
  <1>3. \A k \in 1 .. Len(filenames)' :
          k > current' \/ (k = current' /\ pc' \notin InLines) => PrintedFor(k)' = {}
    BY <1>1, <1>2 DEF JudgeInv
  <1>4. \A k \in 1 .. current' - 1 : Judged(k)'
    BY <1>1, SameJudged DEF JudgeInv
  <1>. QED
    BY <1>3, <1>4 DEF JudgeInv, InLines

(* The filters of the configurations are put behind those of the flag. *)
LEMMA ApplyConfigJudges ==
  ASSUME LintInv, JudgeInv, ApplyConfig
  PROVE  JudgeInv'
  <1>1. /\ pc = "config" /\ pc' \in {"open", "exit"}
        /\ UNCHANGED <<command, config, current, verbose_level, valid_extensions, printed>>
    BY DEF ApplyConfig, settings, counts
  <1>2. Elsewhere /\ \A k : PrintedFor(k)' = PrintedFor(k)
    BY <1>1, SilentElsewhere
  <1>3. CASE pc' = "exit"
    BY <1>1, <1>3, ExitsJudged DEF InLines
  <1>4. CASE pc' = "open"
    <2>1. Decided'
      BY <1>1, <1>4, ApplyConfigDecides DEF JudgeInv
    <2>2. \A k : k = current /\ pc' \notin InLines => PrintedFor(k)' = {}
      BY <1>1, <1>2, UncheckedJudged
    <2>. QED
      BY <1>1, <1>2, <1>4, <2>1, <2>2, StaysJudged DEF InFile, InLines
  <1>. QED
    BY <1>1, <1>3, <1>4

(* A file that cannot be read or has no valid extension. *)
LEMMA SkipFileJudges ==
  ASSUME LintInv, JudgeInv, SkipFile
  PROVE  JudgeInv'
  <1>1. /\ pc = "open" /\ LeaveFile
        /\ ~source.readable \/ (filename # "-" /\ source.extension \notin valid_extensions)
        /\ UNCHANGED <<command, config, verbose_level, valid_extensions, printed>>
    BY DEF SkipFile, settings, counts
  <1>2. Elsewhere /\ \A k : PrintedFor(k)' = PrintedFor(k)
    BY <1>1, SilentElsewhere
  <1>3. valid_extensions = Arguments.valid_extensions
    BY <1>1 DEF JudgeInv
  <1>4. ~Checked(current)
    BY <1>1, <1>3 DEF Checked, source, filename
  <1>5. \A k : k = current => Judged(k)'
    BY <1>1, <1>2, <1>4, UncheckedJudged, SameJudged
  <1>. QED
    BY <1>1, <1>2, <1>5, LeavesJudged DEF InFile

(* The options are read, or end the run. *)
LEMMA ParseJudges ==
  ASSUME LintInv, JudgeInv, ParseArguments
  PROVE  JudgeInv'
  <1>1. pc = "parse" /\ UNCHANGED <<command, config, current, printed>> /\ current = 1
    BY DEF ParseArguments, counts, LintInv, Placed
  <1>2. CASE pc' = "exit"
    BY <1>1, <1>2, ExitsJudged DEF InLines
  <1>3. CASE pc' = "next" /\ verbose_level' = Arguments.verbose_level
                          /\ valid_extensions' = Arguments.valid_extensions
    <2>1. \A k : PrintedFor(k)' = PrintedFor(k)
      BY <1>1, Zenon DEF PrintedFor
    <2>2. filenames' = filenames /\ Arguments' = Arguments
      BY <1>1, SameJudgement
    <2>3. \A k \in 1 .. Len(filenames)' :
            k > current' \/ (k = current' /\ pc' \notin InLines) => PrintedFor(k)' = {}
      BY <1>1, <2>1, <2>2 DEF JudgeInv, InLines
    <2>4. 1 .. current' - 1 = {}
      BY <1>1
    <2>. QED
      BY <1>3, <2>2, <2>3, <2>4 DEF JudgeInv, InLines
  <1>. QED
    BY <1>2, <1>3 DEF ParseArguments

(* The words of the header guard, as CheckForHeaderGuard finds them. *)
LEMMA GuardWords ==
  ASSUME filename \in DOMAIN Sources, NEW i, i = FirstWith("#ifndef"), NEW n, n = LastWith("#endif")
  PROVE  /\ GuardSilenced <=> Silenced(source)
         /\ NoGuard <=> ~NamesAgree(source)
         /\ With(source, "#ifndef") # {} =>
              /\ i = Min(With(source, "#ifndef")) /\ i \in 1 .. NumLines
              /\ NameAt(source, i) = Guard(i).name
         /\ NamesAgree(source) =>
              WrongName(source) = IF Guard(i).name = "GUARD_" THEN {} ELSE {i}
         /\ n = 0 => With(source, "#endif") = {} /\ LastEndif(source) = {}
         /\ n # 0 => /\ With(source, "#endif") # {} /\ n = Max(With(source, "#endif"))
                     /\ n \in 1 .. NumLines /\ LastEndif(source) = {n}
  <1>1. /\ NumLines \in Nat /\ DOMAIN source.lines = 1 .. NumLines
        /\ \A word : /\ LinesWith(word) \in SUBSET (1 .. NumLines)
                     /\ FirstWith(word) \in Nat /\ LastWith(word) \in Nat
                     /\ LinesWith(word) # {} =>
                          FirstWith(word) \in LinesWith(word) /\ LastWith(word) \in LinesWith(word)
                     /\ LinesWith(word) = {} => FirstWith(word) = 0 /\ LastWith(word) = 0
    BY GuardLines
  <1>2. \A word : LinesWith(word) = With(source, word)
    BY <1>1 DEF LinesWith, With, Guard
  <1>3. \A word : LinesWith(word) # {} => /\ FirstWith(word) = Min(LinesWith(word))
                                          /\ LastWith(word) = Max(LinesWith(word))
    BY Zenon DEF FirstWith, LastWith
  <1>4. \A m : NameAt(source, m) = Guard(m).name
    BY DEF NameAt, Guard
  <1>5. GuardSilenced <=> Silenced(source)
    BY <1>1 DEF GuardSilenced, Silenced, Nolint
  <1>. DEFINE I == With(source, "#ifndef")
              D == With(source, "#define")
              E == With(source, "#endif")
              d == FirstWith("#define")
  <1>6. /\ I # {} => i = Min(I) /\ i \in I
        /\ D # {} => d = Min(D) /\ d \in D
        /\ I = {} => i = 0
        /\ D = {} => d = 0
        /\ E # {} => n = Max(E) /\ n \in E
        /\ E = {} => n = 0
        /\ I \subseteq 1 .. NumLines /\ D \subseteq 1 .. NumLines /\ E \subseteq 1 .. NumLines
    BY <1>1, <1>2, <1>3
  <1>7. NamesAgree(source) <=> I # {} /\ D # {} /\ NameAt(source, Min(I)) = NameAt(source, Min(D))
    BY Zenon DEF NamesAgree
  <1>8. NoGuard <=> i = 0 \/ d = 0 \/ (i # 0 /\ d # 0 /\ Guard(i).name # Guard(d).name)
    BY Zenon DEF NoGuard
  <1>9. WrongName(source) = {m \in I : m = Min(I) /\ NameAt(source, m) # "GUARD_"}
        /\ LastEndif(source) = {m \in E : m = Max(E)}
    BY Zenon DEF WrongName, LastEndif
  <1>. HIDE DEF I, D, E, d
  <1>10. NoGuard <=> ~NamesAgree(source)
    BY <1>4, <1>6, <1>7, <1>8
  <1>11. NamesAgree(source) => WrongName(source) = IF Guard(i).name = "GUARD_" THEN {} ELSE {i}
    BY <1>4, <1>6, <1>7, <1>9
  <1>12. /\ n = 0 => E = {} /\ LastEndif(source) = {}
         /\ n # 0 => E # {} /\ n = Max(E) /\ n \in 1 .. NumLines /\ LastEndif(source) = {n}
    <2>1. E # {} => n # 0
      BY <1>6
    <2>2. E = {} => LastEndif(source) = {}
      BY <1>9
    <2>3. E # {} => LastEndif(source) = {n}
      BY <1>6, <1>9
    <2>. QED
      BY <1>6, <2>1, <2>2, <2>3
  <1>13. I # {} => i = Min(I) /\ i \in 1 .. NumLines /\ NameAt(source, i) = Guard(i).name
    BY <1>4, <1>6
  <1>. QED
    BY <1>5, <1>10, <1>11, <1>12, <1>13 DEF I, E

(* The lines whose NOLINT is read early are lines of the file. *)
LEMMA EarlyLines ==
  ASSUME filename \in DOMAIN Sources
  PROVE  /\ Early(source) \subseteq DOMAIN source.lines /\ DOMAIN source.lines = 1 .. NumLines
         /\ source.extension # "h" \/ Silenced(source) \/ ~NamesAgree(source) => Early(source) = {}
         /\ source.extension = "h" /\ ~Silenced(source) /\ NamesAgree(source) =>
              Early(source) = WrongName(source) \cup LastEndif(source)
  <1>1. DOMAIN source.lines = 1 .. NumLines
    BY GuardLines
  <1>2. WrongName(source) \subseteq DOMAIN source.lines /\ LastEndif(source) \subseteq DOMAIN source.lines
    BY DEF WrongName, LastEndif, With
  <1>. QED
    BY <1>1, <1>2 DEF Early

(* A step that goes on with the file in hand. *)
LEMMA HandKept ==
  ASSUME UNCHANGED <<command, config, current>>, NEW p, p = pc', NEW l, l = line', NEW k, k = current,
         source.readable, filename = "-" \/ source.extension \in Arguments.valid_extensions,
         Reading(p, source, l), Silences(error_suppressions', source, ReadLines(p, source, l)),
         Others(k)' = Passing(source, ToldByNow(p, source, l)),
         GuardTold(k)' => Unguarded(source),
         GuardSeen(p, source) /\ MustBeTold(source) => GuardTold(k)'
  PROVE  InHand'
  <1>1. /\ source' = source /\ filename' = filename /\ Arguments' = Arguments
        /\ \A f : MustBeTold(f)' <=> MustBeTold(f)
        /\ \A f, c : Passes(f, c)' <=> Passes(f, c)
    BY SameSource, SameJudgement
  <1>2. \A f, E : Passing(f, E)' = Passing(f, E)
    BY <1>1, Zenon DEF Passing
  <1>3. Others(current)' = Others(k)' /\ (GuardTold(current)' <=> GuardTold(k)')
    OBVIOUS
  <1>4. /\ source'.readable /\ (filename' = "-" \/ source'.extension \in Arguments'.valid_extensions)
        /\ Reading(pc, source, line)'
        /\ Silences(error_suppressions, source, ReadLines(pc, source, line))'
    BY <1>1
  <1>5. Others(current)' = Passing(source, ToldByNow(pc, source, line))'
    BY <1>1, <1>2, <1>3
  <1>6. /\ GuardTold(current)' => Unguarded(source)'
        /\ GuardSeen(pc, source)' /\ MustBeTold(source)' => GuardTold(current)'
    BY <1>1, <1>3
  <1>. QED
    BY <1>4, <1>5, <1>6 DEF InHand

(* A step from one place in the file in hand to another. *)
LEMMA GoesOnJudged ==
  ASSUME LintInv, JudgeInv, pc \in {"open"} \cup InLines, pc' \in InLines, InHand',
         UNCHANGED <<command, config, current, verbose_level, valid_extensions, filters>>,
         \A k : k # current => PrintedFor(k)' = PrintedFor(k)
  PROVE  JudgeInv'
  <1>1. Decided'
    <2>1. /\ source' = source /\ (\A f, c : Passes(f, c)' <=> Passes(f, c))
          /\ \A m : Excluded(m)' <=> Excluded(m)
      BY SameSource, SameJudgement
    <2>2. Decided
      BY DEF JudgeInv
    <2>. QED
      BY <2>1, <2>2 DEF Decided
  <1>2. Elsewhere
    BY DEF Elsewhere
  <1>3. pc \in InFile /\ pc' \in InFile /\ pc' # "config"
    BY DEF InLines, InFile
  <1>. QED
    BY <1>1, <1>2, <1>3, StaysJudged

(* No error of the guard, or of the width of lines, is told before the lines. *)
LEMMA BeforeLinesApart == \A f : \A e \in BeforeLines(f) : e.category \notin Apart
  BY DEF BeforeLines, At, Apart

(* The first step into a file. *)
LEMMA StartFileJudges ==
  ASSUME LintInv, JudgeInv, StartFile
  PROVE  JudgeInv'
  <1>1. /\ pc = "open" /\ source.readable /\ (filename = "-" \/ source.extension \in valid_extensions)
        /\ pc' = IF source.extension = "h" THEN "guard" ELSE "lines"
        /\ line' = 1
        /\ UNCHANGED <<command, config, current, verbose_level, valid_extensions, filters>>
    BY DEF StartFile, FileUnchanged, settings
  <1>2. Tells(ResetNolintSuppressions, BeforeLines(source))
    BY StartFileTells
  <1>3. Silences(ResetNolintSuppressions, source, {})
    BY NothingRead
  <1>4. PrintedFor(current) = {}
    BY <1>1, UncheckedJudged
  <1>5. /\ error_suppressions' = ResetNolintSuppressions
        /\ \A k : k # current => PrintedFor(k)' = PrintedFor(k)
        /\ \A k : k = current =>
             /\ Others(k)' = Others(k) \cup
                  Passing(source, {e \in BeforeLines(source) : Unsuppressed(source, {}, e) /\ e.category \notin Apart})
             /\ GuardTold(k)' <=> \/ GuardTold(k)
                                  \/ \E e \in Passing(source, BeforeLines(source)) :
                                       e.category = "build/header_guard" /\ Unsuppressed(source, {}, e)
    BY <1>1, <1>2, <1>3, MorePrinted
  <1>6. Others(current) = {} /\ ~GuardTold(current)
    BY <1>4 DEF Others, GuardTold
  <1>7. {e \in BeforeLines(source) : Unsuppressed(source, {}, e) /\ e.category \notin Apart} = BeforeLines(source)
    BY BeforeLinesApart DEF Unsuppressed
  <1>8. \A e \in Passing(source, BeforeLines(source)) : e.category # "build/header_guard"
    BY BeforeLinesApart DEF Passing, Apart
  <1>9. ASSUME NEW k, k = current
        PROVE  Others(k)' = Passing(source, BeforeLines(source)) /\ ~GuardTold(k)'
    BY <1>5, <1>6, <1>7, <1>8, <1>9
  <1>10. filename \in DOMAIN Sources /\ NumLines \in Nat
    BY <1>1, FilesProperties, GuardLines DEF InFile
  <1>11. valid_extensions = Arguments.valid_extensions
    BY <1>1 DEF JudgeInv
  <1>12. 1 .. (1 - 1) = {}
    OBVIOUS
  <1>13. InHand'
    <2>1. CASE source.extension = "h"
      <3>1. /\ ReadLines("guard", source, 1) = {} /\ ToldByNow("guard", source, 1) = BeforeLines(source)
            /\ ~GuardSeen("guard", source) /\ Reading("guard", source, 1)
        BY <2>1 DEF ReadLines, ToldByNow, GuardSeen, Reading, InLines
      <3>. QED
        BY <1>1, <1>3, <1>5, <1>9, <1>11, <2>1, <3>1, HandKept
    <2>2. CASE source.extension # "h"
      <3>1. Early(source) = {} /\ InEarlyLines(source) = {}
        BY <2>2 DEF Early, InEarlyLines
      <3>2. ReadLines("lines", source, 1) = {} /\ ToldByNow("lines", source, 1) = BeforeLines(source)
        BY <1>12, <3>1 DEF ReadLines, ToldByNow
      <3>3. ~MustBeTold(source) /\ Reading("lines", source, 1)
        BY <1>10, <2>2 DEF MustBeTold, Unguarded, Reading, InLines, NumLines
      <3>. QED
        BY <1>1, <1>3, <1>5, <1>9, <1>11, <2>2, <3>2, <3>3, HandKept
    <2>. QED
      BY <2>1, <2>2
  <1>. QED
    BY <1>1, <1>5, <1>13, GoesOnJudged DEF InLines


(* Whose guard must be told of has no comment that silences the error. *)
LEMMA GuardIsTold ==
  ASSUME NEW f, NEW read, read \subseteq DOMAIN f.lines, MustBeTold(f), NEW n, NEW confidence \in {0, 5},
         NEW E, GuardError(n, confidence) \in E
  PROVE  \E e \in Passing(f, E) : e.category = "build/header_guard" /\ Unsuppressed(f, read, e)
  <1>. DEFINE e == GuardError(n, confidence)
  <1>1. e.category = "build/header_guard" /\ e.confidence = confidence /\ e.line = n
    BY DEF GuardError, At
  <1>2. Arguments.verbose_level = 0 /\ Passes(f, "build/header_guard")
        /\ \A m \in DOMAIN f.lines : f.lines[m].nolint.category \notin {All, "build/header_guard"}
    BY DEF MustBeTold
  <1>. HIDE DEF e
  <1>3. Unsuppressed(f, read, e)
    BY <1>1, <1>2 DEF Unsuppressed
  <1>4. e \in Passing(f, E)
    BY <1>1, <1>2 DEF Passing, e
  <1>. QED
    BY <1>1, <1>3, <1>4

(* The check of the first #ifndef and #define. *)
LEMMA GuardJudges ==
  ASSUME LintInv, JudgeInv, CheckForHeaderGuard
  PROVE  JudgeInv'
  <1>. DEFINE i == FirstWith("#ifndef")
              n == LastWith("#endif")
              es == error_suppressions
              before == Passing(source, BeforeLines(source))
  <1>1. /\ pc = "guard"
        /\ UNCHANGED <<command, config, current, verbose_level, valid_extensions, filters, line>>
    BY DEF CheckForHeaderGuard, FileUnchanged, settings
  <1>2. InHand
    BY <1>1 DEF JudgeInv, InLines
  <1>3. filename \in DOMAIN Sources /\ NumLines \in Nat
    BY <1>1, FilesProperties, GuardLines DEF InFile
  <1>4. /\ source.readable /\ (filename = "-" \/ source.extension \in Arguments.valid_extensions)
        /\ source.extension = "h" /\ line = 1 /\ Silences(es, source, {})
        /\ \A k : k = current => Others(k) = before /\ (GuardTold(k) => Unguarded(source))
    BY <1>1, <1>2 DEF InHand, Reading, ReadLines, ToldByNow
  <1>5. /\ GuardSilenced <=> Silenced(source)
        /\ NoGuard <=> ~NamesAgree(source)
        /\ NamesAgree(source) => i \in 1 .. NumLines /\ i = Min(With(source, "#ifndef"))
                                 /\ NameAt(source, i) = Guard(i).name
        /\ NamesAgree(source) => WrongName(source) = IF Guard(i).name = "GUARD_" THEN {} ELSE {i}
    BY <1>3, GuardWords DEF NamesAgree
  <1>6. /\ Early(source) \subseteq DOMAIN source.lines /\ DOMAIN source.lines = 1 .. NumLines
        /\ Silenced(source) \/ ~NamesAgree(source) => Early(source) = {}
        /\ ~Silenced(source) /\ NamesAgree(source) =>
             Early(source) = WrongName(source) \cup LastEndif(source)
    BY <1>3, <1>4, EarlyLines
  <1>. HIDE DEF i, n
  <1>7. Early(source) = {} => /\ ReadLines("lines", source, 1) = {}
                              /\ ToldByNow("lines", source, 1) = BeforeLines(source)
    BY DEF ReadLines, ToldByNow, InEarlyLines
  <1>8. Reading("lines", source, 1) /\ GuardSeen("lines", source)
    BY <1>3 DEF Reading, InLines, GuardSeen, NumLines
  <1>9. ~Silenced(source) /\ NamesAgree(source) => Reading("endif", source, 1)
    BY <1>4 DEF Reading, InLines
  <1>10. ~NamesAgree(source) \/ WrongName(source) # {} => ~Guarded(source)
    BY DEF Guarded, WrongName
  <1>11. CASE GuardSilenced /\ pc' = "lines" /\ Tells(es, {})
    <2>1. /\ error_suppressions' = es /\ \A k : k # current => PrintedFor(k)' = PrintedFor(k)
          /\ \A k : k = current => Others(k)' = Others(k) \cup Passing(source, {}) /\ (GuardTold(k)' <=> GuardTold(k))
      <3>. DEFINE none == {e \in {} : Unsuppressed(source, {}, e) /\ e.category \notin Apart}
      <3>1. none = {} /\ Passing(source, {}) = {}
        BY DEF Passing
      <3>. QED
        BY <1>1, <1>4, <1>11, <3>1, MorePrinted DEF InLines
    <2>2. Passing(source, {}) = {}
      BY DEF Passing
    <2>3. ~MustBeTold(source)
      BY <1>5, <1>11 DEF Silenced, MustBeTold
    <2>4. Early(source) = {}
      BY <1>5, <1>6, <1>11
    <2>5. InHand'
      BY <1>1, <1>4, <1>7, <1>8, <1>11, <2>1, <2>2, <2>3, <2>4, HandKept
    <2>. QED
      BY <1>1, <1>11, <2>1, <2>5, GoesOnJudged DEF InLines
  <1>12. CASE ~GuardSilenced /\ NoGuard /\ pc' = "lines" /\ Tells(es, {GuardError(0, 5)})
    <2>. DEFINE E == {GuardError(0, 5)}
    <2>1. {e \in E : Unsuppressed(source, {}, e) /\ e.category \notin Apart} = {}
      BY DEF GuardError, At, Apart
    <2>2. Passing(source, {}) = {}
      BY DEF Passing
    <2>3. Tells(es, E) /\ GuardError(0, 5) \in E
      BY <1>12
    <2>. HIDE DEF E
    <2>4. /\ error_suppressions' = es /\ \A k : k # current => PrintedFor(k)' = PrintedFor(k)
          /\ \A k : k = current =>
               /\ Others(k)' = Others(k) \cup Passing(source, {})
               /\ GuardTold(k)' <=> \/ GuardTold(k)
                                    \/ \E e \in Passing(source, E) : /\ e.category = "build/header_guard"
                                                                     /\ Unsuppressed(source, {}, e)
      BY <1>1, <1>4, <2>1, <2>3, MorePrinted DEF InLines
    <2>5. MustBeTold(source) => \E e \in Passing(source, E) : /\ e.category = "build/header_guard"
                                                              /\ Unsuppressed(source, {}, e)
      BY <2>3, GuardIsTold
    <2>6. Early(source) = {} /\ Unguarded(source)
      BY <1>4, <1>5, <1>6, <1>10, <1>12 DEF Unguarded
    <2>7. InHand'
      BY <1>1, <1>4, <1>7, <1>8, <1>12, <2>2, <2>4, <2>5, <2>6, HandKept
    <2>. QED
      BY <1>1, <1>12, <2>4, <2>7, GoesOnJudged DEF InLines
  <1>13. CASE ~GuardSilenced /\ ~NoGuard /\ pc' = "endif" /\ Guard(i).name = "GUARD_" /\ Tells(es, {})
    <2>1. WrongName(source) = {} /\ ~Silenced(source) /\ NamesAgree(source)
      BY <1>5, <1>13
    <2>2. Passing(source, {}) = {}
      BY DEF Passing
    <2>3. /\ error_suppressions' = es /\ \A k : k # current => PrintedFor(k)' = PrintedFor(k)
          /\ \A k : k = current => Others(k)' = Others(k) \cup Passing(source, {}) /\ (GuardTold(k)' <=> GuardTold(k))
      <3>. DEFINE none == {e \in {} : Unsuppressed(source, {}, e) /\ e.category \notin Apart}
      <3>1. none = {}
        OBVIOUS
      <3>. QED
        BY <1>1, <1>4, <1>13, <2>2, <3>1, MorePrinted DEF InLines
    <2>4. /\ ReadLines("endif", source, 1) = {} /\ ToldByNow("endif", source, 1) = BeforeLines(source)
          /\ ~GuardSeen("endif", source)
      BY <2>1 DEF ReadLines, ToldByNow, GuardSeen, EarlyBad
    <2>5. InHand'
      BY <1>1, <1>4, <1>9, <1>13, <2>1, <2>2, <2>3, <2>4, HandKept
    <2>. QED
      BY <1>1, <1>13, <2>3, <2>5, GoesOnJudged DEF InLines
  <1>14. ASSUME ~GuardSilenced, ~NoGuard, pc' = "endif", Guard(i).name # "GUARD_", NEW confidence \in {0, 5},
                Tells(ParseNolint(es, i), NolintSet(i) \cup {GuardError(i, confidence)})
         PROVE  JudgeInv'
    <2>. DEFINE E == NolintSet(i) \cup {GuardError(i, confidence)}
                R == {i}
    <2>1. /\ WrongName(source) = R /\ ~Silenced(source) /\ NamesAgree(source) /\ i \in 1 .. NumLines
          /\ Early(source) \cap WrongName(source) = R /\ R \subseteq DOMAIN source.lines
      BY <1>5, <1>6, <1>14
    <2>2. NolintSet(i) = BadNolint(source, i)
      BY <2>1 DEF NolintSet, BadNolint, Nolint
    <2>3. Silences(ParseNolint(es, i), source, R)
      <3>1. Silences(ParseNolint(es, i), source, {} \cup {i})
        BY <1>3, <1>4, <2>1, LineRead
      <3>2. {} \cup {i} = R
        OBVIOUS
      <3>. QED
        BY <3>1, <3>2
    <2>4. {e \in E : Unsuppressed(source, R, e) /\ e.category \notin Apart}
            = EarlyBad(source, R)
      <3>1. GuardError(i, confidence).category \in Apart
        BY DEF GuardError, At, Apart
      <3>2. \A e \in NolintSet(i) : e.category \notin Apart
        BY DEF NolintSet, At, Apart
      <3>3. EarlyBad(source, R) = {e \in BadNolint(source, i) : Unsuppressed(source, R, e)}
        BY <2>1 DEF EarlyBad
      <3>. QED
        BY <2>2, <3>1, <3>2, <3>3
    <2>5. Tells(ParseNolint(es, i), E) /\ GuardError(i, confidence) \in E
      BY <1>14
    <2>. HIDE DEF E, R
    <2>6. /\ error_suppressions' = ParseNolint(es, i) /\ \A k : k # current => PrintedFor(k)' = PrintedFor(k)
          /\ \A k : k = current =>
               /\ Others(k)' = Others(k) \cup Passing(source, EarlyBad(source, R))
               /\ GuardTold(k)' <=> \/ GuardTold(k)
                                    \/ \E e \in Passing(source, E) : /\ e.category = "build/header_guard"
                                                                     /\ Unsuppressed(source, R, e)
      BY <1>1, <2>3, <2>4, <2>5, MorePrinted DEF InLines
    <2>7. MustBeTold(source) => \E e \in Passing(source, E) : /\ e.category = "build/header_guard"
                                                              /\ Unsuppressed(source, R, e)
      BY <2>1, <2>5, GuardIsTold
    <2>8. Unguarded(source)
      <3>1. WrongName(source) # {}
        BY <2>1 DEF R
      <3>. QED
        BY <1>4, <1>10, <3>1 DEF Unguarded
    <2>9. /\ ReadLines("endif", source, 1) = R
          /\ Passing(source, ToldByNow("endif", source, 1)) = before \cup Passing(source, EarlyBad(source, R))
      BY <2>1 DEF ReadLines, ToldByNow, Passing
    <2>10. InHand'
      BY <1>1, <1>4, <1>9, <1>14, <2>1, <2>3, <2>6, <2>7, <2>8, <2>9, HandKept
    <2>. QED
      BY <1>1, <1>14, <2>6, <2>10, GoesOnJudged DEF InLines
  <1>. QED
    BY <1>11, <1>12, <1>13, <1>14, GuardTells DEF i

(* A NOLINT of no known category silences nothing, not even its own error. *)
LEMMA UnknownSilencesNothing ==
  ASSUME NEW f, NEW read, NEW n, NEW e \in BadNolint(f, n)
  PROVE  Unsuppressed(f, read \cup {n}, e) <=> Unsuppressed(f, read, e)
  <1>1. f.lines[n].nolint.category = Unknown /\ e.category = "readability/nolint"
    BY DEF BadNolint, At
  <1>2. Unknown \notin {e.category, All}
    BY <1>1 DEF Unknown, All
  <1>. QED
    BY <1>1, <1>2 DEF Unsuppressed

(* The check of the last #endif. *)
LEMMA GuardEndJudges ==
  ASSUME LintInv, JudgeInv, CheckForHeaderGuardEnd
  PROVE  JudgeInv'
  <1>. DEFINE i == FirstWith("#ifndef")
              n == LastWith("#endif")
              es == error_suppressions
              wrong == WrongName(source)
              R == Early(source)
              B == NolintSet(n)
  <1>1. /\ pc = "endif" /\ pc' = "lines"
        /\ UNCHANGED <<command, config, current, verbose_level, valid_extensions, filters, line>>
    BY DEF CheckForHeaderGuardEnd, FileUnchanged, settings
  <1>2. InHand
    BY <1>1 DEF JudgeInv, InLines
  <1>3. filename \in DOMAIN Sources /\ NumLines \in Nat
    BY <1>1, FilesProperties, GuardLines DEF InFile
  <1>4. /\ source.readable /\ (filename = "-" \/ source.extension \in Arguments.valid_extensions)
        /\ source.extension = "h" /\ line = 1 /\ ~Silenced(source) /\ NamesAgree(source)
        /\ Silences(es, source, R \cap wrong)
        /\ \A k : k = current =>
             /\ Others(k) = Passing(source, BeforeLines(source) \cup EarlyBad(source, R \cap wrong))
             /\ GuardTold(k) => Unguarded(source)
             /\ wrong # {} /\ MustBeTold(source) => GuardTold(k)
    BY <1>1, <1>2 DEF InHand, Reading, ReadLines, ToldByNow, GuardSeen
  <1>5. /\ i \in 1 .. NumLines /\ i = Min(With(source, "#ifndef")) /\ NameAt(source, i) = Guard(i).name
        /\ wrong = IF Guard(i).name = "GUARD_" THEN {} ELSE {i}
        /\ n = 0 => With(source, "#endif") = {} /\ LastEndif(source) = {}
        /\ n # 0 => /\ With(source, "#endif") # {} /\ n = Max(With(source, "#endif"))
                    /\ n \in 1 .. NumLines /\ LastEndif(source) = {n}
    BY <1>3, <1>4, GuardWords DEF NamesAgree
  <1>6. R \subseteq DOMAIN source.lines /\ DOMAIN source.lines = 1 .. NumLines /\ R = wrong \cup LastEndif(source)
    BY <1>3, <1>4, EarlyLines
  <1>7. R \cap wrong = wrong
    BY <1>6
  <1>8. RightEnd(n) <=> /\ n # 0 /\ NameAt(source, n) = "GUARD_"
                        /\ \/ source.lines[n].guard.comment = "//"
                           \/ /\ source.lines[n].guard.comment = "/*"
                              /\ \A m \in DOMAIN source.lines : source.lines[m].guard.comment # "//"
    BY <1>6 DEF RightEnd, Guard, NameAt
  <1>9. Guarded(source) <=> wrong = {} /\ RightEnd(n)
    <2>. DEFINE Comment(m) == source.lines[m].guard.comment
                I == With(source, "#ifndef")
                E == With(source, "#endif")
    <2>1. Guarded(source) <=> /\ NamesAgree(source) /\ NameAt(source, Min(I)) = "GUARD_"
                              /\ E # {} /\ NameAt(source, Max(E)) = "GUARD_"
                              /\ \/ Comment(Max(E)) = "//"
                                 \/ Comment(Max(E)) = "/*" /\ \A m \in DOMAIN source.lines : Comment(m) # "//"
      BY Zenon DEF Guarded
    <2>. HIDE DEF I, E, Comment
    <2>2. wrong = {} <=> NameAt(source, Min(I)) = "GUARD_"
      BY <1>5 DEF I
    <2>3. n = 0 <=> E = {}
      BY <1>5 DEF E
    <2>4. n # 0 => n = Max(E)
      BY <1>5 DEF E
    <2>5. RightEnd(n) <=> /\ n # 0 /\ NameAt(source, n) = "GUARD_"
                          /\ \/ Comment(n) = "//"
                             \/ Comment(n) = "/*" /\ \A m \in DOMAIN source.lines : Comment(m) # "//"
      BY <1>8, Zenon DEF Comment
    <2>. QED
      BY <1>4, <2>1, <2>2, <2>3, <2>4, <2>5
  <1>. HIDE DEF i, n, wrong, R
  <1>10. Silences(ParseNolint(es, n), source, R)
    <2>1. CASE n = 0
      <3>1. Nolint(n).category \notin DOMAIN es
        BY <2>1, CategoriesAssumption DEF Nolint, NoComment, All, LintInv, TypeOK
      <3>2. ParseNolint(es, n) = es
        BY <3>1 DEF ParseNolint
      <3>3. R = wrong
        BY <1>5, <1>6, <2>1
      <3>. QED
        BY <1>4, <1>7, <3>2, <3>3
    <2>2. CASE n # 0
      <3>1. R = wrong \cup {n} /\ n \in 1 .. NumLines
        BY <1>5, <1>6, <2>2
      <3>2. Silences(es, source, wrong)
        BY <1>4, <1>7
      <3>. QED
        BY <1>3, <3>1, <3>2, LineRead
    <2>. QED
      BY <2>1, <2>2
  <1>11. B = UNION {BadNolint(source, m) : m \in LastEndif(source)}
    <2>1. CASE n = 0
      <3>1. B = {}
        BY <2>1 DEF NolintSet, Nolint, NoComment, Unknown
      <3>. QED
        BY <1>5, <2>1, <3>1
    <2>2. CASE n # 0
      <3>1. B = BadNolint(source, n)
        BY <1>5, <2>2 DEF NolintSet, BadNolint, Nolint
      <3>. QED
        BY <1>5, <2>2, <3>1
    <2>. QED
      BY <2>1, <2>2
  <1>12. \A e \in B : Unsuppressed(source, R, e) <=> Unsuppressed(source, wrong, e)
    <2>1. CASE n = 0
      BY <1>5, <1>6, <2>1
    <2>2. CASE n # 0
      <3>1. R = wrong \cup {n} /\ B = BadNolint(source, n)
        BY <1>5, <1>6, <1>11, <2>2
      <3>. HIDE DEF B
      <3>. QED
        BY <3>1, UnknownSilencesNothing
    <2>. QED
      BY <2>1, <2>2
  <1>13. \A e \in B : e.category \notin Apart
    BY DEF NolintSet, At, Apart
  <1>. HIDE DEF B
  <1>14. InEarlyLines(source) = EarlyBad(source, wrong) \cup {e \in B : Unsuppressed(source, R, e)}
    <2>1. InEarlyLines(source) = {e \in UNION {BadNolint(source, m) : m \in R} : Unsuppressed(source, wrong, e)}
      BY <1>7 DEF InEarlyLines, R, wrong
    <2>2. EarlyBad(source, wrong) = {e \in UNION {BadNolint(source, m) : m \in wrong} : Unsuppressed(source, wrong, e)}
      BY <1>7 DEF EarlyBad, R, wrong
    <2>. DEFINE last == LastEndif(source)
                Of(S) == UNION {BadNolint(source, m) : m \in S}
    <2>3. Of(wrong \cup last) = Of(wrong) \cup Of(last)
      OBVIOUS
    <2>4. R = wrong \cup last /\ B = Of(last)
      BY <1>6, <1>11
    <2>5. InEarlyLines(source) = {e \in Of(R) : Unsuppressed(source, wrong, e)}
          /\ EarlyBad(source, wrong) = {e \in Of(wrong) : Unsuppressed(source, wrong, e)}
      BY <2>1, <2>2
    <2>. HIDE DEF Of, last
    <2>. QED
      BY <1>12, <2>3, <2>4, <2>5
  <1>15. /\ ReadLines("lines", source, 1) = R
         /\ ToldByNow("lines", source, 1) = BeforeLines(source) \cup InEarlyLines(source)
    BY DEF ReadLines, ToldByNow, R
  <1>16. Passing(source, ToldByNow("lines", source, 1))
           = Passing(source, BeforeLines(source) \cup EarlyBad(source, wrong))
               \cup Passing(source, {e \in B : Unsuppressed(source, R, e)})
    BY <1>14, <1>15 DEF Passing
  <1>17. Reading("lines", source, 1) /\ GuardSeen("lines", source)
    BY <1>3 DEF Reading, InLines, GuardSeen, NumLines
  <1>18. CASE RightEnd(n) /\ Tells(ParseNolint(es, n), B)
    <2>1. {e \in B : Unsuppressed(source, R, e) /\ e.category \notin Apart} = {e \in B : Unsuppressed(source, R, e)}
      BY <1>13
    <2>2. /\ error_suppressions' = ParseNolint(es, n) /\ \A k : k # current => PrintedFor(k)' = PrintedFor(k)
          /\ \A k : k = current =>
               /\ Others(k)' = Others(k) \cup Passing(source, {e \in B : Unsuppressed(source, R, e)})
               /\ GuardTold(k)' <=> \/ GuardTold(k)
                                    \/ \E e \in Passing(source, B) : /\ e.category = "build/header_guard"
                                                                     /\ Unsuppressed(source, R, e)
      BY <1>1, <1>10, <1>18, <2>1, MorePrinted DEF InLines
    <2>3. \A e \in Passing(source, B) : e.category # "build/header_guard"
      BY <1>13 DEF Passing, Apart
    <2>4. MustBeTold(source) => wrong # {}
      BY <1>9, <1>18 DEF MustBeTold, Unguarded
    <2>5. InHand'
      BY <1>1, <1>4, <1>7, <1>10, <1>15, <1>16, <1>17, <2>2, <2>3, <2>4, HandKept
    <2>. QED
      BY <1>1, <2>2, <2>5, GoesOnJudged DEF InLines
  <1>19. ASSUME ~RightEnd(n), NEW confidence \in {0, 5},
                Tells(ParseNolint(es, n), B \cup {GuardError(n, confidence)})
         PROVE  JudgeInv'
    <2>. DEFINE E == B \cup {GuardError(n, confidence)}
    <2>1. {e \in E : Unsuppressed(source, R, e) /\ e.category \notin Apart} = {e \in B : Unsuppressed(source, R, e)}
      <3>1. GuardError(n, confidence).category \in Apart
        BY DEF GuardError, At, Apart
      <3>. QED
        BY <1>13, <3>1
    <2>2. Tells(ParseNolint(es, n), E) /\ GuardError(n, confidence) \in E
      BY <1>19
    <2>. HIDE DEF E
    <2>3. /\ error_suppressions' = ParseNolint(es, n) /\ \A k : k # current => PrintedFor(k)' = PrintedFor(k)
          /\ \A k : k = current =>
               /\ Others(k)' = Others(k) \cup Passing(source, {e \in B : Unsuppressed(source, R, e)})
               /\ GuardTold(k)' <=> \/ GuardTold(k)
                                    \/ \E e \in Passing(source, E) : /\ e.category = "build/header_guard"
                                                                     /\ Unsuppressed(source, R, e)
      BY <1>1, <1>10, <2>1, <2>2, MorePrinted DEF InLines
    <2>4. MustBeTold(source) => \E e \in Passing(source, E) : /\ e.category = "build/header_guard"
                                                              /\ Unsuppressed(source, R, e)
      BY <1>6, <2>2, GuardIsTold
    <2>5. Unguarded(source)
      BY <1>4, <1>9, <1>19 DEF Unguarded
    <2>6. InHand'
      BY <1>1, <1>4, <1>7, <1>10, <1>15, <1>16, <1>17, <2>3, <2>4, <2>5, HandKept
    <2>. QED
      BY <1>1, <2>3, <2>6, GoesOnJudged DEF InLines
  <1>. QED
    BY <1>18, <1>19, GuardEndTells DEF n, B

(* What the checks of lines find is of neither kind that is told apart. *)
LEMMA RaisedApart ==
  ASSUME NEW n \in Nat, NEW found \in Seq(Findings)
  PROVE  \A e \in ToSet(RaisedOn(n, found)) : e.category \notin Apart
  <1>1. RaisedOn(n, found) \in Seq(Reports)
    BY RaisedTyped
  <1>2. \A e \in ToSet(RaisedOn(n, found)) : e \in Reports
    BY <1>1, LenProperties, ElementOfSeq DEF ToSet
  <1>. QED
    BY <1>2 DEF Reports, Checks, Apart

(* Nor is anything else that a line raises, its width excepted. *)
LEMMA LineApart ==
  ASSUME filename \in DOMAIN Sources, NEW n \in 1 .. NumLines
  PROVE  \A e \in OfLine(source, n) : e.category \notin Apart
  <1>. DEFINE l == source.lines[n]
  <1>1. source.lines \in Seq(Lines) /\ n \in Nat
    BY GuardLines, SourcesAssumption DEF source
  <1>2. l \in Lines
    BY <1>1, ElementOfSeq DEF NumLines
  <1>3. l.nesting \in Seq(Findings) /\ l.found \in Seq(Findings) /\ l.cxx11 \in Seq(Findings)
    BY <1>2 DEF Lines
  <1>. HIDE DEF l
  <1>4. /\ \A e \in ToSet(RaisedOn(n, l.nesting)) : e.category \notin Apart
        /\ \A e \in ToSet(RaisedOn(n, l.found)) : e.category \notin Apart
        /\ \A e \in ToSet(RaisedOn(n, l.cxx11)) : e.category \notin Apart
    BY <1>1, <1>3, RaisedApart
  <1>5. \A e \in BadNolint(source, n) : e.category \notin Apart
    BY DEF BadNolint, At, Apart
  <1>6. OfLine(source, n) = ToSet(RaisedOn(n, l.nesting)) \cup ToSet(RaisedOn(n, l.cxx11))
          \cup (IF l.asm THEN {} ELSE ToSet(RaisedOn(n, l.found))) \cup BadNolint(source, n)
    BY Zenon DEF OfLine, l
  <1>. QED
    BY <1>4, <1>5, <1>6

(* Nor what is told of the whole file at its end. *)
LEMMA AfterLinesApart ==
  ASSUME filename \in DOMAIN Sources
  PROVE  \A e \in AfterLines(source) : e.category \notin Apart
  <1>1. /\ source.blocks \in Seq(Reports) /\ source.includes \in Seq(Reports)
        /\ source.header \in Seq(Reports) /\ source.characters \in Seq(Reports)
    BY SourcesAssumption DEF source
  <1>2. \A s \in Seq(Reports) : \A e \in ToSet(s) : e.category \notin Apart
    <2>1. \A s \in Seq(Reports) : \A e \in ToSet(s) : e \in Reports
      BY LenProperties, ElementOfSeq DEF ToSet
    <2>. QED
      BY <2>1 DEF Reports, Checks, Apart
  <1>3. /\ \A e \in ToSet(source.blocks) : e.category \notin Apart
        /\ \A e \in ToSet(source.includes) : e.category \notin Apart
        /\ \A e \in ToSet(source.header) : e.category \notin Apart
        /\ \A e \in ToSet(source.characters) : e.category \notin Apart
    BY <1>1, <1>2
  <1>4. \A n : /\ At(n, "whitespace/newline", 1).category \notin Apart
               /\ At(n, "whitespace/ending_newline", 5).category \notin Apart
    BY DEF At, Apart
  <1>. QED
    BY <1>3, <1>4 DEF AfterLines

(* A line. *)
LEMMA LineJudges ==
  ASSUME LintInv, JudgeInv, ProcessLine
  PROVE  JudgeInv'
  <1>. DEFINE es == error_suppressions
              early == Early(source)
              read == early \cup 1 .. (line - 1)
              now == early \cup 1 .. line
              L == OfLine(source, line)
              E == L \cup Wide(line)
  <1>1. /\ pc = "lines" /\ pc' = "lines" /\ line' = line + 1 /\ line <= NumLines
        /\ UNCHANGED <<command, config, current, verbose_level, valid_extensions, filters>>
    BY DEF ProcessLine, FileUnchanged, settings
  <1>2. /\ line \in 1 .. NumLines /\ Tells(ParseNolint(es, line), E)
        /\ \A e \in Wide(line) : e.category = "whitespace/line_length"
    BY LineTells
  <1>3. InHand
    BY <1>1 DEF JudgeInv, InLines
  <1>4. filename \in DOMAIN Sources /\ NumLines \in Nat /\ line \in Nat
    BY <1>1, FilesProperties, GuardLines DEF InFile, LintInv, TypeOK
  <1>5. /\ source.readable /\ (filename = "-" \/ source.extension \in Arguments.valid_extensions)
        /\ Silences(es, source, read)
        /\ \A k : k = current =>
             /\ Others(k) = Passing(source, ToldByNow("lines", source, line))
             /\ GuardTold(k) => Unguarded(source)
             /\ MustBeTold(source) => GuardTold(k)
    BY <1>1, <1>3 DEF InHand, ReadLines, GuardSeen
  <1>6. 1 .. ((line + 1) - 1) = 1 .. line /\ 1 .. line = 1 .. (line - 1) \cup {line}
    BY <1>2, <1>4
  <1>7. Silences(ParseNolint(es, line), source, now)
    <2>1. Silences(ParseNolint(es, line), source, read \cup {line})
      BY <1>2, <1>4, <1>5, LineRead
    <2>2. read \cup {line} = now
      BY <1>6
    <2>. QED
      BY <2>1, <2>2
  <1>8. \A e \in L : e.category \notin Apart
    BY <1>2, <1>4, LineApart
  <1>9. OnLine(source, line) = {e \in L : Unsuppressed(source, now, e)}
    BY DEF OnLine
  <1>10. ReadLines("lines", source, line + 1) = now
    BY <1>6 DEF ReadLines
  <1>11. ToldByNow("lines", source, line + 1) = ToldByNow("lines", source, line) \cup OnLine(source, line)
    <2>. DEFINE Of(S) == UNION {OnLine(source, n) : n \in S}
    <2>1. Of(1 .. (line - 1) \cup {line}) = Of(1 .. (line - 1)) \cup OnLine(source, line)
      OBVIOUS
    <2>2. ToldByNow("lines", source, line + 1)
            = BeforeLines(source) \cup (InEarlyLines(source) \cup Of(1 .. ((line + 1) - 1)))
      BY DEF ToldByNow
    <2>3. ToldByNow("lines", source, line)
            = BeforeLines(source) \cup (InEarlyLines(source) \cup Of(1 .. (line - 1)))
      BY DEF ToldByNow
    <2>. HIDE DEF Of
    <2>. QED
      BY <1>6, <2>1, <2>2, <2>3
  <1>. HIDE DEF L, now, read
  <1>12. {e \in E : Unsuppressed(source, now, e) /\ e.category \notin Apart} = OnLine(source, line)
    BY <1>2, <1>8, <1>9 DEF Apart
  <1>13. \A e \in Passing(source, E) : e.category # "build/header_guard"
    BY <1>2, <1>8 DEF Passing, Apart
  <1>. HIDE DEF E
  <1>14. /\ error_suppressions' = ParseNolint(es, line) /\ \A k : k # current => PrintedFor(k)' = PrintedFor(k)
         /\ \A k : k = current =>
              /\ Others(k)' = Others(k) \cup Passing(source, OnLine(source, line))
              /\ GuardTold(k)' <=> \/ GuardTold(k)
                                   \/ \E e \in Passing(source, E) : /\ e.category = "build/header_guard"
                                                                    /\ Unsuppressed(source, now, e)
    BY <1>1, <1>2, <1>7, <1>12, MorePrinted DEF InLines
  <1>15. Passing(source, ToldByNow("lines", source, line + 1))
           = Passing(source, ToldByNow("lines", source, line)) \cup Passing(source, OnLine(source, line))
    BY <1>11 DEF Passing
  <1>16. Reading("lines", source, line + 1)
    BY <1>1, <1>4 DEF Reading, InLines, NumLines
  <1>17. InHand'
    BY <1>1, <1>5, <1>7, <1>10, <1>13, <1>14, <1>15, <1>16, HandKept
  <1>. QED
    BY <1>1, <1>14, <1>17, GoesOnJudged DEF InLines

(* The end of a file: it is judged. *)
LEMMA FinishFileJudges ==
  ASSUME LintInv, JudgeInv, FinishFile
  PROVE  JudgeInv'
  <1>. DEFINE es == error_suppressions
              all == DOMAIN source.lines
              E == AfterLines(source)
              told == BeforeLines(source) \cup (InEarlyLines(source) \cup UNION {OnLine(source, n) : n \in all})
  <1>1. /\ pc = "lines" /\ line > NumLines /\ LeaveFile
        /\ UNCHANGED <<command, config, verbose_level, valid_extensions>>
    BY DEF FinishFile, FileUnchanged, settings
  <1>2. Tells(es, E)
    BY FinishTells
  <1>3. InHand /\ Decided
    BY <1>1 DEF JudgeInv, InLines
  <1>4. filename \in DOMAIN Sources /\ NumLines \in Nat /\ line \in Nat
    BY <1>1, FilesProperties, GuardLines DEF InFile, LintInv, TypeOK
  <1>5. Early(source) \subseteq all /\ all = 1 .. NumLines
    BY <1>4, EarlyLines
  <1>6. 1 .. (line - 1) = all /\ Early(source) \cup all = all
    <2>1. line = NumLines + 1
      BY <1>1, <1>3, <1>4 DEF InHand, Reading, NumLines
    <2>. QED
      BY <1>4, <1>5, <2>1
  <1>7. ReadLines("lines", source, line) = all /\ ToldByNow("lines", source, line) = told
    BY <1>6 DEF ReadLines, ToldByNow
  <1>8. /\ source.readable /\ (filename = "-" \/ source.extension \in Arguments.valid_extensions)
        /\ Silences(es, source, all)
        /\ \A k : k = current => /\ Others(k) = Passing(source, told)
                                 /\ GuardTold(k) => Unguarded(source)
                                 /\ MustBeTold(source) => GuardTold(k)
    BY <1>1, <1>3, <1>7 DEF InHand, GuardSeen
  <1>9. \A e \in E : e.category \notin Apart
    BY <1>4, AfterLinesApart
  <1>10. OnLines(source) = (InEarlyLines(source) \cup UNION {OnLine(source, n) : n \in all})
                             \cup {e \in E : Unsuppressed(source, all, e)}
    BY DEF OnLines
  <1>11. ~Excluded(current)
    BY <1>3 DEF Decided
  <1>12. ASSUME NEW k, k = current
         PROVE  Checked(k) /\ Deserved(k) = Passing(source, OnLines(source) \cup BeforeLines(source))
    <2>1. Sources[filenames[k]] = source /\ filenames[k] = filename
      BY <1>12 DEF source, filename
    <2>2. Checked(k)
      BY <1>8, <1>11, <1>12, <2>1 DEF Checked
    <2>3. Deserved(k) = {e \in OnLines(Sources[filenames[k]]) \cup BeforeLines(Sources[filenames[k]]) :
                           e.confidence >= Arguments.verbose_level /\ Passes(Sources[filenames[k]], e.category)}
      BY <2>2, Zenon DEF Deserved
    <2>. QED
      BY <2>1, <2>2, <2>3 DEF Passing
  <1>. HIDE DEF E, all
  <1>13. {e \in E : Unsuppressed(source, all, e) /\ e.category \notin Apart} = {e \in E : Unsuppressed(source, all, e)}
    BY <1>9
  <1>14. \A e \in Passing(source, E) : e.category # "build/header_guard"
    BY <1>9 DEF Passing, Apart
  <1>15. /\ \A k : k # current => PrintedFor(k)' = PrintedFor(k)
         /\ \A k : k = current =>
              /\ Others(k)' = Others(k) \cup Passing(source, {e \in E : Unsuppressed(source, all, e)})
              /\ GuardTold(k)' <=> \/ GuardTold(k)
                                   \/ \E e \in Passing(source, E) : /\ e.category = "build/header_guard"
                                                                    /\ Unsuppressed(source, all, e)
    BY <1>1, <1>2, <1>8, <1>13, MorePrinted DEF InLines
  <1>16. Passing(source, OnLines(source) \cup BeforeLines(source))
           = Passing(source, told) \cup Passing(source, {e \in E : Unsuppressed(source, all, e)})
    BY <1>10 DEF Passing
  <1>17. ASSUME NEW k, k = current PROVE Judged(k)'
    <2>1. Others(k)' = Deserved(k) /\ (GuardTold(k)' <=> GuardTold(k))
      BY <1>8, <1>12, <1>14, <1>15, <1>16, <1>17
    <2>2. /\ Deserved(k)' = Deserved(k) /\ filenames' = filenames
          /\ \A f : MustBeTold(f)' <=> MustBeTold(f)
      BY <1>1, SameJudgement
    <2>3. Sources[filenames[k]] = source
      BY <1>17 DEF source, filename
    <2>4. Others(k)' = Deserved(k)' /\ (GuardTold(k)' => Unguarded(source))
          /\ (MustBeTold(source) => GuardTold(k)')
      BY <1>8, <1>17, <2>1, <2>2
    <2>. QED
      BY <2>2, <2>3, <2>4 DEF Judged
  <1>18. Elsewhere
    BY <1>1, <1>15 DEF Elsewhere
  <1>. QED
    BY <1>1, <1>17, <1>18, LeavesJudged DEF InFile

(* Nothing is printed before the first file. *)
LEMMA InitJudges == Init => JudgeInv
  <1>. SUFFICES ASSUME Init PROVE JudgeInv
    OBVIOUS
  <1>1. pc = "parse" /\ current = 1 /\ printed = << >>
    BY DEF Init
  <1>2. \A k : PrintedFor(k) = {}
    BY <1>1 DEF PrintedFor, ToSet
  <1>3. 1 .. current - 1 = {}
    BY <1>1
  <1>. QED
    BY <1>1, <1>2, <1>3 DEF JudgeInv, InLines

(* JudgeInv holds in every state of a run. *)
LEMMA AlwaysJudged == Spec => []JudgeInv
  <1>1. ASSUME LintInv, JudgeInv, [Next]_vars PROVE JudgeInv'
    <2>1. CASE UNCHANGED vars
      <3>1. UNCHANGED <<pc, command, config, current, verbose_level, valid_extensions, filters, level,
                        cfg_filters, keep_looking, error_suppressions, line, printed>>
        BY <2>1 DEF vars, settings, counts, walk
      <3>2. /\ Elsewhere /\ (\A k : PrintedFor(k)' = PrintedFor(k))
            /\ source' = source /\ filename' = filename /\ Arguments' = Arguments /\ filenames' = filenames
            /\ \A i : Conf(i)' = Conf(i) /\ BaseName(i)' = BaseName(i)
            /\ \A f : Reached(f)' = Reached(f) /\ (MustBeTold(f)' <=> MustBeTold(f))
            /\ \A f, c : Passes(f, c)' <=> Passes(f, c)
            /\ \A k : Excluded(k)' <=> Excluded(k)
            /\ \A k : /\ Judged(k)' <=> Judged(k)
                      /\ Others(k)' = Others(k) /\ (GuardTold(k)' <=> GuardTold(k))
        BY <3>1, SilentElsewhere, SameSource, SameJudgement, SameJudged
      <3>3. Walked => Walked'
        BY <3>1, <3>2 DEF Walked
      <3>4. Decided => Decided'
        BY <3>1, <3>2 DEF Decided
      <3>5. InHand => InHand'
        <4>1. \A f, E : Passing(f, E)' = Passing(f, E)
          BY <3>2, Zenon DEF Passing
        <4>. QED
          BY <3>1, <3>2, <4>1 DEF InHand
      <3>. QED
        BY <1>1, <3>1, <3>2, <3>3, <3>4, <3>5 DEF JudgeInv
    <2>2. CASE Finish
      BY <1>1, <2>2, ExitsJudged DEF Finish, InLines, counts
    <2>3. CASE BadPattern
      BY <1>1, <2>3, ExitsJudged DEF BadPattern, InLines, counts
    <2>. QED
      BY <1>1, <2>1, <2>2, <2>3, ParseJudges, NextFileJudges, LookForConfigJudges, ApplyConfigJudges,
         SkipFileJudges, StartFileJudges, GuardJudges, GuardEndJudges, LineJudges, FinishFileJudges DEF Next
  <1>. QED
    BY InitJudges, AlwaysLint, <1>1, PTL DEF Spec

(* Of the errors its lines raise, a file has those printed that its own NOLINT  *)
(* comments read by then, the configurations of its directories, the flags and  *)
(* the verbosity let pass, whatever the files before it left in the globals.    *)
THEOREM DeservedIsPrinted == Spec => []PrintsTheDeserved
  <1>1. JudgeInv => PrintsTheDeserved
    BY Zenon DEF JudgeInv, PrintsTheDeserved, Judged, Others, Apart
  <1>. QED
    BY AlwaysJudged, <1>1, PTL

(* A header that is guarded is not told of its guard, and one that is not is told *)
(* unless a comment, a filter or the verbosity keeps it back.                     *)
THEOREM GuardsAreTold == Spec => []GuardsAreJudged
  <1>1. JudgeInv => GuardsAreJudged
    BY Zenon DEF JudgeInv, GuardsAreJudged, Judged, GuardTold, Unguarded, MustBeTold
  <1>. QED
    BY AlwaysJudged, <1>1, PTL
=============================================================================
