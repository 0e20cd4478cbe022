------------------------------- MODULE Linter -------------------------------
(***************************************************************************)
(* A run of cpplint.py: the command line, then each file with the          *)
(* CPPLINT.cfg files of its directories, its NOLINT comments and the       *)
(* errors its lines raise.  What the single checks look for is data: a     *)
(* line carries the errors they raise on it.  What is modelled is which of *)
(* them are printed and counted, and what one file leaves behind for the   *)
(* next: the module keeps its settings in globals.                         *)
(***************************************************************************)
EXTENDS Integers, Sequences, FiniteSets, SequencesExt

CONSTANTS
  Categories,     (* _ERROR_CATEGORIES                                       *)
  Toplevel,       (* category -> what stands before its "/"                  *)
  DefaultFilters, (* _DEFAULT_FILTERS                                        *)
  Commands,       (* command lines: [opts, filenames]                        *)
  Sources,        (* file name -> the file on disk, with its lines           *)
  Configs         (* what the CPPLINT.cfg files may be: directory -> config  *)

Signs == {"+", "-", "none"}
NoComment == [next |-> FALSE, category |-> "none"]
All == "all"             (* NOLINT without a category, or with a star          *)
Unknown == "unknown"     (* a category neither known nor a legacy one        *)

(* A filter is its sign and the categories that start with its name. *)
Filters == [sign : Signs, covers : SUBSET Categories]
HasSign(fs) == \A i \in DOMAIN fs : fs[i].sign # "none"

(* What the checks of a line find, maybe some lines further down, and what is *)
(* told of the whole file; the width and the header guard are modelled below. *)
Checks == Categories \ {"build/header_guard", "whitespace/line_length"}
Findings == [category : Checks, confidence : 0 .. 5, below : Nat]
Reports == [line : Nat, category : Checks, confidence : 0 .. 5]

Lines ==
  [nolint : [next : BOOLEAN, category : Categories \cup {All, Unknown, NoComment.category}],
   nesting : Seq(Findings), found : Seq(Findings), cxx11 : Seq(Findings),
   asm : BOOLEAN, width : Nat, cr : BOOLEAN,
   guard : [word : STRING, name : STRING, comment : STRING]]

ASSUME CategoriesAssumption ==
  /\ IsFiniteSet(Categories)
  /\ {"build/header_guard", "legal/copyright", "readability/multiline_comment", "readability/nolint",
      "whitespace/ending_newline", "whitespace/line_length", "whitespace/newline"} \subseteq Categories
  /\ {All, Unknown, NoComment.category} \cap Categories = {}
  /\ DefaultFilters \in Seq(Filters) /\ HasSign(DefaultFilters)

ASSUME SourcesAssumption ==
  \A name \in DOMAIN Sources :
    /\ Sources[name].lines \in Seq(Lines)
    /\ Sources[name].blocks \in Seq(Reports) /\ Sources[name].includes \in Seq(Reports)
    /\ Sources[name].header \in Seq(Reports) /\ Sources[name].characters \in Seq(Reports)
    /\ Sources[name].unfinished \in Nat
    /\ Sources[name].path \in Seq(ToSet(Sources[name].path))
    /\ \A c \in Configs : ToSet(Sources[name].path) \subseteq DOMAIN c

(* The value of an option or of a configuration's line: int() takes any number. *)
Takes(o) ==
  /\ o.name = "filter" => o.val \in Seq(Filters)
  /\ o.name \in {"verbose", "linelength"} => o.val \in Int
  /\ o.name = "counting" => o.val \in {"total", "toplevel", "detailed"}

ASSUME CommandsAssumption ==
  \A c \in Commands :
    /\ c.filenames \in Seq(DOMAIN Sources)
    /\ c.opts \in Seq(ToSet(c.opts)) /\ \A o \in ToSet(c.opts) : Takes(o)

ASSUME ConfigsAssumption ==
  \A c \in Configs : \A d \in DOMAIN c :
    /\ c[d].is \in {"absent", "unreadable", "readable"}
    /\ c[d].lines \in Seq(ToSet(c[d].lines)) /\ \A l \in ToSet(c[d].lines) : Takes(l)
    /\ c[d].is # "readable" => c[d].lines = << >>

VARIABLES
  pc,                 (* where main is                                       *)
  status,             (* the exit status; -1: running                        *)
  command, config,    (* what main was called with, and what is on disk      *)
  current,            (* index of the file in hand                           *)
  verbose_level, counting, valid_extensions, line_length,
  filters, filters_backup,
  error_count, errors_by_category,
  error_suppressions, (* category -> line numbers                            *)
  level,              (* directories looked at for a CPPLINT.cfg             *)
  cfg_filters,        (* their filters, innermost first                      *)
  keep_looking,
  line,               (* the line in hand                                    *)
  printed             (* the errors printed                                  *)

settings == <<verbose_level, counting, valid_extensions, filters_backup>>
counts == <<error_count, errors_by_category, printed>>
walk == <<level, cfg_filters, keep_looking>>
vars == <<pc, status, command, config, current, settings, line_length, filters, counts,
          error_suppressions, walk, line>>

filenames == command.filenames
filename == filenames[current]
source == Sources[filename]
NumLines == Len(source.lines)

-----------------------------------------------------------------------------
(* ParseArguments: each option in turn, the first bad one ends the process. *)

Initially == [status |-> -1, verbose_level |-> 1, filters |-> << >>, counting |-> "total",
              line_length |-> 80, valid_extensions |-> {"cc", "h", "cpp", "cu", "cuh"}]

Option(s, o) ==
  LET Dies(code) == [s EXCEPT !.status = code] IN
  IF s.status # -1 THEN s ELSE
  CASE o.name = "help"         -> Dies(1)
    [] o.name = "malformed"    -> Dies(1)     (* a value it cannot take *)
    [] o.name = "filter"       -> IF o.val = << >> THEN Dies(0) ELSE [s EXCEPT !.filters = o.val]
    [] o.name = "verbose"      -> [s EXCEPT !.verbose_level = o.val]
    [] o.name = "counting"     -> [s EXCEPT !.counting = o.val]
    [] o.name = "linelength"   -> [s EXCEPT !.line_length = o.val]
    [] o.name = "extensions"   -> [s EXCEPT !.valid_extensions = o.val]
    [] OTHER                   -> s     (* output, root: no part of the model *)

(* SetFilters puts the default filters before the flag's. *)
Arguments ==
  LET s == FoldLeft(Option, Initially, command.opts) IN
  IF s.status = -1 /\ (filenames = << >> \/ ~HasSign(s.filters))
  THEN [s EXCEPT !.status = 1] ELSE s

Init ==
  /\ pc = "parse" /\ status = -1
  /\ command \in Commands /\ config \in Configs
  /\ current = 1
  /\ verbose_level = Initially.verbose_level /\ counting = Initially.counting
  /\ valid_extensions = Initially.valid_extensions /\ line_length = Initially.line_length
  /\ filters = DefaultFilters /\ filters_backup = DefaultFilters
  /\ error_count = 0 /\ errors_by_category = [c \in Categories \cup {Toplevel[d] : d \in Categories} |-> 0]
  /\ error_suppressions = [c \in Categories \cup {All} |-> {}]
  /\ level = 0 /\ cfg_filters = << >> /\ keep_looking = TRUE
  /\ line = 0 /\ printed = << >>

ParseArguments ==
  /\ pc = "parse"
  /\ IF Arguments.status # -1
     THEN /\ pc' = "exit" /\ status' = Arguments.status
          /\ UNCHANGED <<verbose_level, counting, valid_extensions, line_length, filters>>
     ELSE /\ pc' = "next" /\ UNCHANGED status
          /\ verbose_level' = Arguments.verbose_level
          /\ counting' = Arguments.counting
          /\ valid_extensions' = Arguments.valid_extensions
          /\ line_length' = Arguments.line_length
          /\ filters' = DefaultFilters \o Arguments.filters
  /\ UNCHANGED <<command, config, current, filters_backup, counts, error_suppressions, walk, line>>

-----------------------------------------------------------------------------
(* Error: what is printed and counted. *)

IsErrorSuppressedByNolint(suppressions, e) ==
  e.line \in suppressions[e.category] \cup suppressions[All]

(* The last filter whose name the category starts with decides. *)
IsFiltered(category) ==
  FoldLeft(LAMBDA filtered, f : IF category \in f.covers THEN f.sign = "-" ELSE filtered,
           FALSE, filters)

ShouldPrintError(suppressions, e) ==
  /\ ~IsErrorSuppressedByNolint(suppressions, e)
  /\ e.confidence >= verbose_level
  /\ ~IsFiltered(e.category)

CountedAs(category) == IF counting = "detailed" THEN category ELSE Toplevel[category]

Shown(suppressions, errors) ==
  FoldLeft(LAMBDA shown, e : IF ShouldPrintError(suppressions, e) THEN Append(shown, e) ELSE shown,
           << >>, errors)

Printed(e) ==
  [file |-> current, line |-> e.line, category |-> e.category, confidence |-> e.confidence]

(* Mutant: an error is counted also when it is not printed. *)
ErrorCountingAll(suppressions, errors) ==
  LET shown == Shown(suppressions, errors)
  IN /\ printed' = printed \o [i \in DOMAIN shown |-> Printed(shown[i])]
     /\ error_count' = error_count + Len(errors)
     /\ UNCHANGED errors_by_category

(* The errors are raised in this order. *)
Error(suppressions, errors) ==
  LET shown == Shown(suppressions, errors)
      Hits(c) == {i \in DOMAIN shown : CountedAs(shown[i].category) = c}
  IN /\ printed' = printed \o [i \in DOMAIN shown |-> Printed(shown[i])]
     /\ error_count' = error_count + Len(shown)
     /\ errors_by_category' =
          IF counting = "total" THEN errors_by_category
          ELSE [c \in DOMAIN errors_by_category |-> errors_by_category[c] + Cardinality(Hits(c))]

At(n, category, confidence) == [line |-> n, category |-> category, confidence |-> confidence]

(* ParseNolintSuppressions of line n: the lines it adds, the error it raises. *)
Nolint(n) == IF n \in 1 .. NumLines THEN source.lines[n].nolint ELSE NoComment
NolintLine(n) == IF Nolint(n).next THEN n + 1 ELSE n

ParseNolint(suppressions, n) ==
  IF Nolint(n).category \in DOMAIN suppressions
  THEN [suppressions EXCEPT ![Nolint(n).category] = @ \cup {NolintLine(n)}]
  ELSE suppressions

NolintErrors(n) ==
  IF Nolint(n).category = Unknown THEN <<At(n, "readability/nolint", 5)>> ELSE << >>

-----------------------------------------------------------------------------
(* ProcessFile and ProcessConfigOverrides, from the innermost directory out. *)

NextFile ==
  /\ pc = "next"
  /\ current <= Len(filenames)
  /\ pc' = "config"
  /\ filters_backup' = filters
  /\ level' = 0 /\ cfg_filters' = << >> /\ keep_looking' = TRUE
  /\ UNCHANGED <<status, command, config, current, verbose_level, counting, valid_extensions,
                 line_length, filters, counts, error_suppressions, line>>

(* One line of a CPPLINT.cfg; base is the name under which the file, or the *)
(* directory that leads to it, stands beside this CPPLINT.cfg.              *)
ConfigLine(base, c, l) ==
  IF c.excluded THEN c ELSE
  CASE l.name = "set_noparent"  -> [c EXCEPT !.keep_looking = FALSE]
    [] l.name = "filter"        -> [c EXCEPT !.cfg_filters = Append(@, l.val)]
    [] l.name = "exclude_files" -> [c EXCEPT !.excluded = base \in l.val]
    [] l.name = "linelength"    -> [c EXCEPT !.line_length = l.val]
    [] OTHER                    -> c

ReadConfig(base, lines) ==
  FoldLeft(LAMBDA c, l : ConfigLine(base, c, l),
           [keep_looking |-> TRUE, cfg_filters |-> cfg_filters, line_length |-> line_length,
            excluded |-> FALSE], lines)

(* The lines of exclude_files with a pattern that is no regular expression. *)
BadPatterns(lines) == {j \in DOMAIN lines : lines[j].name = "bad_pattern"}
Raises(base, lines) ==
  \E j \in BadPatterns(lines) : ~ReadConfig(base, SubSeq(lines, 1, j - 1)).excluded

Directory(i) == source.path[i]
BaseName(i) == IF i = 1 THEN filename ELSE Directory(i - 1)

(* Mutant: the filters are not restored. *)
LeaveFileWithItsFilters == pc' = "next" /\ current' = current + 1 /\ UNCHANGED filters

(* The file in hand is left, with the filters of before. *)
LeaveFile ==
  /\ pc' = "next"
  /\ current' = current + 1
  /\ filters' = filters_backup

(* Mutant: a directory without CPPLINT.cfg is not left. *)
LookForConfigInPlace ==
  /\ pc = "config"
  /\ keep_looking
  /\ level < Len(source.path)
  /\ LET found == config[Directory(level + 1)]
         c == ReadConfig(BaseName(level + 1), found.lines)
     IN /\ level' = IF found.is = "absent" THEN level ELSE level + 1
        /\ keep_looking' = (found.is # "unreadable" /\ c.keep_looking)
        /\ cfg_filters' = c.cfg_filters /\ line_length' = c.line_length
        /\ IF c.excluded THEN LeaveFile ELSE UNCHANGED <<pc, current, filters>>
  /\ UNCHANGED <<status, command, config, settings, counts, error_suppressions, line>>

LookForConfig ==
  /\ pc = "config"
  /\ keep_looking
  /\ level < Len(source.path)
  /\ ~Raises(BaseName(level + 1), config[Directory(level + 1)].lines)
  /\ level' = level + 1
  /\ LET found == config[Directory(level + 1)]
         c == ReadConfig(BaseName(level + 1), found.lines)
     IN CASE found.is = "absent"     -> UNCHANGED <<cfg_filters, keep_looking, line_length,
                                                    pc, current, filters>>
          [] found.is = "unreadable" -> /\ keep_looking' = FALSE
                                        /\ UNCHANGED <<cfg_filters, line_length, pc, current, filters>>
          [] found.is = "readable"   -> /\ keep_looking' = c.keep_looking
                                        /\ cfg_filters' = c.cfg_filters
                                        /\ line_length' = c.line_length
                                        /\ IF c.excluded THEN LeaveFile
                                           ELSE UNCHANGED <<pc, current, filters>>
  /\ UNCHANGED <<status, command, config, settings, counts, error_suppressions, line>>

(* The first pattern that does not compile, where nothing above it excludes the *)
(* file, is a re.error that nothing catches: the lines above it were obeyed.    *)
BadPattern ==
  /\ pc = "config"
  /\ keep_looking
  /\ level < Len(source.path)
  /\ LET lines == config[Directory(level + 1)].lines
         c == ReadConfig(BaseName(level + 1), SubSeq(lines, 1, Min(BadPatterns(lines)) - 1))
     IN /\ Raises(BaseName(level + 1), lines)
        /\ line_length' = c.line_length
  /\ pc' = "exit" /\ status' = 1
  /\ UNCHANGED <<command, config, current, settings, filters, counts, error_suppressions,
                 walk, line>>

(* Mutant: the signs are not looked at. *)
ApplyConfigUnchecked ==
  /\ pc = "config"
  /\ ~keep_looking \/ level = Len(source.path)
  /\ filters' = filters \o FlattenSeq(Reverse(cfg_filters))
  /\ pc' = "open"
  /\ UNCHANGED <<status, command, config, current, settings, line_length, counts,
                 error_suppressions, walk, line>>

(* The filters of the outer directories come first; those with one without *)
(* a sign are the last, a ValueError that nothing catches.                 *)
ApplyConfig ==
  /\ pc = "config"
  /\ ~keep_looking \/ level = Len(source.path)
  /\ LET added == Reverse(cfg_filters)
         bad == {i \in DOMAIN added : ~HasSign(added[i])}
     IN IF bad = {}
        THEN pc' = "open" /\ filters' = filters \o FlattenSeq(added) /\ UNCHANGED status
        ELSE /\ pc' = "exit" /\ status' = 1
             /\ filters' = filters \o FlattenSeq(SubSeq(added, 1, Min(bad)))
  /\ UNCHANGED <<command, config, current, settings, line_length, counts, error_suppressions,
                 walk, line>>

SkipFile ==
  /\ pc = "open"
  /\ ~source.readable \/ (filename # "-" /\ source.extension \notin valid_extensions)
  /\ LeaveFile
  /\ UNCHANGED <<status, command, config, settings, line_length, counts, error_suppressions,
                 walk, line>>

-----------------------------------------------------------------------------
(* ProcessFileData: the whole file first, then its lines, then the rest. *)

Reported(suppressions, errors) == Error(suppressions, errors) /\ error_suppressions' = suppressions
FileUnchanged ==
  UNCHANGED <<status, command, config, settings, line_length, walk>>

(* Mutant: the suppressions of the file before stay. *)
ResetNothing == error_suppressions
ResetNolintSuppressions == [c \in DOMAIN error_suppressions |-> {}]

StartFile ==
  /\ pc = "open"
  /\ source.readable /\ (filename = "-" \/ source.extension \in valid_extensions)
  /\ Reported(ResetNolintSuppressions,
       (IF source.copyright THEN << >> ELSE <<At(0, "legal/copyright", 5)>>)
       \o (IF source.unfinished = 0 THEN << >>
           ELSE <<At(source.unfinished + 1, "readability/multiline_comment", 5)>>))
  /\ pc' = IF source.extension = "h" THEN "guard" ELSE "lines"
  /\ line' = 1
  /\ FileUnchanged /\ UNCHANGED <<current, filters>>

(* CheckForHeaderGuard looks for a name (Guard) in the first #ifndef and the *)
(* first #define, and in the comment of the last #endif.                     *)
(* The name a header's guard should have; those of the lines are this one, it *)
(* with one more underscore at its end, and others.                            *)
GetHeaderGuardCPPVariable == "GUARD_"

Guard(n) == source.lines[n].guard
LinesWith(word) == {n \in 1 .. NumLines : Guard(n).word = word}
FirstWith(word) == IF LinesWith(word) = {} THEN 0 ELSE Min(LinesWith(word))
(* Mutant: the first #endif is taken for the last. *)
LastIsTheFirst(word) == FirstWith(word)
LastWith(word) == IF LinesWith(word) = {} THEN 0 ELSE Max(LinesWith(word))

GuardSilenced ==
  \E n \in 1 .. NumLines : Nolint(n) = [next |-> FALSE, category |-> "build/header_guard"]

NoGuard ==
  LET i == FirstWith("#ifndef") d == FirstWith("#define") IN
  i = 0 \/ d = 0 \/ (i # 0 /\ d # 0 /\ Guard(i).name # Guard(d).name)

CheckForHeaderGuard ==
  /\ pc = "guard"
  /\ LET i == FirstWith("#ifndef") IN
     CASE GuardSilenced               -> pc' = "lines" /\ Reported(error_suppressions, << >>)
       [] ~GuardSilenced /\ NoGuard   -> pc' = "lines" /\ Reported(error_suppressions,
                                           <<At(0, "build/header_guard", 5)>>)
       [] ~GuardSilenced /\ ~NoGuard  ->
            /\ pc' = "endif"
            /\ IF Guard(i).name = GetHeaderGuardCPPVariable THEN Reported(error_suppressions, << >>)
               ELSE Reported(ParseNolint(error_suppressions, i), NolintErrors(i) \o
                      <<At(i, "build/header_guard", IF Guard(i).name = "GUARD__" THEN 0 ELSE 5)>>)
  /\ FileUnchanged /\ UNCHANGED <<current, filters, line>>

(* The comment of the last #endif: "/*" counts in a file without "//". *)
CheckForHeaderGuardEnd ==
  /\ pc = "endif"
  /\ LET n == LastWith("#endif")
         end == IF n = 0 THEN [name |-> "none", comment |-> "none"] ELSE Guard(n)
         read == \/ end.comment = "//"
                 \/ end.comment = "/*" /\ \A m \in 1 .. NumLines : Guard(m).comment # "//"
     IN Reported(ParseNolint(error_suppressions, n), NolintErrors(n) \o
          CASE read /\ end.name = GetHeaderGuardCPPVariable -> << >>
            [] read /\ end.name = "GUARD__" -> <<At(n, "build/header_guard", 0)>>
            [] OTHER                        -> <<At(n, "build/header_guard", 5)>>)
  /\ pc' = "lines"
  /\ FileUnchanged /\ UNCHANGED <<current, filters, line>>

(* What the checks of line n find is told on this line or, with a bracket that *)
(* is closed further down, on a line below, whose NOLINT is not read yet.      *)
RaisedOn(n, found) ==
  [i \in DOMAIN found |-> At(n + found[i].below, found[i].category, found[i].confidence)]

(* CheckStyle on the width of a line. *)
TooWide(n) ==
  LET width == source.lines[n].width IN
  IF width > (line_length * 5) \div 4 THEN <<At(n, "whitespace/line_length", 4)>>
  ELSE IF width > line_length THEN <<At(n, "whitespace/line_length", 2)>> ELSE << >>

(* ProcessLine: inside an asm block only the state of the nesting is updated; *)
(* FlagCxx11Features comes after it in any case.                              *)
ProcessLine ==
  /\ pc = "lines"
  /\ line <= NumLines
  /\ LET l == source.lines[line] IN
     Reported(ParseNolint(error_suppressions, line),
       NolintErrors(line) \o RaisedOn(line, l.nesting)
       \o (IF l.asm THEN << >> ELSE TooWide(line) \o RaisedOn(line, l.found))
       \o RaisedOn(line, l.cxx11))
  /\ line' = line + 1
  /\ FileUnchanged /\ UNCHANGED <<pc, current, filters>>

(* The checks after the last line, and ProcessFile's of the ends of lines. *)
FinishFile ==
  /\ pc = "lines"
  /\ line > NumLines
  /\ LET cr == {n \in 1 .. NumLines - 1 : source.lines[n].cr}
         unmixed == cr = {} \/ cr = 1 .. NumLines - 1
     IN Reported(error_suppressions,
          source.blocks \o source.includes
          \o (IF source.extension = "cc" THEN source.header ELSE << >>)
          \o source.characters
          \o (IF source.newline THEN << >> ELSE <<At(NumLines, "whitespace/ending_newline", 5)>>)
          \o (IF unmixed THEN << >>
              ELSE FlattenSeq([n \in 1 .. NumLines - 1 |->
                     IF n \in cr THEN <<At(n, "whitespace/newline", 1)>> ELSE << >>])))
  /\ LeaveFile
  /\ FileUnchanged /\ UNCHANGED line

(* PrintErrorCounts, sys.exit. *)
Finish ==
  /\ pc = "next"
  /\ current > Len(filenames)
  /\ pc' = "exit"
  /\ status' = IF error_count > 0 THEN 1 ELSE 0
  /\ UNCHANGED <<command, config, current, settings, line_length, filters, counts,
                 error_suppressions, walk, line>>

Next ==
  \/ ParseArguments \/ NextFile \/ LookForConfig \/ BadPattern \/ ApplyConfig \/ SkipFile \/ StartFile
  \/ CheckForHeaderGuard \/ CheckForHeaderGuardEnd \/ ProcessLine \/ FinishFile \/ Finish

Spec == Init /\ [][Next]_vars

(* A sequential program: it goes on while it can. *)
FairSpec == Spec /\ WF_vars(Next)

-----------------------------------------------------------------------------
TypeOK ==
  /\ pc \in {"parse", "next", "config", "open", "guard", "endif", "lines", "exit"}
  /\ status \in {-1, 0, 1} /\ (status = -1 <=> pc # "exit")
  /\ current \in 1 .. Len(filenames) + 1 /\ line \in Nat /\ level \in Nat
  /\ verbose_level \in Int /\ counting \in {"total", "toplevel", "detailed"}
  /\ line_length \in Int /\ keep_looking \in BOOLEAN
  /\ filters \in Seq(Filters) /\ filters_backup \in Seq(Filters)
  /\ pc \in {"lines", "guard", "endif"} => HasSign(filters)
  /\ error_suppressions \in [Categories \cup {All} -> SUBSET Nat]
  /\ \A i \in DOMAIN printed :
       /\ printed[i].category \in Categories
       /\ printed[i].confidence \in 0 .. 5 /\ printed[i].confidence >= verbose_level

(* What one file sets for itself is undone before the next, on every way out   *)
(* of ProcessFile: excluded, unreadable, not of a valid extension or checked.  *)
FiltersBetweenFiles == pc = "next" => filters = DefaultFilters \o Arguments.filters

(* The sum of the counts by category is the total, and the process exits with  *)
(* 0 after the last file only if it has printed no error.                      *)
CountsAddUp ==
  /\ error_count = Len(printed)
  /\ counting # "total" => FoldFunction(+, 0, errors_by_category) = error_count
  /\ pc = "exit" /\ current > 1 /\ status = 0 => printed = << >> /\ current > Len(filenames)

(* The CPPLINT.cfg files that hold for a file: up to "set_noparent", or to one *)
(* that cannot be read.                                                        *)
Says(c, name) == {j \in DOMAIN c.lines : c.lines[j].name = name}
EndsTheWalk(c) == c.is = "unreadable" \/ Says(c, "set_noparent") # {}
Reached(f) == {i \in DOMAIN f.path : \A j \in 1 .. i - 1 : ~EndsTheWalk(config[f.path[j]])}

Excludes(c, base) == \E j \in Says(c, "exclude_files") : base \in c.lines[j].val
Excluded(k) ==
  LET f == Sources[filenames[k]] IN
  \E i \in Reached(f) :
    Excludes(config[f.path[i]], IF i = 1 THEN filenames[k] ELSE f.path[i - 1])

Checked(k) ==
  LET f == Sources[filenames[k]] IN
  /\ f.readable
  /\ filenames[k] = "-" \/ f.extension \in Arguments.valid_extensions
  /\ ~Excluded(k)

(* What a list of filters says of a category; of several, the first that says *)
(* anything decides.                                                           *)
Verdict(fs, category) ==
  LET hits == {i \in DOMAIN fs : category \in fs[i].covers} IN
  IF hits = {} THEN "none" ELSE fs[Max(hits)].sign

FirstToSpeak(verdicts) ==
  LET speaking == {i \in DOMAIN verdicts : verdicts[i] # "none"} IN
  IF speaking = {} THEN "none" ELSE verdicts[Min(speaking)]

(* The innermost configuration is the strongest, and in it the earliest line; *)
(* then come the outer ones, the flag's filters and the default ones.         *)
OfConfigLine(l, category) == IF l.name = "filter" THEN Verdict(l.val, category) ELSE "none"
OfConfig(c, category) ==
  FirstToSpeak([j \in DOMAIN c.lines |-> OfConfigLine(c.lines[j], category)])
OfWalk(f, category) ==
  FirstToSpeak([i \in DOMAIN f.path |->
                  IF i \in Reached(f) THEN OfConfig(config[f.path[i]], category) ELSE "none"])

Passes(f, category) ==
  FirstToSpeak(<<OfWalk(f, category), Verdict(Arguments.filters, category),
                 Verdict(DefaultFilters, category)>>) # "-"

(* The lines whose NOLINT the check of the header guard reads before all lines *)
(* are: the first #ifndef, if its name is wrong, and the last #endif.          *)
With(f, word) == {n \in DOMAIN f.lines : f.lines[n].guard.word = word}
NameAt(f, n) == f.lines[n].guard.name
Silenced(f) ==
  \E n \in DOMAIN f.lines : f.lines[n].nolint = [next |-> FALSE, category |-> "build/header_guard"]
NamesAgree(f) ==
  /\ With(f, "#ifndef") # {} /\ With(f, "#define") # {}
  /\ NameAt(f, Min(With(f, "#ifndef"))) = NameAt(f, Min(With(f, "#define")))

WrongName(f) ==
  {n \in With(f, "#ifndef") : n = Min(With(f, "#ifndef")) /\ NameAt(f, n) # "GUARD_"}
LastEndif(f) == {n \in With(f, "#endif") : n = Max(With(f, "#endif"))}
Early(f) ==
  IF f.extension = "h" /\ ~Silenced(f) /\ NamesAgree(f) THEN WrongName(f) \cup LastEndif(f) ELSE {}

(* No NOLINT on the lines read so far is about this category and this line. *)
Unsuppressed(f, read, e) ==
  ~\E n \in read :
     /\ f.lines[n].nolint.category \in {e.category, All}
     /\ e.line = IF f.lines[n].nolint.next THEN n + 1 ELSE n

(* The errors that line n raises, and those told after the last line.          *)
BadNolint(f, n) ==
  IF f.lines[n].nolint.category # Unknown THEN {} ELSE {At(n, "readability/nolint", 5)}

OfLine(f, n) ==
  LET l == f.lines[n] IN
  ToSet(RaisedOn(n, l.nesting)) \cup ToSet(RaisedOn(n, l.cxx11))
  \cup (IF l.asm THEN {} ELSE ToSet(RaisedOn(n, l.found))) \cup BadNolint(f, n)

AfterLines(f) ==
  {At(n, "whitespace/newline", 1) :
     n \in {m \in 1 .. Len(f.lines) - 1 : f.lines[m].cr /\ \E k \in 1 .. Len(f.lines) - 1 : ~f.lines[k].cr}}
  \cup ToSet(f.blocks) \cup ToSet(f.includes) \cup ToSet(f.characters)
  \cup (IF f.extension = "cc" THEN ToSet(f.header) ELSE {})
  \cup (IF f.newline THEN {} ELSE {At(Len(f.lines), "whitespace/ending_newline", 5)})

(* What the NOLINT comments leave of them, each error against those read by then. *)
OnLine(f, n) == {e \in OfLine(f, n) : Unsuppressed(f, Early(f) \cup (1 .. n), e)}
InEarlyLines(f) ==
  {e \in UNION {BadNolint(f, n) : n \in Early(f)} : Unsuppressed(f, Early(f) \cap WrongName(f), e)}
OnLines(f) ==
  InEarlyLines(f) \cup (UNION {OnLine(f, n) : n \in DOMAIN f.lines})
  \cup {e \in AfterLines(f) : Unsuppressed(f, DOMAIN f.lines, e)}

(* These come before any NOLINT is read, and cannot be suppressed. *)
BeforeLines(f) ==
  (IF f.copyright THEN {} ELSE {At(0, "legal/copyright", 5)})
  \cup (IF f.unfinished = 0 THEN {} ELSE {At(f.unfinished + 1, "readability/multiline_comment", 5)})

(* The errors of other kinds than the width of lines, which has its own run,   *)
(* and the header guard.                                                       *)
Deserved(k) ==
  LET f == Sources[filenames[k]] IN
  IF ~Checked(k) THEN {}
  ELSE {e \in OnLines(f) \cup BeforeLines(f) :
          e.confidence >= Arguments.verbose_level /\ Passes(f, e.category)}

PrintedFor(k) ==
  {At(e.line, e.category, e.confidence) : e \in {x \in ToSet(printed) : x.file = k}}

(* Of the errors its lines raise, a file gets printed those that its own       *)
(* NOLINT comments read by then, its configurations, the flags and the         *)
(* verbosity let pass, whatever the files before it were and however they      *)
(* ended.                                                                      *)
PrintsTheDeserved ==
  \A k \in 1 .. current - 1 :
    {e \in PrintedFor(k) : e.category \notin {"whitespace/line_length", "build/header_guard"}}
      = Deserved(k)

(* A header is told of its guard unless its first #ifndef and #define and the  *)
(* comment of its last #endif name the same right variable; a header that is   *)
(* guarded so is never told.                                                   *)
Guarded(f) ==
  LET Comment(n) == f.lines[n].guard.comment
      ends == With(f, "#endif")
  IN /\ NamesAgree(f) /\ NameAt(f, Min(With(f, "#ifndef"))) = "GUARD_"
     /\ ends # {} /\ NameAt(f, Max(ends)) = "GUARD_"
     /\ \/ Comment(Max(ends)) = "//"
        \/ Comment(Max(ends)) = "/*" /\ \A n \in DOMAIN f.lines : Comment(n) # "//"

GuardsAreJudged ==
  \A k \in 1 .. current - 1 :
    LET f == Sources[filenames[k]]
        told == \E e \in PrintedFor(k) : e.category = "build/header_guard"
    IN /\ told => f.extension = "h" /\ ~Guarded(f)
       /\ /\ f.extension = "h" /\ Checked(k) /\ ~Guarded(f)
          /\ Arguments.verbose_level = 0 /\ Passes(f, "build/header_guard")
          /\ \A n \in DOMAIN f.lines : f.lines[n].nolint.category \notin {All, "build/header_guard"}
          => told

(* main ends: also the walk through the directories does.                      *)
Terminates == <>(pc = "exit")

-----------------------------------------------------------------------------
(* cpplint.py:160-161: "CPPLINT.cfg has an effect on files in the same directory   *)
(* and all sub-directories, unless overridden by a nested configuration file": *)
(* a file is checked with the line length of the innermost configuration.      *)
LineLengthOf(f) ==
  LET set == {i \in Reached(f) : Says(config[f.path[i]], "linelength") # {}}
      c == config[f.path[Min(set)]]
  IN IF set = {} THEN Arguments.line_length ELSE c.lines[Max(Says(c, "linelength"))].val

NearestLineLength == pc = "lines" => line_length = LineLengthOf(source)
=============================================================================
