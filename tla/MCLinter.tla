------------------------------ MODULE MCLinter ------------------------------
(* Small files, configurations and command lines for TLC. *)
EXTENDS Linter

AllCategories ==
  {"build/header_guard", "build/include", "build/include_alpha", "legal/copyright",
   "readability/braces", "readability/multiline_comment", "readability/nolint", "runtime/int",
   "whitespace/ending_newline", "whitespace/line_length", "whitespace/newline"}

TopOf ==
  [c \in AllCategories |->
     CASE c \in {"build/header_guard", "build/include", "build/include_alpha"} -> "build"
       [] c = "legal/copyright" -> "legal"
       [] c \in {"readability/braces", "readability/multiline_comment", "readability/nolint"} -> "readability"
       [] c = "runtime/int" -> "runtime"
       [] OTHER -> "whitespace"]

Off(cs) == [sign |-> "-", covers |-> cs]
On(cs) == [sign |-> "+", covers |-> cs]
Unsigned(cs) == [sign |-> "none", covers |-> cs]
Build == {c \in AllCategories : TopOf[c] = "build"}
Include == {"build/include", "build/include_alpha"}
Defaults == <<Off({"build/include_alpha"})>>

(* Lines. *)
Found(category, confidence) == [category |-> category, confidence |-> confidence, below |-> 0]
FoundBelow(category, confidence) == [Found(category, confidence) EXCEPT !.below = 1]
Plain == [nolint |-> NoComment, nesting |-> << >>, found |-> << >>, cxx11 |-> << >>, asm |-> FALSE,
          width |-> 0, cr |-> FALSE, guard |-> [word |-> "", name |-> "none", comment |-> "none"]]
NolintOf(category) == [next |-> FALSE, category |-> category]
NextLineOf(category) == [next |-> TRUE, category |-> category]
Uses == [Plain EXCEPT !.found = <<Found("runtime/int", 4)>>]
Directive(word, name, comment) ==
  [Plain EXCEPT !.guard = [word |-> word, name |-> name, comment |-> comment]]

File(extension, path, lines) ==
  [extension |-> extension, path |-> path, lines |-> lines, readable |-> TRUE, copyright |-> TRUE,
   unfinished |-> 0, newline |-> TRUE, blocks |-> << >>, includes |-> << >>, header |-> << >>,
   characters |-> << >>]

SourcesSome ==
  [f \in {"a.cc", "b.cc", "c.h", "d.h", "e.h", "gone.cc", "x.txt", "-"} |->
   CASE f = "a.cc" ->      (* comments on their line, on the line before, and too late *)
          [File("cc", <<"sub", "top">>,
             <<[Uses EXCEPT !.nolint = NolintOf("runtime/int")],
               [Plain EXCEPT !.nolint = NextLineOf(All), !.width = 90],
               [Plain EXCEPT !.nesting = <<Found("build/include", 2)>>,
                             !.found = <<Found("runtime/int", 4), FoundBelow("readability/braces", 4)>>],
               [Uses EXCEPT !.nolint = NolintOf("readability/braces"), !.width = 120,
                            !.cxx11 = <<Found("build/include_alpha", 4)>>], Plain>>)
           EXCEPT !.includes = <<At(1, "build/include", 4)>>,
                  !.header = <<At(3, "build/include", 5), At(4, "build/include", 5)>>]
     [] f = "b.cc" ->      (* errors where a.cc has comments; an asm block; mixed ends of lines *)
          [File("cc", <<"top">>,
             <<[Uses EXCEPT !.cr = TRUE], Uses, [Uses EXCEPT !.asm = TRUE, !.cxx11 = <<Found("build/include", 5)>>],
               [Plain EXCEPT !.nolint = NolintOf(Unknown), !.width = 90]>>)
           EXCEPT !.newline = FALSE, !.copyright = FALSE, !.unfinished = 1]
     [] f = "c.h" ->       (* guarded, with another #if inside *)
          File("h", <<"sub", "top">>,
             <<Directive("#ifndef", "GUARD_", "none"), Directive("#define", "GUARD_", "none"),
               Directive("#endif", "none", "none"), Directive("#endif", "GUARD_", "//"), Plain>>)
     [] f = "d.h" ->       (* the names agree, and are wrong *)
          File("h", <<"sub", "top">>,
             <<[Directive("#ifndef", "OTHER", "none") EXCEPT !.nolint = NolintOf(All)],
               [Directive("#define", "OTHER", "none") EXCEPT !.found = <<FoundBelow("runtime/int", 4)>>],
               [Directive("#endif", "GUARD__", "/*") EXCEPT !.nolint = NolintOf("runtime/int")], Plain>>)
     [] f = "e.h" ->       (* no #define *)
          File("h", <<"top">>, <<Directive("#ifndef", "GUARD_", "none"), Plain>>)
     [] f = "gone.cc" -> [File("cc", <<"sub", "top">>, <<Plain>>) EXCEPT !.readable = FALSE]
     [] f = "x.txt" -> File("txt", <<"top">>, <<Uses>>)
     [] f = "-" -> File("-", <<"top">>, <<Uses, Plain>>)]

(* What a CPPLINT.cfg may hold. *)
Absent == [is |-> "absent", lines |-> << >>]
Unreadable == [is |-> "unreadable", lines |-> << >>]
Config(lines) == [is |-> "readable", lines |-> lines]
Set(name, val) == [name |-> name, val |-> val]

SubConfigs ==
  {Absent, Unreadable,
   Config(<<Set("filter", <<On({"build/include"})>>), Set("linelength", 100)>>),
   Config(<<Set("set_noparent", << >>), Set("filter", <<Off({"runtime/int"})>>),
            Set("filter", <<Off({"whitespace/newline"}), On({"runtime/int"})>>)>>),
   Config(<<Set("filter", <<Off(AllCategories)>>), Set("exclude_files", {"a.cc", "gone.cc"}),
            Set("linelength", 60)>>),
   Config(<<Set("exclude_files", {"a.cc", "gone.cc"}), Set("linelength", 60), Set("bad_pattern", "")>>)}

TopConfigs ==
  {Absent,
   Config(<<Set("filter", <<Off(Include), Off({"legal/copyright"})>>), Set("linelength", 70)>>),
   Config(<<Set("exclude_files", {"sub"}), Set("filter", <<On({"build/include_alpha"})>>)>>),
   Config(<<Set("filter", <<Unsigned({"runtime/int"})>>), Set("other", << >>)>>)}

ConfigsSome == {[d \in {"sub", "top"} |-> IF d = "sub" THEN s ELSE t] : s \in SubConfigs, t \in TopConfigs}
ConfigsNested ==
  {[d \in {"sub", "top"} |-> IF d = "sub" THEN Config(<<Set("linelength", 100)>>)
                             ELSE Config(<<Set("linelength", 70)>>)]}

Opt(name, val) == [name |-> name, val |-> val]
Call(opts, names) == [opts |-> opts, filenames |-> names]

CommandsSome ==
  {Call(<<Opt("verbose", 0)>>, fs) :
     fs \in {<<"a.cc", "b.cc", "-">>, <<"c.h", "d.h", "e.h">>, <<"b.cc", "a.cc">>, <<"d.h", "c.h", "b.cc">>,
             <<"gone.cc", "x.txt", "b.cc">>}}
  \cup {Call(<<Opt("counting", "toplevel")>>, <<"a.cc", "b.cc">>),
        Call(<<Opt("verbose", 3), Opt("counting", "detailed"), Opt("output", "vs7"),
               Opt("filter", <<Off(AllCategories), On(Build), On({"runtime/int"})>>),
               Opt("linelength", 100), Opt("extensions", {"h", "txt"})>>, <<"d.h", "x.txt", "b.cc">>),
        Call(<<Opt("filter", << >>)>>, <<"a.cc">>), Call(<<Opt("help", ""), Opt("filter", << >>)>>, << >>),
        Call(<<Opt("malformed", "")>>, <<"a.cc">>), Call(<< >>, << >>),
        Call(<<Opt("filter", <<Unsigned(Build)>>)>>, <<"b.cc">>)}

CommandPlain == {Call(<< >>, <<"a.cc">>)}
=============================================================================
