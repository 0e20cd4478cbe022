----------------------------- MODULE MCLintFile -----------------------------
(* Small files for TLC: all the texts of a length over several alphabets of  *)
(* lines, each for one of the states that outlive a line, some of them after *)
(* a beginning that is the same for all.                                     *)
EXTENDS LintFile

Empty == [pp |-> "", toks |-> << >>, indent |-> FALSE, macro |-> FALSE, comment |-> "none",
          include |-> NoInclude, call |-> "", uses |-> {}]
Line(toks) == [Empty EXCEPT !.toks = toks]
Indented(toks) == [Line(toks) EXCEPT !.indent = TRUE]
Call(kind, toks) == [Line(toks) EXCEPT !.call = kind]
Directive(pp) == [Line(<<"word">>) EXCEPT !.pp = pp]
Conditional == {Directive("if"), Directive("else"), Directive("endif")}

(* Blocks. *)
BlockLines ==
  {Line(<<"namespace", "{">>), Line(<<"namespace">>), Line(<<"namespace", "{", "namespace", "{">>),
   Line(<<"class">>), Line(<<"class", "{">>), Indented(<<"class", ";">>), Line(<<"class", ">">>),
   Line(<<"{">>), [Line(<<"}">>) EXCEPT !.comment = "wrong"], Line(<<"}", ";", "}">>),
   Line(<<"extern", "{">>)}
BranchLines == Conditional \cup {Line(<<"class">>), Line(<<"{">>), Line(<<"}">>)}
AsmLines ==
  {Line(<<"{">>), Line(<<"}">>), Line(<<"asm", "(">>), Line(<<"asm", "(", "word", ")">>), Line(<<")">>),
   Line(<<"asm", "{">>), Line(<<"word">>), Line(<<"(">>)}

AsmBranchLines ==
  Conditional \cup {Line(<<"{">>), Line(<<"asm", "(">>), Line(<<")">>), Line(<<"}">>)}

(* Classes. *)
ClassHead == Line(<<"class", "{">>)
AccessLines ==
  {ClassHead, Line(<<"struct", "{">>), Line(<<"public:">>), Line(<<"private:", "word", ";">>),
   Line(<<"}", ";">>), Line(<<"DISALLOW", ";">>)}
AccessBranchLines ==
  Conditional \cup {Line(<<"public:">>), Line(<<"private:">>), Line(<<"struct", "{">>), Line(<<"}", ";">>),
                    Line(<<"DISALLOW", ";">>)}
SectionLines ==
  {Line(<<"class">>), Line(<<"{">>), Line(<<"public:">>), Line(<<"struct", "{", "private:">>), Line(<<"}", ";">>),
   Line(<<"word", ";">>), Empty}

(* Functions. *)
FunctionLines ==
  {Call("function", <<"(", ")", "{">>), Call("test", <<"(", ")">>), Call("function", <<"(", ")", ";">>),
   Call("macro", <<"(", ")">>), Line(<<"{">>), Line(<<"}">>), Indented(<<"}">>), Empty}

(* Includes of a/foo.cc, its header a/foo.h and its test. *)
Header(path, system, cpp, key) ==
  [Line(<<"word">>) EXCEPT !.include = [path |-> path, system |-> system, cpp |-> cpp, key |-> key,
                             third_party |-> FALSE]]
Own == <<"a", "/", "foo", ".h">>
Names == {Own, <<"a", "/", "foo", ".cc">>, <<"a", "/", "foo", "_", "test", ".cc">>}
MapHeader == <<"map">>
IncludeLines ==
  {Header(Own, FALSE, FALSE, 2), Header(<<"stdio", ".h">>, TRUE, FALSE, 5),
   Header(MapHeader, TRUE, TRUE, 4), Header(<<"string">>, TRUE, TRUE, 6),
   Header(<<"b", "/", "bar", ".h">>, FALSE, FALSE, 3), Header(<<"b", "/", "bar", ".cc">>, FALSE, FALSE, 1),
   [Line(<<"word">>) EXCEPT !.include = [path |-> <<"lua", ".h">>, system |-> FALSE, cpp |-> FALSE, key |-> 4,
                              third_party |-> TRUE]],
   [Line(<<"word">>) EXCEPT !.uses = {MapHeader}], Directive("if")}
RepeatedLines ==
  Conditional \cup
  {Header(Own, FALSE, FALSE, 2), Header(MapHeader, TRUE, TRUE, 4),
   [Line(<<"word">>) EXCEPT !.uses = {MapHeader}], [Line(<<"word">>) EXCEPT !.uses = {<<"string">>}]}

(* Some of them in inline assembly. *)
AsmIncludeLines ==
  {Line(<<"asm", "(">>), Line(<<")">>), Header(<<"stdio", ".h">>, TRUE, FALSE, 5),
   Header(MapHeader, TRUE, TRUE, 4), Directive("if"), Directive("else")}

(* The rest of a file that includes a header and begins inline assembly. *)
AsmRestLines ==
  Conditional \cup {Line(<<"asm", "(">>), Line(<<")">>), Header(MapHeader, TRUE, TRUE, 4),
                   [Line(<<"word">>) EXCEPT !.uses = {MapHeader}]}

Kind(names, length, alphabet) ==
  [names |-> names, beginning |-> << >>, length |-> length, alphabet |-> alphabet]
After(beginning, kind) == [kind EXCEPT !.beginning = beginning]
Source == {<<"a", "/", "foo", ".cc">>}

FilesSome ==
  {Kind(Source, 4, BlockLines), Kind(Source, 5, BranchLines),
   After(<<Directive("if")>>, Kind(Source, 5, Conditional \cup {Line(<<"{">>), Line(<<"}">>)})),
   Kind(Source, 4, AsmLines), After(<<Line(<<"{">>)>>, Kind(Source, 4, AsmBranchLines)),
   Kind(Source, 4, FunctionLines),
   After(<<Call("test", <<"(", ")">>), Line(<<"{">>)>>, Kind(Source, 4, FunctionLines)),
   Kind(Names, 4, IncludeLines), Kind(Source \cup {Own}, 4, RepeatedLines),
   After(<<Directive("if")>>, Kind(Source \cup {Own}, 4, RepeatedLines)),
   After(<<Line(<<"{">>)>>, Kind(Source, 5, AsmIncludeLines)),
   After(<<Line(<<"{">>), Header(MapHeader, TRUE, TRUE, 4), Line(<<"asm", "(">>)>>, Kind({Own}, 4, AsmRestLines)),
   After(<<ClassHead>>, Kind(Source, 5, AccessLines)), After(<<ClassHead>>, Kind(Source, 4, AccessBranchLines)),
   After(<<ClassHead, Directive("if")>>, Kind(Source, 4, AccessBranchLines)),
   After(<<ClassHead>>, Kind(Source, 5, SectionLines))}

RootSome == <<"root", "/">>
DiskSome == (RootSome \o Own) :> <<MapHeader>>
=============================================================================
