------------------------------ MODULE Includes ------------------------------
(***************************************************************************)
(* The #include lines of a file: _IncludeState of cpplint.py, the checks   *)
(* of CheckIncludeLine and those made of the includes after the last line. *)
(* A path is the sequence of its pieces, such as                           *)
(* <<"base", "/", "foo", "_", "test", ".cc">>.  An include is              *)
(*   path, system (<> rather than ""), cpp (one of _CPP_HEADERS),          *)
(*   key (the place of its canonical form in the alphabet, from 1) and     *)
(*   third_party (_THIRD_PARTY_HEADERS_PATTERN).                           *)
(***************************************************************************)
EXTENDS Integers, Sequences, FiniteSets, SequencesExt

IsExtension(piece) == piece \in {".cc", ".h"}
Extension(path) == IF path # << >> /\ IsExtension(Last(path)) THEN Last(path) ELSE ""
SplitExt(path) == IF Extension(path) = "" THEN path ELSE Front(path)

LastSlash(path) == Max({0} \cup {i \in DOMAIN path : path[i] = "/"})
DirName(path) == SubSeq(path, 1, LastSlash(path) - 1)
BaseName(path) == SubSeq(path, LastSlash(path) + 1, Len(path))

CommonSuffixes == {<<"test", ".cc">>, <<"regtest", ".cc">>, <<"unittest", ".cc">>,
             <<"inl", ".h">>, <<"impl", ".h">>, <<"internal", ".h">>}

_DropCommonSuffixes(path) ==
  LET n == Len(path) IN
  IF n > 2 /\ SubSeq(path, n - 1, n) \in CommonSuffixes /\ path[n - 2] \in {"-", "_"}
  THEN SubSeq(path, 1, n - 3) ELSE SplitExt(path)

FirstComponent(base) ==
  LET ends == {i \in DOMAIN base : base[i] \in {"-", "_"} \/ IsExtension(base[i])} IN
  IF ends = {} THEN base ELSE SubSeq(base, 1, Min(ends) - 1)

(* normpath(dir + "/../public") *)
PublicBeside(dir) ==
  IF dir # << >> /\ DirName(dir) = << >> THEN <<"public">> ELSE DirName(dir) \o <<"/", "public">>

_ClassifyInclude(repository_name, include) ==
  LET target == _DropCommonSuffixes(repository_name)
      header == _DropCommonSuffixes(include.path)
  IN CASE include.system /\ include.cpp  -> "cpp_system"
       [] include.system /\ ~include.cpp -> "c_system"
       [] ~include.system ->
            IF /\ BaseName(target) = BaseName(header)
               /\ DirName(header) \in {DirName(target), PublicBeside(DirName(target))}
            THEN "likely_mine"
            ELSE IF /\ FirstComponent(BaseName(target)) = FirstComponent(BaseName(header))
                    /\ FirstComponent(BaseName(header)) # << >>
                 THEN "possibly_mine" ELSE "other"

-----------------------------------------------------------------------------
(* _IncludeState. *)

EmptyIncludes == [include_list |-> << << >> >>, section |-> 0, last_header |-> 0]

(* A mutant: an #else empties all the lists. *)
ResetAll(state, directive) ==
  [include_list |-> CASE directive = "if"   -> Append(state.include_list, << >>)
                      [] directive = "else" -> << << >> >>
                      [] OTHER              -> state.include_list,
   section |-> 0, last_header |-> 0]

(* The lists are never popped; an #else empties the last one. *)
ResetSection(state, directive) ==
  [include_list |-> CASE directive = "if"   -> Append(state.include_list, << >>)
                      [] directive = "else" -> Append(Front(state.include_list), << >>)
                      [] OTHER              -> state.include_list,
   section |-> 0, last_header |-> 0]

AllIncludes(state) == FlattenSeq(state.include_list)

(* The line of the first include of this path still in a list, or -1. *)
FindHeader(state, path) ==
  LET all == AllIncludes(state)
      found == {i \in DOMAIN all : all[i].path = path}
  IN IF found = {} THEN -1 ELSE all[Min(found)].line

(* A mutant: what is out of order starts its section over. *)
CheckNextIncludeOrderAnew(state, header_type) ==
  LET section == state.section
      At(s) == [state EXCEPT !.section = s, !.last_header = IF s = section THEN @ ELSE 0]
  IN CASE header_type = "c_system" -> [ok |-> section <= 2, state |-> At(2)]
       [] header_type = "cpp_system" -> [ok |-> section <= 3, state |-> At(3)]
       [] header_type \in {"likely_mine", "possibly_mine"} ->
            [ok |-> TRUE, state |-> At(IF section <= 1 THEN 1 ELSE 4)]
       [] header_type = "other" -> [ok |-> TRUE, state |-> At(4)]

(* CheckNextIncludeOrder: the sections are 1 (its own header), 2 (C), 3 (C++) *)
(* and 4 (other headers).                                                     *)
CheckNextIncludeOrder(state, header_type) ==
  LET section == state.section
      At(s) == [state EXCEPT !.section = s, !.last_header = IF s = section THEN @ ELSE 0]
      wrong == [state EXCEPT !.last_header = 0]
  IN CASE header_type = "c_system" ->
            IF section <= 2 THEN [ok |-> TRUE, state |-> At(2)] ELSE [ok |-> FALSE, state |-> wrong]
       [] header_type = "cpp_system" ->
            IF section <= 3 THEN [ok |-> TRUE, state |-> At(3)] ELSE [ok |-> FALSE, state |-> wrong]
       [] header_type \in {"likely_mine", "possibly_mine"} ->
            [ok |-> TRUE, state |-> At(IF section <= 1 THEN 1 ELSE 4)]
       [] header_type = "other" -> [ok |-> TRUE, state |-> At(4)]

(* Headers in the alphabet, as far as no other line comes between them. *)
IsInAlphabeticalOrder(state, key, after_include) == state.last_header <= key \/ ~after_include
SetLastHeader(state, key) == [state EXCEPT !.last_header = key]

Raised(cond, n, category) == IF cond THEN <<[line |-> n, category |-> category]>> ELSE << >>

(* CheckIncludeLine for line n: the new state and the errors. *)
CheckIncludeLine(repository_name, state, include, n, after_include) ==
  LET path == include.path
      unplaced == /\ ~include.system /\ LastSlash(path) = 0 /\ Extension(path) = ".h"
                  /\ ~include.third_party
      duplicate == FindHeader(state, path) >= 0
      foreign == Extension(path) = ".cc" /\ DirName(repository_name) # DirName(path)
      listed == [state EXCEPT !.include_list =
                   Front(@) \o <<Append(Last(@), [path |-> path, line |-> n])>>]
      order == CheckNextIncludeOrder(listed, _ClassifyInclude(repository_name, include))
      sorted == IsInAlphabeticalOrder(order.state, include.key, after_include)
  IN IF duplicate \/ foreign \/ include.third_party
     THEN [state |-> state,
           errors |-> Raised(unplaced, n, "build/include")
                      \o Raised(duplicate \/ foreign, n, "build/include")]
     ELSE [state |-> SetLastHeader(order.state, include.key),
           errors |-> Raised(unplaced, n, "build/include")
                      \o Raised(~order.ok, n, "build/include_order")
                      \o Raised(~sorted, n, "build/include_alpha")]
-----------------------------------------------------------------------------
(* After the last line.  disk: full path -> the includes of that file.      *)

Ends(path, end) == Len(path) > Len(end) /\ IsSuffix(end, path)
Without(path, end) == IF Ends(path, end) THEN SubSeq(path, 1, Len(path) - Len(end)) ELSE path

(* The directories "public" and "internal" are dropped. *)
Flat(path) ==
  LET Dropped(j) == /\ j \in 2 .. Len(path) - 1
                    /\ path[j] \in {"public", "internal"}
                    /\ path[j - 1] = "/" /\ path[j + 1] = "/"
      kept == SelectSeq([i \in DOMAIN path |-> i], LAMBDA i : ~Dropped(i) /\ ~Dropped(i - 1))
  IN [k \in DOMAIN kept |-> path[kept[k]]]

(* Whether the header is that of the .cc file, and the prefix of its full path. *)
FilesBelongToSameModule(filename_cc, filename_h) ==
  LET cc == Flat(Without(Without(SplitExt(filename_cc), <<"_", "unittest">>), <<"_", "test">>))
      h == Flat(Without(SplitExt(filename_h), <<"-", "inl">>))
      same == Extension(filename_cc) = ".cc" /\ Extension(filename_h) = ".h" /\ IsSuffix(h, cc)
  IN [same |-> same, prefix |-> IF same THEN SubSeq(cc, 1, Len(cc) - Len(h)) ELSE << >>]

(* The headers of the module that could be read (UpdateIncludeState). *)
OwnHeaders(full_name, state, disk) ==
  {path \in {i.path : i \in ToSet(AllIncludes(state))} :
     LET m == FilesBelongToSameModule(full_name, path) IN
     m.same /\ m.prefix \o path \in DOMAIN disk}

(* A mutant: a source file is judged without its header. *)
CheckWithoutOwnHeader(full_name, state, uses, disk) ==
  DOMAIN uses \ {i.path : i \in ToSet(AllIncludes(state))}

(* uses: header -> the last line with something the header is needed for. *)
CheckForIncludeWhatYouUse(full_name, state, uses, disk) ==
  LET own == OwnHeaders(full_name, state, disk)
      Path(h) == FilesBelongToSameModule(full_name, h).prefix \o h
      include_dict == {i.path : i \in ToSet(AllIncludes(state))}
                        \cup UNION {ToSet(disk[Path(h)]) : h \in own}
  IN IF Extension(full_name) = ".cc" /\ own = {} THEN {} ELSE DOMAIN uses \ include_dict

(* CheckHeaderFileIncluded: the header beside the .cc file, if there is one,  *)
(* is among its includes, by a name that may be longer or shorter.            *)
Within(a, b) == \E i \in 0 .. Len(b) - Len(a) : SubSeq(b, i + 1, i + Len(a)) = a

CheckHeaderFileIncluded(root, repository_name, state, disk) ==
  LET header == SplitExt(repository_name) \o <<".h">>
      is_test == \E t \in {"test", "unittest"} : Ends(repository_name, <<"_", t, ".cc">>)
      all == AllIncludes(state)
  IN IF \/ is_test \/ root \o header \notin DOMAIN disk
        \/ \E i \in DOMAIN all : Within(header, all[i].path) \/ Within(all[i].path, header)
     THEN << >>
     ELSE <<[line |-> IF all = << >> THEN 0 ELSE all[1].line, category |-> "build/include"]>>
=============================================================================
