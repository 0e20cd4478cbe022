----------------------------- MODULE MCLintText -----------------------------
(* Small texts for TLC. *)
EXTENDS LintText

Kind(length, pieces, alphabet) == [length |-> length, pieces |-> pieces, alphabet |-> alphabet]

(* Strings, characters, numbers and comments on one line. *)
LinePieces ==
  {<<"w">>, <<"1">>, <<Quote>>, <<Apostrophe>>, <<Backslash, Quote>>, <<"/", "/">>, <<"/", "*">>, <<"*", "/">>}

(* Comments and raw strings over several lines. *)
TextLines ==
  {<<"w">>, <<"/", "*", "w">>, <<"w", "*", "/">>, <<"w", "/", "/", Quote>>, <<"/", "*", "/">>,
   <<Quote, "/", "*", Quote, "w">>, <<"R", Quote, "(", "w">>, <<"w", ")", Quote, "w">>, <<"w", ")", "w", Quote>>,
   <<"w", ";", "R", Quote, "w", "(", "w">>, <<"R", Quote, "(", "w", ")", Quote, "w">>, <<"#", Quote, "w", Quote>>}
RawPieces ==
  {<<"w">>, <<"R", Quote>>, <<"(">>, <<")">>, <<Quote>>, <<";">>}

(* Brackets. *)
BracketPieces == {<<"(">>, <<")">>, <<"[">>, <<"]">>, <<"{">>, <<"}">>, <<"<">>, <<">">>, <<";">>}
OperatorPieces ==
  {<<"(">>, <<")">>, <<"<">>, <<">">>, <<"<", "<">>, <<"-", ">">>, <<" ", ">", "=", " ">>, <<"operator">>}

KindsSome ==
  {Kind(1, 5, LinePieces), Kind(4, 1, TextLines), Kind(1, 6, RawPieces),
   Kind(1, 5, BracketPieces), Kind(2, 2, BracketPieces), Kind(1, 5, OperatorPieces), Kind(3, 1, OperatorPieces)}
=============================================================================
