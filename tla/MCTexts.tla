------------------------------- MODULE MCTexts -------------------------------
(* Two variables, and frames of up to three characters in all. *)
EXTENDS Texts
CONSTANTS x, y

MCVar     == {x, y}
MCChar    == {" ", "1", "e", "E", "*"}
MCLiteral == {<<"e", " ">>, <<"1", "E", "1">>}
MCItem    == {<<"1">>, <<"1", "1">>}

\* Two states that differ in addresses only, or in the names of the two
\* variables, are one state of the search: no operation looks at an address
\* except to follow it or to compare it.
Seen(v) == IF var[v] = NOTEXT THEN <<>>
           ELSE <<[text[var[v]] EXCEPT !.frame = 0], frame[text[var[v]].frame]>>
UpToNames ==
    <<{Seen(v) : v \in Var}, var[x] = var[y],
      NOTEXT \notin {var[x], var[y]} /\ text[var[x]].frame = text[var[y]].frame,
      status>>
=============================================================================
