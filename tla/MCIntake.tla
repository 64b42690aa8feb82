------------------------------ MODULE MCIntake ------------------------------
(* Values of Intake's constants for TLC. *)
EXTENDS Intake

CONSTANTS dana, eli, group, otherGroup, wish, chat, own, elsewhere, private, secret

Plain(l) == [letter |-> l, upper |-> FALSE, accented |-> FALSE]
Upper(l) == [letter |-> l, upper |-> TRUE, accented |-> FALSE]
Accented(l) == [letter |-> l, upper |-> TRUE, accented |-> TRUE]

MCLetters == {"m", "t", "x"}
MCMessages == {wish, chat, own, elsewhere, private}

\* "m t" and "x t m", spelled in capitals, with marks, accents and wide spaces.
MCSaid ==
  [m \in MCMessages |->
    CASE m = wish -> [chat |-> group, author |-> dana, own |-> FALSE, says |-> <<"x", Space, "m", Space, "t">>,
                      text |-> <<Space, Upper("x"), Space, Mark, Space, Accented("m"), Space, Plain("t"), Mark>>]
      [] m = chat -> [chat |-> group, author |-> eli, own |-> FALSE, says |-> <<"t", Space, "m">>,
                      text |-> <<Plain("t"), Mark, Space, Upper("m"), Space>>]
      [] m = own -> [chat |-> group, author |-> eli, own |-> TRUE, says |-> <<"m", Space, "t">>,
                     text |-> <<Plain("m"), Space, Plain("t")>>]
      [] m = elsewhere -> [chat |-> otherGroup, author |-> dana, own |-> FALSE, says |-> <<"m", Space, "t">>,
                           text |-> <<Plain("m"), Space, Plain("t")>>]
      [] m = private -> [chat |-> dana, author |-> dana, own |-> FALSE, says |-> <<"m", Space, "t">>,
                         text |-> <<Plain("m"), Space, Plain("t")>>]]

P(kind, says, text, compiles, enabled) ==
  [kind |-> kind, says |-> says, text |-> text, compiles |-> compiles, enabled |-> enabled]

\* The phrase as a substring in two spellings and switched off, as a regular
\* expression in two spellings and broken, another word, and marks alone.
MCPatterns ==
  LET phrase == <<"m", Space, "t">>
  IN {P("substring", phrase, <<Upper("m"), Space, Space, Accented("t")>>, TRUE, TRUE),
      P("substring", phrase, <<Upper("m"), Space, Space, Accented("t")>>, TRUE, FALSE),
      P("substring", <<"x">>, <<Plain("x")>>, TRUE, TRUE),
      P("substring", <<>>, <<Mark>>, TRUE, TRUE),
      P("regexp", phrase, <<Upper("m"), Space, Plain("t")>>, TRUE, TRUE),
      P("regexp", phrase, <<Plain("m"), Space, Plain("t")>>, FALSE, TRUE),
      P("regexp", phrase, <<Plain("m"), Mark, Space, Plain("t")>>, TRUE, TRUE)}

\* A broken expression, and the phrase.
MCSeeded ==
  {P("regexp", <<"m">>, <<Plain("m")>>, FALSE, TRUE),
   P("substring", <<"m", Space, "t">>, <<Plain("m"), Space, Plain("t")>>, TRUE, TRUE)}
=============================================================================
