---------------------------- MODULE MCSelection ----------------------------
(* Values of Selection's constants for TLC. *)
EXTENDS Selection

T(language, gender, relation, named, enabled) ==
  [language |-> language, gender |-> gender, relation |-> relation,
   text |-> IF named THEN <<"Mazal tov", NamePlaceholder>> ELSE <<"Mazal tov">>, enabled |-> enabled]

\* Dana would have to be addressed as a woman, a friend, and by her name; the
\* third reader's name is a word of the texts.
MCReaders ==
  {[gender |-> "female", relation |-> "friend", name |-> "Dana"],
   [gender |-> "male", relation |-> "family", name |-> "Eli"],
   [gender |-> "other", relation |-> "friend", name |-> "Mazal tov"]}

\* Hebrew templates of every tier for a female friend, excluded ones, a
\* disabled one, and English ones to fall back to.
MCTemplates ==
  {T("he", g, r, TRUE, TRUE) : g \in {Anyone, "female"}, r \in {Anyone, "friend"}}
  \cup {T("he", "male", "friend", TRUE, TRUE), T("he", "female", "friend", TRUE, FALSE),
        T("he", Anyone, Anyone, FALSE, TRUE), T("en", Anyone, "family", FALSE, TRUE),
        T("en", "female", Anyone, FALSE, TRUE), T("en", Anyone, Anyone, FALSE, TRUE),
        T("en", Anyone, Anyone, TRUE, TRUE)}

MCContacts ==
  {[language |-> l, gender |-> g, relation |-> "friend"] : l \in {"he", "en"}, g \in {"female", "male"}}
=============================================================================
