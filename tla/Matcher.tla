------------------------------ MODULE Matcher ------------------------------
(***************************************************************************)
(* internal/service/echo/matcher.go: is a text a wish, under the enabled   *)
(* wish patterns.  A character is a letter, with its case and its accent   *)
(* when that is part of the character, or a combining mark (niqqud, an     *)
(* accent of its own), or white space.  A regular expression is a literal  *)
(* body between slashes, or one that does not compile.                     *)
(***************************************************************************)
EXTENDS Integers, FiniteSets, SequencesExt

CONSTANTS
  Letters,      \* the letters of the alphabet
  Mark, Space   \* a combining mark (Unicode Mn), and white space

Letter == [letter: Letters, upper: BOOLEAN, accented: BOOLEAN]
Character == Letter \cup {Mark, Space}
Text == Seq(Character)

ASSUME CharacterAssumption ==
  Mark # Space /\ Mark \notin Letter /\ Space \notin Letter \cup Letters

\* A row of wish_patterns, all of one language. `text` is the pattern, without
\* the slashes of a regular expression; `says` is for the properties: the words
\* it asks for.
Pattern == [kind: {"substring", "regexp"}, text: Text, compiles: BOOLEAN, enabled: BOOLEAN,
            says: Seq(Letters \cup {Space})]

-----------------------------------------------------------------------------
\* strings.TrimSpace
TrimSpace(text) ==
  LET solid == {i \in DOMAIN text : text[i] # Space}
  IN IF solid = {} THEN <<>> ELSE SubSeq(text, Min(solid), Max(solid))

\* strings.Contains
ContainsText(text, part) ==
  \E i \in 0 .. Len(text) - Len(part) : SubSeq(text, i + 1, i + Len(part)) = part

\* norm.NFD
Decomposed(c) ==
  IF c \notin {Mark, Space} /\ c.accented
  THEN <<[letter |-> c.letter, upper |-> c.upper, accented |-> FALSE], Mark>> ELSE <<c>>

Decompose(text) == FoldLeft(LAMBDA out, c : out \o Decomposed(c), <<>>, text)

ToLower(c) == IF c \in {Mark, Space} THEN c ELSE [c EXCEPT !.upper = FALSE]

\* One turn of Normalize's loop: marks are dropped, a run of spaces is written once.
Write(out, c) ==
  IF c = Mark \/ (c = Space /\ out # <<>> /\ Last(out) = Space) THEN out ELSE Append(out, ToLower(c))

Fold(text) == FoldLeft(LAMBDA out, c : Write(out, c), <<>>, text)

\* Mutant: NFC in NFD's place, so an accent inside a character stays.
NormalizeComposed(text) == TrimSpace(Fold(text))

Normalize(text) == TrimSpace(Fold(Decompose(text)))

-----------------------------------------------------------------------------
\* A pattern's text as it is used: the slashes shield a regular expression's body.
Trimmed(pattern) == IF pattern.kind = "substring" THEN TrimSpace(pattern.text) ELSE pattern.text

\* Mutant: rows switched off are kept.
NewMatcherAll(table) ==
  {id \in DOMAIN table : /\ Trimmed(table[id]) # <<>>
                         /\ (table[id].kind = "regexp" => table[id].compiles)}

\* What NewMatcher keeps of the rows with enabled = 1; a table is a function on
\* the ids of its rows.
NewMatcher(table) ==
  {id \in DOMAIN table : /\ table[id].enabled
                         /\ Trimmed(table[id]) # <<>>
                         /\ (table[id].kind = "regexp" => table[id].compiles)}

\* A substring is normalised like the text; a regular expression is only made
\* case-insensitive, and tried on the normalised text.
Satisfies(text, pattern) ==
  ContainsText(Normalize(text), IF pattern.kind = "substring"
                                THEN Normalize(Trimmed(pattern))
                                ELSE [i \in DOMAIN pattern.text |-> ToLower(pattern.text[i])])

\* The ids of the patterns Match may report: the first substring in the
\* table's order, then the first regular expression; {} is "".
Match(table, text) ==
  LET hits == {id \in NewMatcher(table) : Satisfies(text, table[id])}
      substrings == {id \in hits : table[id].kind = "substring"}
  IN CASE TrimSpace(text) = <<>> \/ hits = {} -> {}
       [] TrimSpace(text) # <<>> /\ substrings # {} -> {Min(substrings)}
       [] OTHER -> {Min(hits)}

\* validator.pattern, for what the API lets into the table.
ValidPattern(pattern) ==
  /\ Trimmed(pattern) # <<>>
  /\ pattern.kind = "regexp" => pattern.compiles

-----------------------------------------------------------------------------
(* Reference: what a text says, however it is spelled *)

IsLetter(c) == c \notin {Mark, Space}

\* The positions of a text that count: its letters, and the first white space
\* after a letter when another letter follows.
Spoken(text) ==
  {i \in DOMAIN text :
     \/ IsLetter(text[i])
     \/ /\ text[i] = Space
        /\ \E j \in 1 .. i - 1 : IsLetter(text[j]) /\ \A k \in j + 1 .. i - 1 : text[k] = Mark
        /\ \E j \in i + 1 .. Len(text) : IsLetter(text[j])}

\* The letter or the space that a character stands for.
Name(c) == IF c = Space THEN Space ELSE c.letter

\* words are what stands at those positions, in their order.
Spells(text, words) ==
  \E at \in [1 .. Len(words) -> Spoken(text)] :
    /\ \A m, n \in DOMAIN at : m < n => at[m] < at[n]
    /\ \A i \in Spoken(text) : \E n \in DOMAIN at : at[n] = i
    /\ \A n \in DOMAIN at : words[n] = Name(text[at[n]])

\* A regular expression without marks and accents is tried as it is written.
Literal(text) == \A i \in DOMAIN text : text[i] = Space \/ (text[i] # Mark /\ ~text[i].accented)

\* What a pattern asks for.
AsksFor(pattern, words) ==
  IF pattern.kind = "substring" THEN Spells(Trimmed(pattern), words)
  ELSE Literal(pattern.text) => words = [i \in DOMAIN pattern.text |-> Name(pattern.text[i])]

\* A pattern speaks of a message when its words are among the message's,
\* however either is spelled. Where that differs from what one may expect, the
\* validator accepts the pattern all the same: a substring of marks alone has
\* no words and speaks of everything, and a regular expression with marks or
\* accents in it speaks of nothing, because the text it is tried on has none.
\* Nothing speaks of a blank message, and a blank pattern of none.
Speaks(pattern, text, says) ==
  /\ \E i \in 0 .. Len(says) - Len(pattern.says) :
       SubSeq(says, i + 1, i + Len(pattern.says)) = pattern.says
  /\ pattern.kind = "regexp" => pattern.compiles /\ Literal(pattern.text)
  /\ \E i \in DOMAIN text : text[i] # Space
  /\ \E i \in DOMAIN Trimmed(pattern) : Trimmed(pattern)[i] # Space \/ pattern.kind = "regexp"

=============================================================================
