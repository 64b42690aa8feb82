---------------------------- MODULE IntakeProofs ----------------------------
(***************************************************************************)
(* Theorems of Intake, for any alphabet, messages, patterns and edits.     *)
(* What Normalize's loops and TrimSpace leave of a text is exactly the     *)
(* words the text spells (NormalizeIsPlain), so Match reports a row        *)
(* exactly when an enabled one speaks of the text (MatchSpeaks); each      *)
(* payload shape parses to what was said (IgnoredExactly); and the         *)
(* invariant follows a delivery through the handlers while the operator    *)
(* edits.                                                                  *)
(***************************************************************************)
EXTENDS Intake, FoldProofs

-----------------------------------------------------------------------------
(* The loops of Decompose and of Normalize *)

\* NFD of one character: an accented letter becomes the letter and a mark.
LEMMA DecomposedType ==
  ASSUME NEW c \in Character
  PROVE  /\ IsLetter(c) /\ c.accented =>
              Decomposed(c) = <<[letter |-> c.letter, upper |-> c.upper, accented |-> FALSE], Mark>>
         /\ ~(IsLetter(c) /\ c.accented) => Decomposed(c) = <<c>>
         /\ Decomposed(c) \in Text
<1>1. CASE IsLetter(c) /\ c.accented
  <2> DEFINE plain == [letter |-> c.letter, upper |-> c.upper, accented |-> FALSE]
  <2>1. c \in Letter
    BY <1>1 DEF Character, IsLetter
  <2>2. plain \in Letter
    <3>1. c.letter \in Letters /\ c.upper \in BOOLEAN
      BY <2>1 DEF Letter
    <3> QED BY <3>1, Zenon DEF Letter
  <2>3. Decomposed(c) = <<plain, Mark>>
    BY <1>1, Zenon DEF Decomposed, IsLetter
  <2>4. plain \in Character /\ Mark \in Character
    BY <2>2 DEF Character
  <2> HIDE DEF plain
  <2>5. <<plain, Mark>> \in Text
    BY <2>4 DEF Text
  <2> QED BY <1>1, <2>3, <2>5, Zenon DEF plain
<1>2. CASE ~(IsLetter(c) /\ c.accented)
  <2>1. Decomposed(c) = <<c>>
    BY <1>2, Zenon DEF Decomposed, IsLetter
  <2>2. <<c>> \in Text
    BY DEF Text
  <2> QED BY <1>2, <2>1, <2>2, Zenon
<1> QED BY <1>1, <1>2, Zenon

\* Both loops keep to characters.
LEMMA PutType ==
  ASSUME NEW out \in Text, NEW c \in Character
  PROVE  out \o Decomposed(c) \in Text
BY DecomposedType DEF Text

\* ToLower changes the case of a letter and nothing else.
LEMMA LowerType ==
  ASSUME NEW c \in Character
  PROVE  /\ IsLetter(c) => c \in Letter /\ ToLower(c) = [letter |-> c.letter, upper |-> FALSE, accented |-> c.accented]
         /\ ~IsLetter(c) => ToLower(c) = c
         /\ ToLower(c) \in Character
BY CharacterAssumption DEF ToLower, Character, Letter, IsLetter

\* A turn of the loop of Normalize writes characters.
LEMMA WriteType ==
  ASSUME NEW out \in Text, NEW c \in Character
  PROVE  Write(out, c) \in Text
<1>1. Append(out, ToLower(c)) \in Text
  BY LowerType DEF Text
<1> QED BY <1>1 DEF Write

\* What Decompose has after each character.
LEMMA DecomposeTurns ==
  ASSUME NEW text \in Text
  PROVE  \E turn : /\ turn[0] = <<>>
                   /\ \A n \in 1 .. Len(text) : turn[n] = turn[n - 1] \o Decomposed(text[n])
                   /\ Decompose(text) = turn[Len(text)]
<1> DEFINE N == Len(text)
           step == [i \in 1 .. N |-> [out \in Text |-> out \o Decomposed(text[i])]]
           Iterates(f) ==
             f = [s \in SUBSET (1 .. N) |->
                    IF s = {} THEN <<>> ELSE f[s \ {Max(s)}] \o Decomposed(text[Max(s)])]
           iter == CHOOSE f : Iterates(f)
           turn == [n \in 0 .. N |-> iter[1 .. n]]
<1>1. N \in Nat /\ DOMAIN text = 1 .. N /\ \A i \in 1 .. N : text[i] \in Character
  BY DEF Text
<1> HIDE DEF N
<1>2. <<>> \in Text
  BY DEF Text
<1>3. step \in [1 .. N -> [Text -> Text]]
  BY <1>1, PutType
<1>4. \E f : Iterates(f)
  <2>1. PICK f : FoldsTo(f, N, Text, <<>>, step)
    <3>1. N \in Nat
      BY <1>1
    <3> HIDE DEF step
    <3> QED BY <3>1, <1>2, <1>3, FoldExists, Zenon
  <2> USE <2>1 DEF FoldsTo
  <2>2. ASSUME NEW s \in SUBSET (1 .. N), s # {}
        PROVE  f[s] = f[s \ {Max(s)}] \o Decomposed(text[Max(s)])
    <3>1. Max(s) \in s
      <4>1. s \subseteq 0 .. N
        OBVIOUS
      <4> QED BY <1>1, <2>2, <4>1, MaxOf
    <3>2. Max(s) \in 1 .. N /\ s \ {Max(s)} \in SUBSET (1 .. N)
      BY <3>1
    <3>3. f[s \ {Max(s)}] \in Text
      BY <3>2
    <3>4. step[Max(s)][f[s \ {Max(s)}]] = f[s \ {Max(s)}] \o Decomposed(text[Max(s)])
      BY <3>2, <3>3
    <3> QED BY <2>1, <2>2, <3>4
  <2>3. Iterates(f)
    BY <2>1, <2>2
  <2> QED BY <2>3
<1>5. Iterates(iter)
  <2> HIDE DEF Iterates
  <2> QED BY <1>4
<1>6. turn[0] = <<>>
  <2>1. 1 .. 0 = {} /\ {} \in SUBSET (1 .. N)
    OBVIOUS
  <2>2. iter[{}] = <<>>
    <3> HIDE DEF iter
    <3> QED BY <1>5, <2>1
  <2> QED BY <1>1, <2>1, <2>2
<1>7. ASSUME NEW n \in 1 .. N PROVE turn[n] = turn[n - 1] \o Decomposed(text[n])
  <2>1. Max(1 .. n) = n /\ (1 .. n) \ {Max(1 .. n)} = 1 .. n - 1 /\ 1 .. n # {} /\ 1 .. n \in SUBSET (1 .. N)
    BY <1>1, MaxOfPrefix
  <2>2. iter[1 .. n] = iter[1 .. n - 1] \o Decomposed(text[n])
    <3> HIDE DEF iter
    <3> QED BY <1>5, <2>1
  <2>3. turn[n] = iter[1 .. n] /\ turn[n - 1] = iter[1 .. n - 1]
    <3> HIDE DEF iter
    <3> QED BY <1>1
  <2> QED BY <2>2, <2>3, Zenon
<1>8. Decompose(text) = turn[N]
  <2>1. Decompose(text) = iter[1 .. N]
    BY <1>1 DEF Decompose, FoldLeft, MapThenFoldSet
  <2>2. iter[1 .. N] = turn[N]
    BY <1>1
  <2> QED BY <2>1, <2>2, Zenon
<1> QED BY <1>6, <1>7, <1>8 DEF N

\* NFD of a text is a text.
LEMMA DecomposeType ==
  ASSUME NEW text \in Text
  PROVE  Decompose(text) \in Text
<1> DEFINE N == Len(text)
<1>1. PICK turn : /\ turn[0] = <<>>
                  /\ \A n \in 1 .. Len(text) : turn[n] = turn[n - 1] \o Decomposed(text[n])
                  /\ Decompose(text) = turn[Len(text)]
  BY DecomposeTurns, Zenon
<1>2. N \in Nat /\ \A n \in 1 .. N : text[n] \in Character
  BY DEF Text
<1>3. Decompose(text) = turn[N] /\ \A n \in 1 .. N : turn[n] = turn[n - 1] \o Decomposed(text[n])
  BY <1>1, Zenon
<1> HIDE DEF N
<1> DEFINE P(n) == n <= N => turn[n] \in Text
           I == {n \in Nat : P(n)}
<1>4. P(0)
  BY <1>1 DEF Text
<1>5. ASSUME NEW n \in Nat, P(n) PROVE P(n + 1)
  <2>1. SUFFICES ASSUME n + 1 <= N PROVE turn[n + 1] \in Text
    OBVIOUS
  <2>2. n <= N /\ n + 1 \in 1 .. N /\ (n + 1) - 1 = n
    BY <1>2, <2>1
  <2>3. turn[n] \in Text /\ text[n + 1] \in Character
    BY <1>2, <1>5, <2>2
  <2>4. turn[n + 1] = turn[n] \o Decomposed(text[n + 1])
    BY <1>3, <2>2, Zenon
  <2> QED BY <2>3, <2>4, PutType
<1>6. 0 \in I /\ \A n \in Nat : n \in I => n + 1 \in I
  <2> HIDE DEF P
  <2> QED BY <1>4, <1>5
<1>7. N \in I
  <2> HIDE DEF I
  <2> QED BY <1>2, <1>6, Inductive
<1>8. P(N)
  <2> HIDE DEF P
  <2> QED BY <1>7
<1> QED BY <1>2, <1>3, <1>8

\* NFD works character by character.
LEMMA DecomposeAppend ==
  ASSUME NEW text \in Text, NEW c \in Character
  PROVE  Decompose(Append(text, c)) = Decompose(text) \o Decomposed(c)
<1> DEFINE N == Len(text)
           longer == Append(text, c)
<1>1. N \in Nat /\ longer \in Text /\ Len(longer) = N + 1 /\ longer[N + 1] = c
      /\ \A n \in 1 .. N : longer[n] = text[n]
  BY DEF Text
<1>2. PICK was : /\ was[0] = <<>>
                 /\ \A n \in 1 .. Len(text) : was[n] = was[n - 1] \o Decomposed(text[n])
                 /\ Decompose(text) = was[Len(text)]
  BY DecomposeTurns, Zenon
<1>3. PICK turn : /\ turn[0] = <<>>
                  /\ \A n \in 1 .. Len(longer) : turn[n] = turn[n - 1] \o Decomposed(longer[n])
                  /\ Decompose(longer) = turn[Len(longer)]
  BY <1>1, DecomposeTurns, Zenon
<1> HIDE DEF N, longer
<1> DEFINE P(n) == n <= N => turn[n] = was[n]
           I == {n \in Nat : P(n)}
<1>4. P(0)
  BY <1>2, <1>3, Zenon
<1>5. ASSUME NEW n \in Nat, P(n) PROVE P(n + 1)
  <2>1. SUFFICES ASSUME n + 1 <= N PROVE turn[n + 1] = was[n + 1]
    OBVIOUS
  <2>2. n <= N /\ n + 1 \in 1 .. N /\ n + 1 \in 1 .. N + 1 /\ (n + 1) - 1 = n
    BY <1>1, <2>1
  <2>3. n + 1 \in 1 .. Len(text) /\ n + 1 \in 1 .. Len(longer)
    BY <1>1, <2>2 DEF N
  <2>4. longer[n + 1] = text[n + 1]
    BY <1>1, <2>2
  <2>5. turn[n] = was[n]
    BY <1>5, <2>2
  <2>6. was[n + 1] = was[n] \o Decomposed(text[n + 1])
    BY <1>2, <2>2, <2>3, Zenon
  <2>7. turn[n + 1] = turn[n] \o Decomposed(longer[n + 1])
    BY <1>3, <2>2, <2>3, Zenon
  <2> QED BY <2>4, <2>5, <2>6, <2>7, Zenon
<1>6. turn[N] = was[N]
  <2>1. 0 \in I /\ \A n \in Nat : n \in I => n + 1 \in I
    <3> HIDE DEF P
    <3> QED BY <1>4, <1>5
  <2>2. N \in I
    <3> HIDE DEF I
    <3> QED BY <1>1, <2>1, Inductive
  <2>3. P(N)
    <3> HIDE DEF P
    <3> QED BY <2>2
  <2> QED BY <1>1, <2>3
<1>7. turn[N + 1] = turn[N] \o Decomposed(c)
  <2>1. N + 1 \in 1 .. Len(longer) /\ (N + 1) - 1 = N
    BY <1>1
  <2>2. turn[N + 1] = turn[(N + 1) - 1] \o Decomposed(longer[N + 1])
    BY <1>3, <2>1, Zenon
  <2> QED BY <1>1, <2>1, <2>2, Zenon
<1>8. was[N] = Decompose(text) /\ turn[N + 1] = Decompose(longer)
  BY <1>1, <1>2, <1>3 DEF N
<1>9. Decompose(longer) = Decompose(text) \o Decomposed(c)
  BY <1>6, <1>7, <1>8, Zenon
<1> QED BY <1>9 DEF longer

\* Nothing decomposes into nothing.
LEMMA DecomposeEmpty == Decompose(<<>>) = <<>>
<1>1. <<>> \in Text /\ Len(<<>>) = 0
  BY DEF Text
<1>2. PICK turn : /\ turn[0] = <<>>
                  /\ Decompose(<<>>) = turn[Len(<<>>)]
  BY <1>1, DecomposeTurns, Zenon
<1> QED BY <1>1, <1>2, Zenon

\* What Normalize's loop has after each character.
LEMMA FoldTurns ==
  ASSUME NEW text \in Text
  PROVE  \E turn : /\ turn[0] = <<>>
                   /\ \A n \in 1 .. Len(text) : turn[n] = Write(turn[n - 1], text[n])
                   /\ Fold(text) = turn[Len(text)]
<1> DEFINE N == Len(text)
           step == [i \in 1 .. N |-> [out \in Text |-> Write(out, text[i])]]
           Iterates(f) ==
             f = [s \in SUBSET (1 .. N) |->
                    IF s = {} THEN <<>> ELSE Write(f[s \ {Max(s)}], text[Max(s)])]
           iter == CHOOSE f : Iterates(f)
           turn == [n \in 0 .. N |-> iter[1 .. n]]
<1>1. N \in Nat /\ DOMAIN text = 1 .. N /\ \A i \in 1 .. N : text[i] \in Character
  BY DEF Text
<1> HIDE DEF N
<1>2. <<>> \in Text
  BY DEF Text
<1>3. step \in [1 .. N -> [Text -> Text]]
  BY <1>1, WriteType
<1>4. \E f : Iterates(f)
  <2>1. PICK f : FoldsTo(f, N, Text, <<>>, step)
    <3>1. N \in Nat
      BY <1>1
    <3> HIDE DEF step
    <3> QED BY <3>1, <1>2, <1>3, FoldExists, Zenon
  <2> USE <2>1 DEF FoldsTo
  <2>2. ASSUME NEW s \in SUBSET (1 .. N), s # {}
        PROVE  f[s] = Write(f[s \ {Max(s)}], text[Max(s)])
    <3>1. Max(s) \in s
      <4>1. s \subseteq 0 .. N
        OBVIOUS
      <4> QED BY <1>1, <2>2, <4>1, MaxOf
    <3>2. Max(s) \in 1 .. N /\ s \ {Max(s)} \in SUBSET (1 .. N)
      BY <3>1
    <3>3. f[s \ {Max(s)}] \in Text
      BY <3>2
    <3>4. step[Max(s)][f[s \ {Max(s)}]] = Write(f[s \ {Max(s)}], text[Max(s)])
      BY <3>2, <3>3
    <3> QED BY <2>1, <2>2, <3>4
  <2>3. Iterates(f)
    BY <2>1, <2>2
  <2> QED BY <2>3
<1>5. Iterates(iter)
  <2> HIDE DEF Iterates
  <2> QED BY <1>4
<1>6. turn[0] = <<>>
  <2>1. 1 .. 0 = {} /\ {} \in SUBSET (1 .. N)
    OBVIOUS
  <2>2. iter[{}] = <<>>
    <3> HIDE DEF iter
    <3> QED BY <1>5, <2>1
  <2> QED BY <1>1, <2>1, <2>2
<1>7. ASSUME NEW n \in 1 .. N PROVE turn[n] = Write(turn[n - 1], text[n])
  <2>1. Max(1 .. n) = n /\ (1 .. n) \ {Max(1 .. n)} = 1 .. n - 1 /\ 1 .. n # {} /\ 1 .. n \in SUBSET (1 .. N)
    BY <1>1, MaxOfPrefix
  <2>2. iter[1 .. n] = Write(iter[1 .. n - 1], text[n])
    <3> HIDE DEF iter
    <3> QED BY <1>5, <2>1
  <2>3. turn[n] = iter[1 .. n] /\ turn[n - 1] = iter[1 .. n - 1]
    <3> HIDE DEF iter
    <3> QED BY <1>1
  <2> QED BY <2>2, <2>3, Zenon
<1>8. Fold(text) = turn[N]
  <2>1. Fold(text) = iter[1 .. N]
    BY <1>1 DEF Fold, FoldLeft, MapThenFoldSet
  <2>2. iter[1 .. N] = turn[N]
    BY <1>1
  <2> QED BY <2>1, <2>2, Zenon
<1> QED BY <1>6, <1>7, <1>8 DEF N

\* What the loop of Normalize writes is a text.
LEMMA FoldType ==
  ASSUME NEW text \in Text
  PROVE  Fold(text) \in Text
<1> DEFINE N == Len(text)
<1>1. PICK turn : /\ turn[0] = <<>>
                  /\ \A n \in 1 .. Len(text) : turn[n] = Write(turn[n - 1], text[n])
                  /\ Fold(text) = turn[Len(text)]
  BY FoldTurns, Zenon
<1>2. N \in Nat /\ \A n \in 1 .. N : text[n] \in Character
  BY DEF Text
<1>3. Fold(text) = turn[N] /\ \A n \in 1 .. N : turn[n] = Write(turn[n - 1], text[n])
  BY <1>1, Zenon
<1> HIDE DEF N
<1> DEFINE P(n) == n <= N => turn[n] \in Text
           I == {n \in Nat : P(n)}
<1>4. P(0)
  BY <1>1 DEF Text
<1>5. ASSUME NEW n \in Nat, P(n) PROVE P(n + 1)
  <2>1. SUFFICES ASSUME n + 1 <= N PROVE turn[n + 1] \in Text
    OBVIOUS
  <2>2. n <= N /\ n + 1 \in 1 .. N /\ (n + 1) - 1 = n
    BY <1>2, <2>1
  <2>3. turn[n] \in Text /\ text[n + 1] \in Character
    BY <1>2, <1>5, <2>2
  <2>4. turn[n + 1] = Write(turn[n], text[n + 1])
    BY <1>3, <2>2, Zenon
  <2> QED BY <2>3, <2>4, WriteType
<1>6. 0 \in I /\ \A n \in Nat : n \in I => n + 1 \in I
  <2> HIDE DEF P
  <2> QED BY <1>4, <1>5
<1>7. N \in I
  <2> HIDE DEF I
  <2> QED BY <1>2, <1>6, Inductive
<1>8. P(N)
  <2> HIDE DEF P
  <2> QED BY <1>7
<1> QED BY <1>2, <1>3, <1>8

\* Its next turn takes the next character.
LEMMA FoldAppend ==
  ASSUME NEW text \in Text, NEW c \in Character
  PROVE  Fold(Append(text, c)) = Write(Fold(text), c)
<1> DEFINE N == Len(text)
           longer == Append(text, c)
<1>1. N \in Nat /\ longer \in Text /\ Len(longer) = N + 1 /\ longer[N + 1] = c
      /\ \A n \in 1 .. N : longer[n] = text[n]
  BY DEF Text
<1>2. PICK was : /\ was[0] = <<>>
                 /\ \A n \in 1 .. Len(text) : was[n] = Write(was[n - 1], text[n])
                 /\ Fold(text) = was[Len(text)]
  BY FoldTurns, Zenon
<1>3. PICK turn : /\ turn[0] = <<>>
                  /\ \A n \in 1 .. Len(longer) : turn[n] = Write(turn[n - 1], longer[n])
                  /\ Fold(longer) = turn[Len(longer)]
  BY <1>1, FoldTurns, Zenon
<1> HIDE DEF N, longer
<1> DEFINE P(n) == n <= N => turn[n] = was[n]
           I == {n \in Nat : P(n)}
<1>4. P(0)
  BY <1>2, <1>3, Zenon
<1>5. ASSUME NEW n \in Nat, P(n) PROVE P(n + 1)
  <2>1. SUFFICES ASSUME n + 1 <= N PROVE turn[n + 1] = was[n + 1]
    OBVIOUS
  <2>2. n <= N /\ n + 1 \in 1 .. N /\ n + 1 \in 1 .. N + 1 /\ (n + 1) - 1 = n
    BY <1>1, <2>1
  <2>3. n + 1 \in 1 .. Len(text) /\ n + 1 \in 1 .. Len(longer)
    BY <1>1, <2>2 DEF N
  <2>4. longer[n + 1] = text[n + 1]
    BY <1>1, <2>2
  <2>5. turn[n] = was[n]
    BY <1>5, <2>2
  <2>6. was[n + 1] = Write(was[n], text[n + 1])
    BY <1>2, <2>2, <2>3, Zenon
  <2>7. turn[n + 1] = Write(turn[n], longer[n + 1])
    BY <1>3, <2>2, <2>3, Zenon
  <2> QED BY <2>4, <2>5, <2>6, <2>7, Zenon
<1>6. turn[N] = was[N]
  <2>1. 0 \in I /\ \A n \in Nat : n \in I => n + 1 \in I
    <3> HIDE DEF P
    <3> QED BY <1>4, <1>5
  <2>2. N \in I
    <3> HIDE DEF I
    <3> QED BY <1>1, <2>1, Inductive
  <2>3. P(N)
    <3> HIDE DEF P
    <3> QED BY <2>2
  <2> QED BY <1>1, <2>3
<1>7. turn[N + 1] = Write(turn[N], c)
  <2>1. N + 1 \in 1 .. Len(longer) /\ (N + 1) - 1 = N
    BY <1>1
  <2>2. turn[N + 1] = Write(turn[(N + 1) - 1], longer[N + 1])
    BY <1>3, <2>1, Zenon
  <2> QED BY <1>1, <2>1, <2>2, Zenon
<1>8. was[N] = Fold(text) /\ turn[N + 1] = Fold(longer)
  BY <1>1, <1>2, <1>3 DEF N
<1>9. Fold(longer) = Write(Fold(text), c)
  BY <1>6, <1>7, <1>8, Zenon
<1> QED BY <1>9 DEF longer

\* Of nothing it writes nothing.
LEMMA FoldEmpty == Fold(<<>>) = <<>>
<1>1. <<>> \in Text /\ Len(<<>>) = 0
  BY DEF Text
<1>2. PICK turn : /\ turn[0] = <<>>
                  /\ Fold(<<>>) = turn[Len(<<>>)]
  BY <1>1, FoldTurns, Zenon
<1> QED BY <1>1, <1>2, Zenon

-----------------------------------------------------------------------------
(* What Normalize hears *)

\* A letter or a space as Normalize writes it.
Low(c) == IF c = Space THEN Space ELSE [letter |-> c.letter, upper |-> FALSE, accented |-> FALSE]

\* The two loops together, for one more character.
Hear(out, c) == IF c = Mark \/ (c = Space /\ out # <<>> /\ Last(out) = Space) THEN out ELSE Append(out, Low(c))

\* What Normalize writes for a letter is a letter, and for white space a space.
LEMMA LowType ==
  ASSUME NEW c \in Character, c # Mark
  PROVE  /\ Low(c) \in Character
         /\ Low(c) = Space <=> c = Space
         /\ IsLetter(c) => Low(c) \in Letter
<1>1. CASE c = Space
  BY <1>1 DEF Low, Character, IsLetter
<1>2. CASE c # Space
  <2>1. c.letter \in Letters
    BY <1>2 DEF Character, Letter
  <2>2. Low(c) \in Letter
    BY <1>2, <2>1, Zenon DEF Low, Letter
  <2>3. Low(c) # Space
    BY <2>2, CharacterAssumption
  <2> QED BY <1>2, <2>2, <2>3 DEF Character
<1> QED BY <1>1, <1>2

\* Decomposing a character and looping over the result is one turn of Hear: the
\* accent is gone and the case is low.
LEMMA FoldPut ==
  ASSUME NEW out \in Text, NEW c \in Character
  PROVE  Fold(out \o Decomposed(c)) = Hear(Fold(out), c)
<1>1. CASE IsLetter(c) /\ c.accented
  <2> DEFINE plain == [letter |-> c.letter, upper |-> c.upper, accented |-> FALSE]
  <2>1. Decomposed(c) = <<plain, Mark>>
    BY <1>1, DecomposedType, Zenon
  <2>2. plain \in Letter /\ Low(c) = [letter |-> plain.letter, upper |-> FALSE, accented |-> FALSE]
    <3>1. c.letter \in Letters /\ c.upper \in BOOLEAN
      BY <1>1 DEF Character, Letter, IsLetter
    <3>2. plain \in Letter
      BY <3>1, Zenon DEF Letter
    <3>3. Low(c) = [letter |-> c.letter, upper |-> FALSE, accented |-> FALSE]
      BY <1>1, Zenon DEF Low, IsLetter
    <3>4. plain.letter = c.letter
      OBVIOUS
    <3> QED BY <3>2, <3>3, <3>4, Zenon
  <2>3. plain.accented = FALSE
    OBVIOUS
  <2> HIDE DEF plain
  <2>4. plain \in Character /\ Mark \in Character /\ IsLetter(plain)
    BY <2>2, CharacterAssumption DEF Character, IsLetter
  <2>5. ToLower(plain) = Low(c)
    BY <2>2, <2>3, <2>4, LowerType, Zenon
  <2>6. Append(out, plain) \in Text /\ out \o <<plain, Mark>> = Append(Append(out, plain), Mark)
    BY <2>4 DEF Text
  <2>7. Fold(Append(Append(out, plain), Mark)) = Write(Write(Fold(out), plain), Mark)
    BY <2>4, <2>6, FoldAppend
  <2>8. Write(Fold(out), plain) = Append(Fold(out), Low(c))
    BY <2>4, <2>5, Zenon DEF Write, IsLetter
  <2>9. Write(Append(Fold(out), Low(c)), Mark) = Append(Fold(out), Low(c))
    BY Zenon DEF Write
  <2>10. Hear(Fold(out), c) = Append(Fold(out), Low(c))
    BY <1>1, Zenon DEF Hear, IsLetter
  <2> QED BY <2>1, <2>6, <2>7, <2>8, <2>9, <2>10, Zenon
<1>2. CASE ~(IsLetter(c) /\ c.accented)
  <2>1. Decomposed(c) = <<c>>
    BY <1>2, DecomposedType, Zenon
  <2>2. out \o <<c>> = Append(out, c)
    BY DEF Text
  <2>3. Fold(Append(out, c)) = Write(Fold(out), c)
    BY FoldAppend
  <2>4. c # Mark => ToLower(c) = Low(c)
    <3>1. CASE IsLetter(c)
      <4>1. c.accented = FALSE
        BY <1>2, <3>1 DEF Character, Letter, IsLetter
      <4>2. ToLower(c) = [letter |-> c.letter, upper |-> FALSE, accented |-> c.accented]
        BY <3>1, LowerType, Zenon
      <4> QED BY <3>1, <4>1, <4>2, Zenon DEF Low, IsLetter
    <3>2. CASE ~IsLetter(c)
      BY <3>2, Zenon DEF Low, IsLetter, ToLower
    <3> QED BY <3>1, <3>2
  <2>5. Write(Fold(out), c) = Hear(Fold(out), c)
    BY <2>4, Zenon DEF Write, Hear
  <2> QED BY <2>1, <2>2, <2>3, <2>5, Zenon
<1> QED BY <1>1, <1>2

\* So the two loops are one, with a turn for each character of the text.
LEMMA Reading ==
  ASSUME NEW text \in Text
  PROVE  \E raw : /\ raw[0] = <<>>
                  /\ \A n \in 1 .. Len(text) : raw[n] = Hear(raw[n - 1], text[n])
                  /\ Fold(Decompose(text)) = raw[Len(text)]
<1> DEFINE N == Len(text)
           Part(n) == SubSeq(text, 1, n)
           raw == [n \in 0 .. N |-> Fold(Decompose(Part(n)))]
<1>1. N \in Nat /\ Part(0) = <<>> /\ Part(N) = text
  BY DEF Text
<1>2. ASSUME NEW n \in 1 .. N
      PROVE  Part(n - 1) \in Text /\ text[n] \in Character /\ Part(n) = Append(Part(n - 1), text[n])
  BY <1>2 DEF Text
<1> HIDE DEF N, Part
<1>3. raw[0] = <<>> /\ raw[N] = Fold(Decompose(text))
  BY <1>1, DecomposeEmpty, FoldEmpty
<1>4. ASSUME NEW n \in 1 .. N PROVE raw[n] = Hear(raw[n - 1], text[n])
  <2>1. Decompose(Part(n)) = Decompose(Part(n - 1)) \o Decomposed(text[n])
    BY <1>2, DecomposeAppend
  <2>2. Decompose(Part(n - 1)) \in Text
    BY <1>2, DecomposeType
  <2>3. Fold(Decompose(Part(n))) = Hear(Fold(Decompose(Part(n - 1))), text[n])
    BY <1>2, <2>1, <2>2, FoldPut
  <2>4. raw[n] = Fold(Decompose(Part(n))) /\ raw[n - 1] = Fold(Decompose(Part(n - 1)))
    BY <1>1
  <2> QED BY <2>3, <2>4, Zenon
<1> HIDE DEF raw
<1>5. \A n \in 1 .. Len(text) : raw[n] = Hear(raw[n - 1], text[n])
  BY <1>4 DEF N
<1>6. Fold(Decompose(text)) = raw[Len(text)]
  BY <1>3 DEF N
<1> QED BY <1>3, <1>5, <1>6

-----------------------------------------------------------------------------
(* What the result of Normalize reads *)

\* at numbers the positions S from first to last.
Enumerates(at, n, S) ==
  /\ at \in [1 .. n -> S]
  /\ \A k, m \in 1 .. n : k < m => at[k] < at[m]
  /\ \A i \in S : \E k \in 1 .. n : at[k] = i

\* out is what stands at the positions S of a text.
Reads(out, text, S) ==
  \E at : Enumerates(at, Len(out), S) /\ \A k \in 1 .. Len(out) : out[k] = Low(text[at[k]])

Marks(text, i, j) == \A k \in i .. j : text[k] = Mark

\* The positions the loop writes: letters, and a white space with no white
\* space between it and the letter before it or the beginning.
Heard(text) ==
  {i \in 1 .. Len(text) :
     \/ IsLetter(text[i])
     \/ text[i] = Space /\ \E j \in 0 .. i - 1 : (j = 0 \/ IsLetter(text[j])) /\ Marks(text, j + 1, i - 1)}
HeardBy(text, n) == {i \in Heard(text) : i <= n}

\* Whether the loop is within white space after n characters.
InSpace(text, n) == \E s \in 1 .. n : text[s] = Space /\ \A k \in s + 1 .. n : ~IsLetter(text[k])
AfterLetter(text, n) == \E j \in 0 .. n : (j = 0 \/ IsLetter(text[j])) /\ Marks(text, j + 1, n)
EndsInSpace(out) == out # <<>> /\ Last(out) = Space
Ending(out, text, n) == IF EndsInSpace(out) THEN InSpace(text, n) ELSE AfterLetter(text, n)

\* The loop is within white space or after a letter, never both.
LEMMA NotBoth ==
  ASSUME NEW text \in Text, NEW n \in 0 .. Len(text), InSpace(text, n), AfterLetter(text, n)
  PROVE  FALSE
<1>1. PICK s \in 1 .. n : text[s] = Space /\ \A k \in s + 1 .. n : ~IsLetter(text[k])
  BY DEF InSpace
<1>2. PICK j \in 0 .. n : (j = 0 \/ IsLetter(text[j])) /\ Marks(text, j + 1, n)
  BY DEF AfterLetter
<1>3. n \in Nat /\ j \in Nat /\ s \in Nat
  BY DEF Text
<1>4. CASE s <= j
  <2>1. j # 0 /\ IsLetter(text[j])
    BY <1>2, <1>3, <1>4
  <2>2. s # j
    BY <1>1, <2>1 DEF IsLetter
  <2>3. j \in s + 1 .. n
    BY <1>3, <1>4, <2>2
  <2> QED BY <1>1, <2>1, <2>3
<1>5. CASE j < s
  <2>1. s \in j + 1 .. n
    BY <1>3, <1>5
  <2> QED BY <1>1, <1>2, <2>1, CharacterAssumption DEF Marks
<1> QED BY <1>3, <1>4, <1>5

\* One more position, behind the others.
LEMMA ReadsAppend ==
  ASSUME NEW text \in Text, NEW out \in Text, NEW S, NEW i \in Nat,
         Reads(out, text, S), \A j \in S : j \in Nat /\ j < i
  PROVE  Reads(Append(out, Low(text[i])), text, S \cup {i})
<1> DEFINE N == Len(out)
           longer == Append(out, Low(text[i]))
<1>1. PICK at : Enumerates(at, N, S) /\ \A k \in 1 .. N : out[k] = Low(text[at[k]])
  BY DEF Reads
<1>2. /\ N \in Nat /\ Len(longer) = N + 1 /\ longer[N + 1] = Low(text[i])
      /\ \A k \in 1 .. N : longer[k] = out[k]
  BY DEF Text
<1> HIDE DEF N, longer
<1> DEFINE all == [k \in 1 .. N + 1 |-> IF k = N + 1 THEN i ELSE at[k]]
<1>3. all[N + 1] = i /\ \A k \in 1 .. N : all[k] = at[k] /\ at[k] \in S
  BY <1>1, <1>2 DEF Enumerates
<1>4. \A k \in 1 .. N + 1 : k = N + 1 \/ k \in 1 .. N
  BY <1>2
<1>5. all \in [1 .. N + 1 -> S \cup {i}]
  BY <1>1, <1>2 DEF Enumerates
<1> HIDE DEF all
<1>6. ASSUME NEW k \in 1 .. N + 1, NEW m \in 1 .. N + 1, k < m PROVE all[k] < all[m]
  <2>1. k \in 1 .. N
    BY <1>2, <1>6
  <2>2. CASE m = N + 1
    BY <1>3, <2>1, <2>2
  <2>3. CASE m \in 1 .. N
    BY <1>1, <1>3, <1>6, <2>1, <2>3 DEF Enumerates
  <2> QED BY <1>4, <2>2, <2>3
<1>7. ASSUME NEW j \in S \cup {i} PROVE \E k \in 1 .. N + 1 : all[k] = j
  <2>1. CASE j = i
    BY <1>2, <1>3, <2>1
  <2>2. CASE j \in S
    <3>1. PICK k \in 1 .. N : at[k] = j
      BY <1>1, <2>2 DEF Enumerates
    <3> QED BY <1>2, <1>3, <3>1
  <2> QED BY <2>1, <2>2
<1>8. \A k \in 1 .. N + 1 : longer[k] = Low(text[all[k]])
  BY <1>1, <1>2, <1>3, <1>4
<1>9. Enumerates(all, Len(longer), S \cup {i})
  BY <1>2, <1>5, <1>6, <1>7 DEF Enumerates
<1>10. Reads(longer, text, S \cup {i})
  BY <1>2, <1>8, <1>9 DEF Reads
<1> QED BY <1>10 DEF longer

\* One turn of the loop: it writes exactly the positions that are heard.
LEMMA HearOne ==
  ASSUME NEW text \in Text, NEW n \in Nat, n + 1 <= Len(text), NEW out \in Text,
         Reads(out, text, HeardBy(text, n)), Ending(out, text, n)
  PROVE  /\ Hear(out, text[n + 1]) \in Text
         /\ Reads(Hear(out, text[n + 1]), text, HeardBy(text, n + 1))
         /\ Ending(Hear(out, text[n + 1]), text, n + 1)
<1> DEFINE c == text[n + 1]
<1>1. n + 1 \in 1 .. Len(text) /\ Len(text) \in Nat /\ \A i \in 1 .. Len(text) : text[i] \in Character
  BY DEF Text
<1>2. n + 1 \in Heard(text) <=> IsLetter(c) \/ (c = Space /\ AfterLetter(text, n))
  <2>1. (n + 1) - 1 = n
    OBVIOUS
  <2> QED BY <1>1, <2>1 DEF Heard, AfterLetter
<1>3. /\ n + 1 \in Heard(text) => HeardBy(text, n + 1) = HeardBy(text, n) \cup {n + 1}
      /\ n + 1 \notin Heard(text) => HeardBy(text, n + 1) = HeardBy(text, n)
  <2>1. \A i \in Heard(text) : i \in Nat
    BY DEF Heard
  <2>2. ASSUME NEW i \in Heard(text) PROVE i <= n + 1 <=> i <= n \/ i = n + 1
    BY <2>1
  <2> QED BY <2>2 DEF HeardBy
<1>4. \A j \in HeardBy(text, n) : j \in Nat /\ j < n + 1
  BY DEF HeardBy, Heard
<1>5. c \in Character /\ Last(Append(out, Low(c))) = Low(c) /\ Append(out, Low(c)) # <<>>
  BY <1>1 DEF Last, Text
<1>6. Reads(Append(out, Low(c)), text, HeardBy(text, n) \cup {n + 1})
  <2>1. n + 1 \in Nat
    OBVIOUS
  <2> QED BY <1>4, <2>1, ReadsAppend
<1> HIDE DEF c
<1>7. CASE c = Mark
  <2>1. Hear(out, c) = out
    BY <1>7, Zenon DEF Hear
  <2>2. HeardBy(text, n + 1) = HeardBy(text, n)
    BY <1>2, <1>3, <1>7, CharacterAssumption DEF IsLetter
  <2>3. InSpace(text, n) => InSpace(text, n + 1)
    BY <1>7, CharacterAssumption DEF InSpace, IsLetter, c
  <2>4. AfterLetter(text, n) => AfterLetter(text, n + 1)
    BY <1>7 DEF AfterLetter, Marks, c
  <2>5. Ending(out, text, n + 1)
    BY <2>3, <2>4 DEF Ending
  <2> QED BY <2>1, <2>2, <2>5, Zenon DEF c
<1>8. CASE c = Space /\ EndsInSpace(out)
  <2>1. Hear(out, c) = out
    BY <1>8, Zenon DEF Hear, EndsInSpace
  <2>2. InSpace(text, n)
    BY <1>8 DEF Ending
  <2>3. ~AfterLetter(text, n)
    <3>1. n \in 0 .. Len(text)
      BY <1>1
    <3> QED BY <2>2, <3>1, NotBoth
  <2>4. HeardBy(text, n + 1) = HeardBy(text, n)
    BY <1>2, <1>3, <1>8, <2>3 DEF IsLetter
  <2>5. InSpace(text, n + 1)
    BY <1>8, <2>2 DEF InSpace, IsLetter, c
  <2>6. Ending(out, text, n + 1)
    BY <1>8, <2>5 DEF Ending
  <2> QED BY <2>1, <2>4, <2>6, Zenon DEF c
<1>9. CASE c = Space /\ ~EndsInSpace(out)
  <2>1. Hear(out, c) = Append(out, Low(c))
    BY <1>9, CharacterAssumption, Zenon DEF Hear, EndsInSpace
  <2>2. AfterLetter(text, n)
    BY <1>9 DEF Ending
  <2>3. HeardBy(text, n + 1) = HeardBy(text, n) \cup {n + 1}
    BY <1>2, <1>3, <1>9, <2>2
  <2>5. Append(out, Low(c)) \in Text /\ EndsInSpace(Append(out, Low(c)))
    BY <1>5, <1>9, LowType, CharacterAssumption DEF Text, EndsInSpace
  <2>6. InSpace(text, n + 1)
    BY <1>9 DEF InSpace, c
  <2>7. Ending(Append(out, Low(c)), text, n + 1)
    BY <2>5, <2>6 DEF Ending
  <2> QED BY <1>6, <2>1, <2>3, <2>5, <2>7, Zenon DEF c
<1>10. CASE IsLetter(c)
  <2>1. Hear(out, c) = Append(out, Low(c))
    BY <1>10, Zenon DEF Hear, IsLetter
  <2>2. HeardBy(text, n + 1) = HeardBy(text, n) \cup {n + 1}
    BY <1>2, <1>3, <1>10
  <2>4. Append(out, Low(c)) \in Text /\ ~EndsInSpace(Append(out, Low(c)))
    BY <1>5, <1>10, LowType, CharacterAssumption DEF Text, EndsInSpace, IsLetter
  <2>5. AfterLetter(text, n + 1)
    BY <1>10 DEF AfterLetter, Marks, c
  <2>6. Ending(Append(out, Low(c)), text, n + 1)
    BY <2>4, <2>5 DEF Ending
  <2> QED BY <1>6, <2>1, <2>2, <2>4, <2>6, Zenon DEF c
<1> QED BY <1>7, <1>8, <1>9, <1>10 DEF IsLetter

\* The loops write the positions that are heard, each once and in order.
LEMMA LoopsRead ==
  ASSUME NEW text \in Text
  PROVE  Fold(Decompose(text)) \in Text /\ Reads(Fold(Decompose(text)), text, Heard(text))
<1> DEFINE N == Len(text)
<1>1. PICK raw : /\ raw[0] = <<>>
                 /\ \A n \in 1 .. Len(text) : raw[n] = Hear(raw[n - 1], text[n])
                 /\ Fold(Decompose(text)) = raw[Len(text)]
  BY Reading, Zenon
<1>2. N \in Nat /\ HeardBy(text, N) = Heard(text)
  BY DEF Text, HeardBy, Heard
<1>3. \A n \in 1 .. N : raw[n] = Hear(raw[n - 1], text[n])
  BY <1>1, Zenon
<1>4. Fold(Decompose(text)) = raw[N]
  BY <1>1, Zenon
<1> DEFINE P(n) == n <= Len(text) => /\ raw[n] \in Text
                                     /\ Reads(raw[n], text, HeardBy(text, n))
                                     /\ Ending(raw[n], text, n)
           I == {n \in Nat : P(n)}
<1>5. P(0)
  <2>1. <<>> \in Text /\ ~EndsInSpace(<<>>) /\ HeardBy(text, 0) = {}
    BY DEF Text, EndsInSpace, HeardBy, Heard
  <2>2. Reads(<<>>, text, {})
    <3> DEFINE at == [k \in 1 .. 0 |-> 0]
    <3>1. Enumerates(at, Len(<<>>), {})
      BY DEF Enumerates
    <3> QED BY <3>1 DEF Reads
  <2>3. AfterLetter(text, 0)
    BY DEF AfterLetter, Marks
  <2> QED BY <1>1, <2>1, <2>2, <2>3 DEF Ending
<1>6. ASSUME NEW n \in Nat, P(n) PROVE P(n + 1)
  <2>1. CASE n + 1 <= Len(text)
    <3>1. n <= Len(text) /\ n + 1 \in 1 .. N /\ (n + 1) - 1 = n
      BY <1>2, <2>1
    <3>2. raw[n + 1] = Hear(raw[n], text[n + 1])
      BY <1>3, <3>1, Zenon
    <3> QED BY <1>6, <2>1, <3>1, <3>2, HearOne
  <2> QED BY <2>1
<1>7. 0 \in I /\ \A n \in Nat : n \in I => n + 1 \in I
  <2> HIDE DEF P
  <2> QED BY <1>5, <1>6
<1>8. N \in I
  <2> HIDE DEF I
  <2> QED BY <1>2, <1>7, Inductive
<1>9. P(N)
  <2> HIDE DEF P
  <2> QED BY <1>8
<1> QED BY <1>2, <1>4, <1>9

\* Of the positions the loop writes, those count that TrimSpace keeps.
LEMMA SpokenIsHeard ==
  ASSUME NEW text \in Text, NEW i
  PROVE  i \in Spoken(text)
           <=> /\ i \in Heard(text)
               /\ \/ IsLetter(text[i])
                  \/ /\ \E j \in 1 .. i - 1 : IsLetter(text[j])
                     /\ \E j \in i + 1 .. Len(text) : IsLetter(text[j])
<1>1. Len(text) \in Nat /\ DOMAIN text = 1 .. Len(text)
  BY DEF Text
<1>2. ASSUME i \in Spoken(text), ~IsLetter(text[i])
      PROVE  /\ i \in Heard(text)
             /\ \E j \in 1 .. i - 1 : IsLetter(text[j])
             /\ \E j \in i + 1 .. Len(text) : IsLetter(text[j])
  <2>1. i \in 1 .. Len(text) /\ text[i] = Space /\ \E j \in i + 1 .. Len(text) : IsLetter(text[j])
    BY <1>1, <1>2 DEF Spoken
  <2>2. PICK j \in 1 .. i - 1 : IsLetter(text[j]) /\ \A k \in j + 1 .. i - 1 : text[k] = Mark
    BY <1>1, <1>2 DEF Spoken
  <2>3. j \in 0 .. i - 1 /\ Marks(text, j + 1, i - 1)
    BY <2>2 DEF Marks
  <2> QED BY <2>1, <2>2, <2>3 DEF Heard
<1>3. ASSUME i \in Spoken(text), IsLetter(text[i]) PROVE i \in Heard(text)
  BY <1>1, <1>3 DEF Spoken, Heard
<1>4. ASSUME i \in Heard(text), IsLetter(text[i]) PROVE i \in Spoken(text)
  BY <1>1, <1>4 DEF Spoken, Heard
<1>5. ASSUME i \in Heard(text), ~IsLetter(text[i]),
             \E j \in 1 .. i - 1 : IsLetter(text[j]),
             \E j \in i + 1 .. Len(text) : IsLetter(text[j])
      PROVE  i \in Spoken(text)
  <2>1. i \in 1 .. Len(text) /\ text[i] = Space
    BY <1>5 DEF Heard
  <2>2. PICK j \in 0 .. i - 1 : (j = 0 \/ IsLetter(text[j])) /\ Marks(text, j + 1, i - 1)
    BY <1>5 DEF Heard
  <2>3. PICK m \in 1 .. i - 1 : IsLetter(text[m])
    BY <1>5
  <2>4. j # 0
    <3>1. text[m] # Mark
      BY <2>3 DEF IsLetter
    <3> QED BY <2>2, <2>3, <3>1 DEF Marks
  <2>5. j \in 1 .. i - 1 /\ IsLetter(text[j]) /\ \A k \in j + 1 .. i - 1 : text[k] = Mark
    BY <2>1, <2>2, <2>4 DEF Marks
  <2> QED BY <1>1, <1>5, <2>1, <2>5 DEF Spoken
<1> QED BY <1>2, <1>3, <1>4, <1>5

\* TrimSpace leaves the positions that count.
LEMMA TrimReads ==
  ASSUME NEW text \in Text, NEW out \in Text, Reads(out, text, Heard(text))
  PROVE  TrimSpace(out) \in Text /\ Reads(TrimSpace(out), text, Spoken(text))
<1> DEFINE N == Len(out)
           solid == {k \in DOMAIN out : out[k] # Space}
<1>1. N \in Nat /\ DOMAIN out = 1 .. N /\ \A k \in 1 .. N : out[k] \in Character
  BY DEF Text
<1>2. PICK at : Enumerates(at, N, Heard(text)) /\ \A k \in 1 .. N : out[k] = Low(text[at[k]])
  BY DEF Reads
<1>3. \A i \in Heard(text) : i \in 1 .. Len(text) /\ text[i] \in Character /\ text[i] # Mark
  BY CharacterAssumption DEF Heard, Text, IsLetter
<1>4. /\ at \in [1 .. N -> Heard(text)]
      /\ \A k, m \in 1 .. N : k < m => at[k] < at[m]
      /\ \A i \in Heard(text) : \E k \in 1 .. N : at[k] = i
  BY <1>2 DEF Enumerates
<1>5. ASSUME NEW k \in 1 .. N PROVE k \in solid <=> IsLetter(text[at[k]])
  <2>1. text[at[k]] \in Character /\ text[at[k]] # Mark
    BY <1>3, <1>4
  <2>2. Low(text[at[k]]) = Space <=> text[at[k]] = Space
    BY <2>1, LowType
  <2> QED BY <1>1, <1>2, <2>1, <2>2 DEF IsLetter
<1>6. TrimSpace(out) = IF solid = {} THEN <<>> ELSE SubSeq(out, Min(solid), Max(solid))
  BY DEF TrimSpace
<1>7. solid \subseteq 1 .. N
  BY <1>1
<1>8. ASSUME NEW i \in 1 .. Len(text), IsLetter(text[i]) PROVE \E k \in solid : at[k] = i
  <2>1. i \in Heard(text)
    BY <1>8 DEF Heard
  <2> QED BY <1>4, <1>5, <1>8, <2>1
<1> HIDE DEF solid, N
<1>9. CASE solid = {}
  <2>1. \A i \in Spoken(text) : FALSE
    <3>1. \A i \in 1 .. Len(text) : ~IsLetter(text[i])
      BY <1>8, <1>9
    <3>2. ASSUME NEW i \in Spoken(text) PROVE FALSE
      <4>1. i \in Heard(text)
        BY SpokenIsHeard
      <4>2. i \in 1 .. Len(text) /\ Len(text) \in Nat
        BY <4>1 DEF Heard, Text
      <4>3. \/ IsLetter(text[i])
            \/ \E j \in 1 .. i - 1 : IsLetter(text[j])
        BY SpokenIsHeard
      <4> QED BY <3>1, <4>2, <4>3
    <3> QED BY <3>2
  <2>2. Spoken(text) = {}
    BY <2>1
  <2>3. Reads(<<>>, text, {})
    <3> DEFINE none == [k \in 1 .. 0 |-> 0]
    <3>1. Enumerates(none, Len(<<>>), {})
      BY DEF Enumerates
    <3> QED BY <3>1 DEF Reads
  <2> QED BY <1>6, <1>9, <2>2, <2>3 DEF Text
<1>10. CASE solid # {}
  <2> DEFINE a == Min(solid)
             b == Max(solid)
             kept == SubSeq(out, a, b)
             M == b - a + 1
             from == [k \in 1 .. M |-> at[k + a - 1]]
  <2>1. a \in solid /\ \A k \in solid : a <= k
    <3>1. solid \subseteq Nat
      BY <1>1, <1>7
    <3> QED BY <1>10, <3>1, MinOf
  <2>2. b \in solid /\ \A k \in solid : k <= b
    <3>1. solid \subseteq 0 .. N
      BY <1>1, <1>7
    <3>2. b \in solid /\ \A k \in solid : b >= k
      BY <1>1, <1>10, <3>1, MaxOf
    <3> QED BY <1>1, <1>7, <3>2
  <2> HIDE DEF a, b
  <2>3. a \in 1 .. N /\ b \in 1 .. N /\ a <= b /\ M \in Nat
    BY <1>1, <1>7, <2>1, <2>2
  <2>4. kept \in Text /\ Len(kept) = M /\ \A k \in 1 .. M : kept[k] = out[k + a - 1]
    BY <1>1, <2>3 DEF Text, N
  <2>5. ASSUME NEW k \in 1 .. M PROVE k + a - 1 \in 1 .. N /\ a <= k + a - 1 /\ k + a - 1 <= b
    BY <1>1, <2>3
  <2>6. ASSUME NEW q \in 1 .. N, a <= q, q <= b PROVE at[q] \in Spoken(text)
    <3>1. at[q] \in Heard(text) /\ at[a] \in Heard(text) /\ at[b] \in Heard(text)
      BY <1>4, <2>3
    <3>2. CASE IsLetter(text[at[q]])
      BY <3>1, <3>2, SpokenIsHeard
    <3>3. CASE ~IsLetter(text[at[q]])
      <4>1. IsLetter(text[at[a]]) /\ IsLetter(text[at[b]])
        BY <1>5, <2>1, <2>2, <2>3
      <4>2. a < q /\ q < b
        BY <1>1, <2>3, <2>6, <3>3, <4>1
      <4>3. at[a] < at[q] /\ at[q] < at[b]
        BY <1>4, <2>3, <4>2
      <4>4. at[a] \in 1 .. at[q] - 1 /\ at[b] \in at[q] + 1 .. Len(text)
        <5>1. at[a] \in 1 .. Len(text) /\ at[b] \in 1 .. Len(text) /\ at[q] \in 1 .. Len(text)
          BY <1>3, <3>1
        <5> QED BY <4>3, <5>1
      <4> QED BY <3>1, <4>1, <4>4, SpokenIsHeard
    <3> QED BY <3>2, <3>3
  <2>7. ASSUME NEW i \in Spoken(text) PROVE \E q \in 1 .. N : a <= q /\ q <= b /\ at[q] = i
    <3>1. i \in Heard(text) /\ i \in 1 .. Len(text) /\ Len(text) \in Nat
      <4>1. i \in Heard(text)
        BY SpokenIsHeard
      <4> QED BY <1>3, <4>1 DEF Text
    <3>2. PICK q \in 1 .. N : at[q] = i
      BY <1>4, <3>1
    <3>3. CASE IsLetter(text[i])
      BY <1>5, <2>1, <2>2, <3>2, <3>3
    <3>4. CASE ~IsLetter(text[i])
      <4>1. PICK j \in 1 .. i - 1 : IsLetter(text[j])
        BY <3>4, SpokenIsHeard
      <4>2. PICK l \in i + 1 .. Len(text) : IsLetter(text[l])
        BY <3>4, SpokenIsHeard
      <4>3. PICK r \in solid : at[r] = j
        <5>1. j \in 1 .. Len(text)
          BY <3>1
        <5> QED BY <1>8, <4>1, <5>1
      <4>4. PICK t \in solid : at[t] = l
        <5>1. l \in 1 .. Len(text)
          BY <3>1
        <5> QED BY <1>8, <4>2, <5>1
      <4>5. r \in 1 .. N /\ t \in 1 .. N
        BY <1>7
      <4>6. r <= q
        <5>1. SUFFICES ASSUME q < r PROVE FALSE
          BY <1>1, <4>5
        <5>2. i < j
          BY <1>4, <3>2, <4>3, <4>5, <5>1
        <5> QED BY <3>1, <5>2
      <4>7. q <= t
        <5>1. SUFFICES ASSUME t < q PROVE FALSE
          BY <1>1, <4>5
        <5>2. l < i
          BY <1>4, <3>2, <4>4, <4>5, <5>1
        <5> QED BY <3>1, <5>2
      <4> QED BY <1>1, <2>1, <2>2, <2>3, <3>2, <4>5, <4>6, <4>7
    <3> QED BY <3>3, <3>4
  <2>8. Enumerates(from, M, Spoken(text))
    <3>1. from \in [1 .. M -> Spoken(text)]
      BY <2>5, <2>6
    <3>2. ASSUME NEW k \in 1 .. M, NEW m \in 1 .. M, k < m PROVE from[k] < from[m]
      <4>1. k + a - 1 < m + a - 1
        BY <2>3, <3>2
      <4>2. at[k + a - 1] < at[m + a - 1]
        BY <1>4, <2>5, <4>1
      <4> QED BY <4>2
    <3>3. ASSUME NEW i \in Spoken(text) PROVE \E k \in 1 .. M : from[k] = i
      <4>1. PICK q \in 1 .. N : a <= q /\ q <= b /\ at[q] = i
        BY <2>7
      <4>2. q - a + 1 \in 1 .. M /\ (q - a + 1) + a - 1 = q
        BY <1>1, <2>3, <4>1
      <4> QED BY <4>1, <4>2
    <3> HIDE DEF from, M
    <3> QED BY <3>1, <3>2, <3>3 DEF Enumerates
  <2>9. ASSUME NEW k \in 1 .. M PROVE kept[k] = Low(text[from[k]])
    <3>1. from[k] = at[k + a - 1] /\ kept[k] = out[k + a - 1]
      BY <2>4
    <3> HIDE DEF from, kept
    <3> QED BY <1>2, <2>5, <3>1
  <2>10. TrimSpace(out) = kept
    BY <1>6, <1>10 DEF a, b
  <2> HIDE DEF from, kept, M
  <2>11. Reads(kept, text, Spoken(text))
    BY <2>4, <2>8, <2>9 DEF Reads
  <2> QED BY <2>4, <2>10, <2>11
<1> QED BY <1>9, <1>10

\* Positions can be numbered from first to last in one way.
LEMMA OneEnumeration ==
  ASSUME NEW S, S \subseteq Nat, NEW at, NEW bt, NEW n \in Nat, NEW m \in Nat,
         Enumerates(at, n, S), Enumerates(bt, m, S)
  PROVE  \A k \in 1 .. n : k <= m /\ at[k] = bt[k]
<1> DEFINE Bad == {k \in 1 .. n : ~(k <= m /\ at[k] = bt[k])}
<1>1. SUFFICES ASSUME Bad # {} PROVE FALSE
  OBVIOUS
<1>2. PICK k \in Bad : \A j \in Bad : k <= j
  <2>1. Bad \subseteq Nat
    OBVIOUS
  <2> HIDE DEF Bad
  <2> QED BY <1>1, <2>1, LeastNatural
<1>3. k \in 1 .. n /\ ~(k <= m /\ at[k] = bt[k])
  OBVIOUS
<1>4. ASSUME NEW j \in 1 .. n, j < k PROVE j <= m /\ at[j] = bt[j]
  <2>1. j \notin Bad
    BY <1>2, <1>3, <1>4
  <2> QED BY <2>1
<1> HIDE DEF Bad
<1>5. PICK q \in 1 .. m : bt[q] = at[k]
  BY <1>3 DEF Enumerates
<1>6. /\ \A i, j \in 1 .. n : i < j => at[i] < at[j]
      /\ \A i, j \in 1 .. m : i < j => bt[i] < bt[j]
      /\ \A i \in 1 .. n : at[i] \in Nat
      /\ \A i \in 1 .. m : bt[i] \in Nat
  BY DEF Enumerates
<1>7. k <= q
  <2>1. SUFFICES ASSUME q < k PROVE FALSE
    BY <1>3
  <2>2. q \in 1 .. n
    BY <1>3, <2>1
  <2>3. at[q] = at[k] /\ at[q] < at[k]
    BY <1>3, <1>4, <1>5, <1>6, <2>1, <2>2
  <2> QED BY <1>3, <1>6, <2>3
<1>8. k \in 1 .. m
  BY <1>3, <1>7
<1>9. PICK r \in 1 .. n : at[r] = bt[k]
  BY <1>8 DEF Enumerates
<1>10. k <= r
  <2>1. SUFFICES ASSUME r < k PROVE FALSE
    BY <1>3
  <2>2. r \in 1 .. m /\ bt[r] = bt[k]
    BY <1>4, <1>9, <2>1
  <2>3. bt[r] < bt[k]
    BY <1>6, <1>8, <2>1, <2>2
  <2> QED BY <1>6, <1>8, <2>2, <2>3
<1>11. at[k] <= at[r] /\ bt[k] <= bt[q]
  BY <1>3, <1>6, <1>7, <1>8, <1>10
<1>12. at[k] = bt[k]
  BY <1>3, <1>5, <1>6, <1>8, <1>9, <1>11
<1> QED BY <1>3, <1>8, <1>12

\* A word's letters and spaces as Normalize writes them.
Voiced(w) == IF w = Space THEN Space ELSE [letter |-> w, upper |-> FALSE, accented |-> FALSE]
Plain(words) == [n \in 1 .. Len(words) |-> Voiced(words[n])]
Words == Seq(Letters \cup {Space})

\* Normalize leaves exactly the words that a text spells.
LEMMA NormalizeIsPlain ==
  ASSUME NEW text \in Text, NEW words \in Words, Spells(text, words)
  PROVE  Normalize(text) = Plain(words)
<1> DEFINE out == Normalize(text)
<1>1. out \in Text /\ Reads(out, text, Spoken(text))
  BY LoopsRead, TrimReads DEF Normalize
<1> HIDE DEF out
<1>2. PICK bt : Enumerates(bt, Len(out), Spoken(text)) /\ \A k \in 1 .. Len(out) : out[k] = Low(text[bt[k]])
  BY <1>1 DEF Reads
<1>3. PICK at \in [1 .. Len(words) -> Spoken(text)] :
        /\ \A m, n \in DOMAIN at : m < n => at[m] < at[n]
        /\ \A i \in Spoken(text) : \E n \in DOMAIN at : at[n] = i
        /\ \A n \in DOMAIN at : words[n] = Name(text[at[n]])
  BY DEF Spells
<1>4. Enumerates(at, Len(words), Spoken(text)) /\ \A n \in 1 .. Len(words) : words[n] = Name(text[at[n]])
  BY <1>3 DEF Enumerates
<1>5. Len(words) \in Nat /\ Len(out) \in Nat /\ Spoken(text) \subseteq Nat
  BY <1>1 DEF Text, Words, Spoken
<1>6. /\ \A k \in 1 .. Len(words) : k <= Len(out) /\ at[k] = bt[k]
      /\ \A k \in 1 .. Len(out) : k <= Len(words) /\ bt[k] = at[k]
  BY <1>2, <1>4, <1>5, OneEnumeration
<1>7. Len(out) = Len(words)
  <2>1. Len(words) # 0 => Len(words) \in 1 .. Len(words)
    BY <1>5
  <2>2. Len(out) # 0 => Len(out) \in 1 .. Len(out)
    BY <1>5
  <2> QED BY <1>5, <1>6, <2>1, <2>2
<1>8. ASSUME NEW k \in 1 .. Len(words) PROVE out[k] = Voiced(words[k])
  <2> DEFINE c == text[at[k]]
  <2>1. out[k] = Low(c) /\ words[k] = Name(c)
    BY <1>2, <1>4, <1>6, <1>7
  <2>2. c = Space \/ IsLetter(c)
    BY <1>3 DEF Spoken
  <2>3. c \in Character
    BY <1>3 DEF Spoken, Text
  <2> HIDE DEF c
  <2>4. CASE c = Space
    BY <2>1, <2>4, Zenon DEF Low, Name, Voiced
  <2>5. CASE IsLetter(c)
    <3>1. c.letter \in Letters /\ c # Space
      BY <2>3, <2>5 DEF Character, Letter, IsLetter
    <3>2. c.letter # Space
      BY <3>1, CharacterAssumption
    <3> QED BY <2>1, <3>1, <3>2, Zenon DEF Low, Name, Voiced
  <2> QED BY <2>2, <2>4, <2>5
<1>9. out = Plain(words)
  <2>1. DOMAIN out = 1 .. Len(words) /\ out = [k \in DOMAIN out |-> out[k]]
    BY <1>1, <1>7 DEF Text
  <2> QED BY <1>8, <2>1, Zenon DEF Plain
<1> QED BY <1>9 DEF out

-----------------------------------------------------------------------------
(* From spelling to matching *)

\* TrimSpace gives a text, and an empty one for white space only.
LEMMA TrimIsSome ==
  ASSUME NEW text \in Text
  PROVE  /\ TrimSpace(text) \in Text
         /\ TrimSpace(text) # <<>> <=> \E i \in DOMAIN text : text[i] # Space
         /\ TrimSpace(TrimSpace(text)) = TrimSpace(text)
<1> DEFINE N == Len(text)
           solid == {i \in DOMAIN text : text[i] # Space}
           a == Min(solid)
           b == Max(solid)
           kept == SubSeq(text, a, b)
           M == b - a + 1
<1>1. N \in Nat /\ DOMAIN text = 1 .. N
  BY DEF Text
<1>2. TrimSpace(text) = IF solid = {} THEN <<>> ELSE kept
  BY DEF TrimSpace
<1>3. solid # {} <=> \E i \in DOMAIN text : text[i] # Space
  OBVIOUS
<1>4. solid \subseteq 1 .. N /\ \A i \in solid : text[i] # Space
  BY <1>1
<1>5. CASE solid = {}
  <2>1. TrimSpace(<<>>) = <<>>
    BY DEF TrimSpace
  <2> QED BY <1>2, <1>3, <1>5, <2>1 DEF Text
<1>6. CASE solid # {}
  <2> HIDE DEF solid, N
  <2>1. a \in solid
    <3>1. solid \subseteq Nat
      BY <1>1, <1>4
    <3> QED BY <1>6, <3>1, MinOf
  <2>2. b \in solid /\ a <= b
    <3>1. solid \subseteq 0 .. N
      BY <1>1, <1>4
    <3>2. b \in solid /\ \A k \in solid : b >= k
      BY <1>1, <1>6, <3>1, MaxOf
    <3> HIDE DEF a, b, kept, M
    <3>3. a \in solid /\ a \in Nat /\ b \in Nat
      BY <1>1, <1>4, <2>1, <3>2
    <3> QED BY <3>2, <3>3
  <2> HIDE DEF a, b
  <2>3. a \in 1 .. N /\ b \in 1 .. N /\ M \in Nat /\ M >= 1
    BY <1>1, <1>4, <2>1, <2>2
  <2>4. kept \in Text /\ Len(kept) = M /\ \A k \in 1 .. M : kept[k] = text[k + a - 1]
    BY <1>1, <2>3 DEF Text, N
  <2>5. kept # <<>> /\ DOMAIN kept = 1 .. M
    <3> HIDE DEF kept, M
    <3> QED BY <2>3, <2>4 DEF Text
  <2>6. kept[1] # Space /\ kept[M] # Space
    <3>1. 1 \in 1 .. M /\ M \in 1 .. M /\ 1 + a - 1 = a /\ M + a - 1 = b
      BY <1>1, <2>3
    <3>2. kept[1] = text[a] /\ kept[M] = text[b]
      <4> HIDE DEF kept, M
      <4> QED BY <2>4, <3>1
    <3> QED BY <1>4, <2>1, <2>2, <3>2
  <2> HIDE DEF kept, M
  <2> DEFINE inner == {i \in DOMAIN kept : kept[i] # Space}
  <2>7. inner \subseteq 0 .. M /\ inner \subseteq Nat /\ 1 \in inner /\ M \in inner /\ inner \subseteq 1 .. M
    BY <2>3, <2>5, <2>6
  <2>8. TrimSpace(kept) = SubSeq(kept, Min(inner), Max(inner))
    BY <2>7 DEF TrimSpace
  <2> HIDE DEF inner
  <2>9. Min(inner) = 1
    <3>1. Min(inner) \in inner /\ \A y \in inner : Min(inner) <= y
      BY <2>7, MinOf
    <3>2. Min(inner) \in 1 .. M /\ Min(inner) <= 1
      BY <2>7, <3>1
    <3> QED BY <2>3, <3>2
  <2>10. Max(inner) = M
    <3>1. Max(inner) \in inner /\ \A y \in inner : Max(inner) >= y
      BY <2>3, <2>7, MaxOf
    <3>2. Max(inner) \in 1 .. M /\ Max(inner) >= M
      BY <2>7, <3>1
    <3> QED BY <2>3, <3>2
  <2>11. SubSeq(kept, 1, M) = kept
    BY <2>4 DEF Text
  <2>12. TrimSpace(kept) = kept
    BY <2>8, <2>9, <2>10, <2>11
  <2>13. TrimSpace(text) = kept
    BY <1>2, <1>6
  <2> QED BY <1>3, <1>6, <2>4, <2>5, <2>12, <2>13
<1> QED BY <1>5, <1>6

\* Different words are written differently, and never with an accent.
LEMMA VoicedOnce ==
  ASSUME NEW v \in Letters \cup {Space}, NEW w \in Letters \cup {Space}
  PROVE  /\ Voiced(v) = Voiced(w) <=> v = w
         /\ Voiced(v) = Space \/ (Voiced(v) \in Letter /\ Voiced(v).accented = FALSE)
<1>1. ASSUME NEW x \in Letters
      PROVE  /\ x # Space
             /\ Voiced(x) = [letter |-> x, upper |-> FALSE, accented |-> FALSE]
             /\ Voiced(x) \in Letter /\ Voiced(x) # Space /\ Voiced(x).letter = x
             /\ Voiced(x).accented = FALSE
  <2>1. x # Space
    BY CharacterAssumption
  <2>2. Voiced(x) = [letter |-> x, upper |-> FALSE, accented |-> FALSE]
    BY <2>1, Zenon DEF Voiced
  <2>3. Voiced(x) \in Letter
    <3>1. [letter |-> x, upper |-> FALSE, accented |-> FALSE] \in Letter
      BY Zenon DEF Letter
    <3> QED BY <2>2, <3>1, Zenon
  <2>4. Voiced(x) # Space
    BY <2>3, CharacterAssumption
  <2>5. Voiced(x).letter = x /\ Voiced(x).accented = FALSE
    BY <2>2
  <2> QED BY <2>1, <2>2, <2>3, <2>4, <2>5
<1>2. Voiced(Space) = Space
  BY DEF Voiced
<1>3. CASE v \in Letters /\ w \in Letters
  <2>1. Voiced(v).letter = v /\ Voiced(w).letter = w
    BY <1>1, <1>3
  <2>2. Voiced(v) = Voiced(w) <=> v = w
    BY <2>1
  <2> QED BY <1>1, <1>3, <2>2
<1>4. CASE v \in Letters /\ w = Space
  BY <1>1, <1>2, <1>4
<1>5. CASE v = Space
  BY <1>1, <1>2, <1>5
<1> QED BY <1>3, <1>4, <1>5

\* A part of a sequence, position by position.
LEMMA PartIs ==
  ASSUME NEW A, NEW s \in Seq(A), NEW t \in Seq(A), NEW i \in 0 .. Len(s) - Len(t)
  PROVE  SubSeq(s, i + 1, i + Len(t)) = t <=> \A k \in 1 .. Len(t) : s[i + k] = t[k]
<1> DEFINE u == SubSeq(s, i + 1, i + Len(t))
<1>1. Len(s) \in Nat /\ Len(t) \in Nat /\ i \in Nat /\ i + Len(t) <= Len(s)
  OBVIOUS
<1>2. u \in Seq(A) /\ Len(u) = Len(t) /\ \A k \in 1 .. Len(t) : u[k] = s[i + k]
  <2>1. u = [k \in 1 .. Len(t) |-> s[i + k]]
    <3>1. u = [k \in 1 .. (i + Len(t)) - (i + 1) + 1 |-> s[(i + 1) + k - 1]]
      BY <1>1
    <3>2. (i + Len(t)) - (i + 1) + 1 = Len(t) /\ \A k \in 1 .. Len(t) : (i + 1) + k - 1 = i + k
      BY <1>1
    <3> QED BY <3>1, <3>2
  <2>2. \A k \in 1 .. Len(t) : s[i + k] \in A
    BY <1>1
  <2> HIDE DEF u
  <2> QED BY <1>1, <2>1, <2>2
<1> HIDE DEF u
<1>3. u = t <=> \A k \in 1 .. Len(t) : u[k] = t[k]
  <2>1. ASSUME \A k \in 1 .. Len(t) : u[k] = t[k] PROVE u = t
    <3>1. u = [k \in 1 .. Len(t) |-> u[k]] /\ t = [k \in 1 .. Len(t) |-> t[k]]
      BY <1>2
    <3> QED BY <2>1, <3>1
  <2> QED BY <2>1
<1> QED BY <1>2, <1>3 DEF u

\* A part of the words is a part of what Normalize writes.
LEMMA PlainContains ==
  ASSUME NEW says \in Words, NEW words \in Words
  PROVE  ContainsText(Plain(says), Plain(words))
           <=> \E i \in 0 .. Len(says) - Len(words) : SubSeq(says, i + 1, i + Len(words)) = words
<1>1. /\ Len(says) \in Nat /\ Len(words) \in Nat
      /\ \A k \in 1 .. Len(says) : says[k] \in Letters \cup {Space}
      /\ \A k \in 1 .. Len(words) : words[k] \in Letters \cup {Space}
  BY DEF Words
<1>2. ASSUME NEW w \in Words
      PROVE  /\ Plain(w) \in Seq(Letter \cup {Space}) /\ Len(Plain(w)) = Len(w)
             /\ \A k \in 1 .. Len(w) : Plain(w)[k] = Voiced(w[k])
  <2>1. \A k \in 1 .. Len(w) : Voiced(w[k]) \in Letter \cup {Space}
    <3>1. \A k \in 1 .. Len(w) : w[k] \in Letters \cup {Space}
      BY DEF Words
    <3> QED BY <3>1, VoicedOnce
  <2>2. Len(w) \in Nat
    BY DEF Words
  <2> QED BY <2>1, <2>2 DEF Plain
<1>3. ASSUME NEW i \in 0 .. Len(says) - Len(words)
      PROVE  SubSeq(Plain(says), i + 1, i + Len(Plain(words))) = Plain(words)
               <=> SubSeq(says, i + 1, i + Len(words)) = words
  <2>1. SubSeq(Plain(says), i + 1, i + Len(Plain(words))) = Plain(words)
          <=> \A k \in 1 .. Len(Plain(words)) : Plain(says)[i + k] = Plain(words)[k]
    <3>1. i \in 0 .. Len(Plain(says)) - Len(Plain(words))
      BY <1>2
    <3>2. Plain(says) \in Seq(Letter \cup {Space}) /\ Plain(words) \in Seq(Letter \cup {Space})
      BY <1>2
    <3> QED BY <3>1, <3>2, PartIs
  <2>2. SubSeq(says, i + 1, i + Len(words)) = words <=> \A k \in 1 .. Len(words) : says[i + k] = words[k]
    <3>1. says \in Seq(Letters \cup {Space}) /\ words \in Seq(Letters \cup {Space})
      BY DEF Words
    <3> QED BY <3>1, PartIs
  <2>3. ASSUME NEW k \in 1 .. Len(words)
        PROVE  Plain(says)[i + k] = Plain(words)[k] <=> says[i + k] = words[k]
    <3>1. i + k \in 1 .. Len(says)
      BY <1>1
    <3>2. Plain(says)[i + k] = Voiced(says[i + k]) /\ Plain(words)[k] = Voiced(words[k])
      BY <1>2, <3>1
    <3> QED BY <1>1, <3>1, <3>2, VoicedOnce
  <2>4. Len(Plain(words)) = Len(words)
    BY <1>2
  <2> QED BY <2>1, <2>2, <2>3, <2>4
<1>4. Len(Plain(says)) = Len(says) /\ Len(Plain(words)) = Len(words)
  BY <1>2
<1> QED BY <1>3, <1>4 DEF ContainsText

\* A regular expression's body as it is tried.
Lowered(text) == [i \in DOMAIN text |-> ToLower(text[i])]

\* A regular expression without marks and accents is its words as Normalize
\* writes them.
LEMMA LiteralIsPlain ==
  ASSUME NEW text \in Text, Literal(text), NEW words, words = [i \in DOMAIN text |-> Name(text[i])]
  PROVE  words \in Words /\ Lowered(text) = Plain(words)
<1>1. Len(text) \in Nat /\ DOMAIN text = 1 .. Len(text)
  BY DEF Text
<1>2. ASSUME NEW i \in 1 .. Len(text)
      PROVE  Name(text[i]) \in Letters \cup {Space} /\ ToLower(text[i]) = Voiced(Name(text[i]))
  <2> DEFINE c == text[i]
  <2>1. c \in Character /\ (c = Space \/ (c # Mark /\ ~c.accented))
    BY <1>1 DEF Text, Literal
  <2> HIDE DEF c
  <2>2. CASE c = Space
    <3>1. Name(c) = Space /\ ToLower(c) = Space /\ Voiced(Space) = Space
      BY <2>2, Zenon DEF Name, ToLower, Voiced
    <3> QED BY <3>1 DEF c
  <2>3. CASE c # Space
    <3>1. c \in Letter /\ c.letter \in Letters /\ c.accented = FALSE /\ IsLetter(c)
      BY <2>1, <2>3 DEF Character, Letter, IsLetter
    <3>2. Name(c) = c.letter /\ c.letter # Space
      BY <2>3, <3>1, CharacterAssumption DEF Name
    <3>3. ToLower(c) = [letter |-> c.letter, upper |-> FALSE, accented |-> c.accented]
      BY <2>1, <3>1, LowerType, Zenon
    <3>4. Voiced(c.letter) = [letter |-> c.letter, upper |-> FALSE, accented |-> FALSE]
      BY <3>2, Zenon DEF Voiced
    <3>5. ToLower(c) = Voiced(Name(c))
      BY <3>1, <3>2, <3>3, <3>4, Zenon
    <3> QED BY <3>1, <3>2, <3>5 DEF c
  <2> QED BY <2>2, <2>3
<1>3. words \in Words /\ Len(words) = Len(text) /\ \A i \in 1 .. Len(text) : words[i] = Name(text[i])
  BY <1>1, <1>2 DEF Words
<1>4. Lowered(text) = Plain(words)
  BY <1>1, <1>2, <1>3 DEF Lowered, Plain
<1> QED BY <1>3, <1>4

\* One with a mark or an accent is in no normalised text.
LEMMA OthersAreNowhere ==
  ASSUME NEW text \in Text, ~Literal(text), NEW says \in Words
  PROVE  ~ContainsText(Plain(says), Lowered(text))
<1>1. Len(text) \in Nat /\ DOMAIN text = 1 .. Len(text) /\ Len(says) \in Nat
  BY DEF Text, Words
<1>2. PICK i \in 1 .. Len(text) : ~(text[i] = Space \/ (text[i] # Mark /\ ~text[i].accented))
  BY <1>1 DEF Literal
<1> DEFINE c == text[i]
<1>3. c \in Character /\ c # Space /\ (c = Mark \/ c.accented)
  BY <1>1, <1>2 DEF Text
<1> HIDE DEF c
<1>4. ASSUME NEW w \in Letters \cup {Space} PROVE ToLower(c) # Voiced(w)
  <2>1. Voiced(w) = Space \/ (Voiced(w) \in Letter /\ Voiced(w).accented = FALSE)
    BY VoicedOnce
  <2>2. CASE c = Mark
    <3>1. ToLower(c) = Mark
      BY <2>2 DEF ToLower
    <3> QED BY <2>1, <3>1, CharacterAssumption
  <2>3. CASE c # Mark
    <3>1. IsLetter(c) /\ c \in Letter /\ c.accented = TRUE
      BY <1>3, <2>3 DEF IsLetter, Character, Letter
    <3>2. ToLower(c) = [letter |-> c.letter, upper |-> FALSE, accented |-> c.accented]
      BY <1>3, <3>1, LowerType, Zenon
    <3>3. ToLower(c).accented = TRUE
      BY <3>1, <3>2
    <3>4. ToLower(c) # Space
      <4>1. c.letter \in Letters
        BY <3>1 DEF Letter
      <4>2. [letter |-> c.letter, upper |-> FALSE, accented |-> TRUE] \in Letter
        BY <4>1, Zenon DEF Letter
      <4>3. ToLower(c) \in Letter
        BY <3>1, <3>2, <4>2, Zenon
      <4> QED BY <4>3, CharacterAssumption
    <3> QED BY <2>1, <3>3, <3>4
  <2> QED BY <2>2, <2>3
<1>5. Len(Plain(says)) = Len(says) /\ Len(Lowered(text)) = Len(text) /\ Lowered(text)[i] = ToLower(c)
      /\ \A k \in 1 .. Len(says) : Plain(says)[k] = Voiced(says[k]) /\ says[k] \in Letters \cup {Space}
  BY <1>1 DEF Plain, Lowered, Words, c
<1>6. ASSUME NEW at \in 0 .. Len(says) - Len(text),
             SubSeq(Plain(says), at + 1, at + Len(text)) = Lowered(text)
      PROVE  FALSE
  <2>1. SubSeq(Plain(says), at + 1, at + Len(text))[i] = Plain(says)[at + i]
    <3>1. at \in Nat /\ at + Len(text) <= Len(says) /\ (at + 1) + i - 1 = at + i
          /\ i \in 1 .. (at + Len(text)) - (at + 1) + 1
      BY <1>1
    <3> QED BY <3>1
  <2>2. at + i \in 1 .. Len(says)
    BY <1>1
  <2> QED BY <1>4, <1>5, <1>6, <2>1, <2>2
<1> QED BY <1>5, <1>6 DEF ContainsText

\* A row of the table, with the words it asks for.
Rowlike(row) == row \in Pattern /\ AsksFor(row, row.says)

\* A pattern that is kept is satisfied exactly by what it speaks of.
LEMMA SatisfiesIsSpeaks ==
  ASSUME NEW text \in Text, NEW says \in Words, Spells(text, says),
         \E i \in DOMAIN text : text[i] # Space,
         NEW row, Rowlike(row)
  PROVE  Trimmed(row) # <<>> /\ (row.kind = "regexp" => row.compiles) /\ Satisfies(text, row)
           <=> Speaks(row, text, says)
<1> DEFINE Within == \E i \in 0 .. Len(says) - Len(row.says) :
                       SubSeq(says, i + 1, i + Len(row.says)) = row.says
<1>1. row.kind \in {"substring", "regexp"} /\ row.text \in Text /\ row.says \in Words /\ AsksFor(row, row.says)
  BY DEF Rowlike, Pattern, Words
<1>2. Normalize(text) = Plain(says)
  BY NormalizeIsPlain
<1>3. ContainsText(Plain(says), Plain(row.says)) <=> Within
  BY <1>1, PlainContains
<1>4. Speaks(row, text, says)
        <=> /\ Within
            /\ row.kind = "regexp" => row.compiles /\ Literal(row.text)
            /\ \E i \in DOMAIN Trimmed(row) : Trimmed(row)[i] # Space \/ row.kind = "regexp"
  BY Zenon DEF Speaks
<1> HIDE DEF Within
<1>5. CASE row.kind = "substring"
  <2>1. Trimmed(row) = TrimSpace(row.text) /\ row.kind # "regexp"
    BY <1>5 DEF Trimmed
  <2>2. Trimmed(row) \in Text
    BY <1>1, <2>1, TrimIsSome
  <2>3. Trimmed(row) # <<>> <=> \E i \in DOMAIN Trimmed(row) : Trimmed(row)[i] # Space
    <3>1. TrimSpace(Trimmed(row)) = Trimmed(row)
      BY <1>1, <2>1, TrimIsSome
    <3> QED BY <2>2, <3>1, TrimIsSome
  <2>4. Spells(Trimmed(row), row.says)
    BY <1>1, <1>5, Zenon DEF AsksFor
  <2>5. Normalize(Trimmed(row)) = Plain(row.says)
    BY <1>1, <2>2, <2>4, NormalizeIsPlain
  <2>6. Satisfies(text, row) <=> ContainsText(Normalize(text), Normalize(Trimmed(row)))
    BY <1>5, Zenon DEF Satisfies
  <2> QED BY <1>2, <1>3, <1>4, <2>1, <2>3, <2>5, <2>6
<1>6. CASE row.kind = "regexp"
  <2>1. Trimmed(row) = row.text /\ row.kind # "substring"
    BY <1>6 DEF Trimmed
  <2>2. Trimmed(row) # <<>> <=> \E i \in DOMAIN Trimmed(row) : TRUE
    <3> DEFINE body == row.text
    <3>1. Len(body) \in Nat /\ DOMAIN body = 1 .. Len(body) /\ (body = <<>> <=> Len(body) = 0)
      <4>1. body \in Seq(Character)
        BY <1>1 DEF Text
      <4> HIDE DEF body
      <4> QED BY <4>1
    <3> HIDE DEF body
    <3>2. body # <<>> <=> \E i \in DOMAIN body : TRUE
      <4>1. body # <<>> => 1 \in DOMAIN body
        BY <3>1
      <4>2. body = <<>> => DOMAIN body = {}
        BY <3>1
      <4> QED BY <4>1, <4>2
    <3> QED BY <2>1, <3>2 DEF body
  <2>3. Satisfies(text, row) <=> ContainsText(Normalize(text), Lowered(row.text))
    BY <2>1, Zenon DEF Satisfies, Lowered
  <2>4. CASE Literal(row.text)
    <3>1. row.says = [i \in DOMAIN row.text |-> Name(row.text[i])]
      BY <1>1, <2>1, <2>4, Zenon DEF AsksFor
    <3>2. Lowered(row.text) = Plain(row.says)
      BY <1>1, <2>4, <3>1, LiteralIsPlain
    <3> QED BY <1>2, <1>3, <1>4, <1>6, <2>2, <2>3, <2>4, <3>2
  <2>5. CASE ~Literal(row.text)
    <3>1. ~Satisfies(text, row)
      BY <1>1, <1>2, <2>3, <2>5, OthersAreNowhere
    <3> QED BY <1>4, <1>6, <2>5, <3>1
  <2> QED BY <2>4, <2>5
<1> QED BY <1>1, <1>5, <1>6

\* For any alphabet, any text and any table of patterns that ask for their words,
\* the matcher reports an enabled row that speaks of the text, and reports none
\* only when no enabled row does: decomposing, dropping marks, folding case and
\* collapsing white space lose and invent no word.
THEOREM MatchSpeaks ==
  ASSUME NEW text \in Text, NEW says \in Words, Spells(text, says),
         NEW table, DOMAIN table \subseteq Nat, \A id \in DOMAIN table : Rowlike(table[id])
  PROVE  /\ \A id \in Match(table, text) :
              id \in DOMAIN table /\ table[id].enabled /\ Speaks(table[id], text, says)
         /\ Match(table, text) = {} =>
              \A id \in DOMAIN table : table[id].enabled => ~Speaks(table[id], text, says)
<1> DEFINE hits == {id \in NewMatcher(table) : Satisfies(text, table[id])}
           substrings == {id \in hits : table[id].kind = "substring"}
<1>1. TrimSpace(text) # <<>> <=> \E i \in DOMAIN text : text[i] # Space
  BY TrimIsSome
<1>2. CASE TrimSpace(text) = <<>>
  <2>1. Match(table, text) = {}
    BY <1>2 DEF Match
  <2>2. \A row : ~Speaks(row, text, says)
    BY <1>1, <1>2, Zenon DEF Speaks
  <2> QED BY <2>1, <2>2
<1>3. CASE TrimSpace(text) # <<>>
  <2>1. ASSUME NEW id \in DOMAIN table
        PROVE  id \in hits <=> table[id].enabled /\ Speaks(table[id], text, says)
    <3>1. Trimmed(table[id]) # <<>> /\ (table[id].kind = "regexp" => table[id].compiles)
          /\ Satisfies(text, table[id]) <=> Speaks(table[id], text, says)
      BY <1>1, <1>3, SatisfiesIsSpeaks
    <3> QED BY <3>1, Zenon DEF NewMatcher
  <2>2. hits \subseteq DOMAIN table /\ substrings \subseteq hits
    BY Zenon DEF NewMatcher
  <2>3. Match(table, text) = IF hits = {} THEN {} ELSE IF substrings # {} THEN {Min(substrings)} ELSE {Min(hits)}
    BY <1>3, Zenon DEF Match
  <2> HIDE DEF hits, substrings
  <2>4. hits # {} => Min(hits) \in hits
    BY <2>2, MinOf
  <2>5. substrings # {} => Min(substrings) \in hits
    BY <2>2, MinOf
  <2>6. Match(table, text) \subseteq hits /\ (Match(table, text) = {} => hits = {})
    BY <2>2, <2>3, <2>4, <2>5
  <2> QED BY <2>1, <2>2, <2>6
<1> QED BY <1>2, <1>3

-----------------------------------------------------------------------------
(* What a delivery brings *)

\* dispatch and HandleIncoming drop the message before they look at a table.
Ignored(d) ==
  \/ Parse(d) = None
  \/ ~Countable(Parse(d))

\* msg is what d's payload tells of a message in a group.
Genuine(msg, d) ==
  LET m == d.message
  IN /\ m \in Messages /\ msg \in OfInterest
     /\ msg.chat = Said[m].chat /\ msg.text = Said[m].text /\ msg.id = m
     /\ msg.sender = Said[m].author \/ (~NamesWriter(d) /\ msg.sender = Said[m].chat)
     /\ ~Said[m].own \/ ~TellsOwn(d)

\* What carries a message is one of its payloads.
LEMMA DeliveryForms ==
  ASSUME NEW d \in Deliveries
  PROVE  /\ d.message \in Messages
         /\ \/ d.via \in {"poller", "greenapi"} /\ d.payload \in Notifications(d.message)
            \/ d.via = "gowa" /\ d.payload \in Events(d.message)
BY DEF Deliveries, Delivery

\* A message in a group, parsed, is of interest, whoever stands for its writer.
LEMMA IncomingIsOfInterest ==
  ASSUME NEW m \in Messages, NEW sender \in {Said[m].author, Said[m].chat}, Said[m].chat \in GroupChats
  PROVE  /\ Incoming(Said[m].chat, sender, FALSE, Said[m].text, m) \in OfInterest
         /\ NotSet \notin {sender, m}
<1>1. sender \in People \cup GroupChats /\ NotSet \notin {sender, m}
  BY IntakeAssumption DEF People
<1> QED BY <1>1 DEF Incoming, OfInterest

\* GreenAPI's notification of a message, parsed.
LEMMA NotificationSays ==
  ASSUME NEW m \in Messages, NEW n \in Notifications(m)
  PROVE  \/ /\ ParseNotification(n) = None
            /\ Said[m].own \/ Said[m].text = <<>> \/ n.typeMessage = "imageMessage"
         \/ /\ Said[m].chat \notin GroupChats
            /\ ParseNotification(n).chat = Said[m].chat
         \/ /\ Said[m].chat \in GroupChats /\ ~Said[m].own
            /\ \E sender \in {Said[m].author, Said[m].chat} :
                 /\ sender = Said[m].author \/ n.sender = NotSet
                 /\ ParseNotification(n) = Incoming(Said[m].chat, sender, FALSE, Said[m].text, m)
<1>1. PICK type \in {"textMessage", "extendedTextMessage", "quotedMessage", "imageMessage"},
           writer \in {Said[m].author, NotSet} :
        n = [typeWebhook |-> IF Said[m].own THEN "outgoingAPIMessageReceived" ELSE "incomingMessageReceived",
             typeMessage |-> type, chatId |-> Said[m].chat,
             sender |-> writer,
             textMessage |-> IF type = "textMessage" THEN Said[m].text ELSE <<>>,
             extendedText |-> IF type \in {"extendedTextMessage", "quotedMessage"} THEN Said[m].text ELSE <<>>,
             idMessage |-> m]
  BY DEF Notifications
<1>2. /\ n.typeWebhook = "incomingMessageReceived" <=> ~Said[m].own
      /\ n.typeMessage = type /\ n.chatId = Said[m].chat /\ n.idMessage = m
      /\ n.sender = writer
      /\ type = "textMessage" => n.textMessage = Said[m].text
      /\ type \in {"extendedTextMessage", "quotedMessage"} => n.extendedText = Said[m].text
  BY <1>1
<1> DEFINE text == CASE n.typeMessage = "textMessage" -> n.textMessage
                     [] n.typeMessage \in {"extendedTextMessage", "quotedMessage"} -> n.extendedText
                     [] OTHER -> <<>>
           sender == IF n.sender = NotSet THEN n.chatId ELSE n.sender
<1>3. text = IF type = "imageMessage" THEN <<>> ELSE Said[m].text
  BY <1>2
<1>4. ParseNotification(n) = IF n.typeWebhook # "incomingMessageReceived" \/ text = <<>> THEN None
                             ELSE Incoming(n.chatId, sender, FALSE, text, n.idMessage)
  BY DEF ParseNotification
<1> HIDE DEF text
<1>5. sender \in {Said[m].author, Said[m].chat} /\ (sender = Said[m].author \/ n.sender = NotSet)
  BY <1>2, IntakeAssumption
<1> HIDE DEF sender
<1>6. CASE Said[m].own \/ text = <<>>
  <2>1. ParseNotification(n) = None
    BY <1>2, <1>4, <1>6
  <2> QED BY <1>2, <1>3, <1>6, <2>1
<1>7. CASE ~Said[m].own /\ text # <<>>
  <2>1. ParseNotification(n) = Incoming(Said[m].chat, sender, FALSE, Said[m].text, m)
    BY <1>2, <1>3, <1>4, <1>7
  <2>2. Incoming(Said[m].chat, sender, FALSE, Said[m].text, m).chat = Said[m].chat
    BY DEF Incoming
  <2> QED BY <1>5, <1>7, <2>1, <2>2
<1> QED BY <1>6, <1>7

\* GOWA's event of a message, parsed, whatever the release.
LEMMA EventSays ==
  ASSUME NEW m \in Messages, NEW e \in Events(m)
  PROVE  \/ /\ ParseEvent(e) = None
            /\ Said[m].text = <<>> \/ e.event # "message"
         \/ ParseEvent(e).fromMe /\ Said[m].own
         \/ ParseEvent(e).id = NotSet /\ e.id = NotSet
         \/ /\ Said[m].chat \notin GroupChats
            /\ ParseEvent(e).chat = Said[m].chat
         \/ /\ Said[m].chat \in GroupChats
            /\ ~Said[m].own \/ DOMAIN e.flags = {}
            /\ \E sender \in {Said[m].author, Said[m].chat} :
                 /\ sender = Said[m].author \/ e.from = <<>>
                 /\ ParseEvent(e) = Incoming(Said[m].chat, sender, FALSE, Said[m].text, m)
<1>1. PICK release \in 1 .. 7 :
        e = [event |-> IF release = 4 THEN "message.ack" ELSE "message", chat_id |-> Said[m].chat,
             from |-> IF Said[m].chat \notin GroupChats \/ release = 6 THEN <<>>
                      ELSE IF release = 3 THEN <<Said[m].author, "in", Said[m].chat>> ELSE <<Said[m].author>>,
             flags |-> [flag \in Flags(release) |-> Said[m].own],
             messageText |-> IF release = 1 THEN Said[m].text ELSE <<>>,
             conversation |-> IF release = 2 THEN Said[m].text ELSE <<>>,
             text |-> IF release \in 3 .. 7 THEN Said[m].text ELSE <<>>,
             id |-> IF release = 5 THEN NotSet ELSE m]
  BY DEF Events
<1>2. /\ e.event = "message" <=> release # 4
      /\ e.chat_id = Said[m].chat
      /\ \/ e.from = <<>>
         \/ e.from = <<Said[m].author, "in", Said[m].chat>>
         \/ e.from = <<Said[m].author>>
      /\ e.flags = [flag \in Flags(release) |-> Said[m].own]
      /\ e.messageText = IF release = 1 THEN Said[m].text ELSE <<>>
      /\ e.conversation = IF release = 2 THEN Said[m].text ELSE <<>>
      /\ e.text = IF release \in 3 .. 7 THEN Said[m].text ELSE <<>>
      /\ e.id = IF release = 5 THEN NotSet ELSE m
  BY <1>1
<1>3. isFromMe(e) \in BOOLEAN /\ (isFromMe(e) <=> Said[m].own /\ DOMAIN e.flags # {})
  <2>1. DOMAIN e.flags = Flags(release) /\ \A flag \in Flags(release) : e.flags[flag] = Said[m].own
    BY <1>2
  <2>2. Flags(release) \subseteq {"fromMe", "from_me", "is_from_me"}
    <3>1. \/ Flags(release) = {"fromMe"} \/ Flags(release) = {"is_from_me"}
          \/ Flags(release) = {} \/ Flags(release) = {"from_me"}
      BY DEF Flags
    <3> QED BY <3>1
  <2>3. isFromMe(e) <=> \E flag \in {"fromMe", "from_me", "is_from_me"} \cap DOMAIN e.flags : e.flags[flag]
    BY Zenon DEF isFromMe
  <2>4. isFromMe(e) \in BOOLEAN
    BY Zenon DEF isFromMe
  <2> QED BY <2>1, <2>2, <2>3, <2>4, Zenon
<1> DEFINE text == firstNonEmpty(e.messageText, e.conversation, e.text)
           sender == IF participantOf(e.from) = NotSet THEN e.chat_id ELSE participantOf(e.from)
<1>4. text = Said[m].text
  BY <1>2 DEF firstNonEmpty
<1>5. sender \in {Said[m].author, Said[m].chat} /\ (sender = Said[m].author \/ e.from = <<>>)
  <2>1. CASE e.from = <<>>
    BY <1>2, <2>1, Zenon DEF participantOf
  <2>2. CASE e.from = <<Said[m].author, "in", Said[m].chat>> \/ e.from = <<Said[m].author>>
    <3> HIDE DEF text, sender
    <3>1. ASSUME NEW a, NEW b, NEW c, NEW from, from = <<a, b, c>> \/ from = <<a>>
          PROVE  from # <<>> /\ from[1] = a
      BY <3>1
    <3>2. e.from # <<>> /\ e.from[1] = Said[m].author
      BY <2>2, <3>1
    <3>3. participantOf(e.from) = Said[m].author
      BY <3>2, Zenon DEF participantOf
    <3> USE DEF sender
    <3> QED BY <3>3, IntakeAssumption
  <2> QED BY <1>2, <2>1, <2>2
<1>6. ParseEvent(e) = IF e.event # "message" \/ text = <<>> THEN None
                      ELSE Incoming(e.chat_id, sender, isFromMe(e), text, e.id)
  BY DEF ParseEvent
<1> HIDE DEF text, sender
<1>7. CASE e.event # "message" \/ text = <<>>
  BY <1>4, <1>6, <1>7
<1>8. CASE ~(e.event # "message" \/ text = <<>>)
  <2>1. ParseEvent(e) = Incoming(Said[m].chat, sender, isFromMe(e), Said[m].text, e.id)
    BY <1>2, <1>4, <1>6, <1>8
  <2>2. /\ ParseEvent(e).chat = Said[m].chat /\ ParseEvent(e).id = e.id
        /\ ParseEvent(e).fromMe = isFromMe(e)
    BY <2>1 DEF Incoming
  <2>3. CASE isFromMe(e)
    BY <1>3, <2>2, <2>3, Zenon
  <2>4. CASE e.id = NotSet
    BY <2>2, <2>4, Zenon
  <2>5. CASE Said[m].chat \notin GroupChats
    BY <2>2, <2>5, Zenon
  <2>6. CASE ~isFromMe(e) /\ e.id # NotSet /\ Said[m].chat \in GroupChats
    <3>1. e.id = m
      BY <1>2, <2>6
    <3>2. isFromMe(e) = FALSE /\ (~Said[m].own \/ DOMAIN e.flags = {})
      BY <1>3, <2>6, Zenon
    <3>3. ParseEvent(e) = Incoming(Said[m].chat, sender, FALSE, Said[m].text, m)
      BY <2>1, <3>1, <3>2, Zenon
    <3> QED BY <1>5, <2>6, <3>2, <3>3, Zenon
  <2> QED BY <2>3, <2>4, <2>5, <2>6
<1> QED BY <1>7, <1>8

\* What is not ignored is genuine, and what is genuine is not ignored.
LEMMA IgnoredExactly ==
  ASSUME NEW d \in Deliveries
  PROVE  /\ ~Ignored(d) => Genuine(Parse(d), d)
         /\ Ignored(d) => \/ ~CarriesText(d)
                          \/ Said[d.message].own \/ Said[d.message].text = <<>>
                          \/ Said[d.message].chat \notin GroupChats
<1> DEFINE m == d.message
<1>1. m \in Messages
  BY DeliveryForms
<1>2. \/ /\ Parse(d) = None
         /\ ~CarriesText(d) \/ Said[m].own \/ Said[m].text = <<>>
      \/ Parse(d).fromMe /\ Said[m].own
      \/ Parse(d).id = NotSet /\ ~CarriesText(d)
      \/ /\ Said[m].chat \notin GroupChats
         /\ Parse(d).chat = Said[m].chat
      \/ /\ Said[m].chat \in GroupChats
         /\ ~Said[m].own \/ ~TellsOwn(d)
         /\ \E sender \in {Said[m].author, Said[m].chat} :
              /\ sender = Said[m].author \/ ~NamesWriter(d)
              /\ Parse(d) = Incoming(Said[m].chat, sender, FALSE, Said[m].text, m)
  <2>1. CASE d.via \in {"poller", "greenapi"} /\ d.payload \in Notifications(m)
    <3>1. /\ Parse(d) = ParseNotification(d.payload)
          /\ CarriesText(d) <=> d.payload.typeMessage # "imageMessage"
          /\ NamesWriter(d) <=> d.payload.sender # NotSet
      BY <2>1, Zenon DEF Parse, CarriesText, NamesWriter
    <3> QED BY <1>1, <2>1, <3>1, NotificationSays, Zenon
  <2>2. CASE d.via = "gowa" /\ d.payload \in Events(m)
    <3>1. /\ Parse(d) = ParseEvent(d.payload)
          /\ CarriesText(d) <=> d.payload.event = "message" /\ d.payload.id # NotSet
          /\ NamesWriter(d) <=> d.payload.from # <<>>
          /\ TellsOwn(d) <=> DOMAIN d.payload.flags # {}
      BY <2>2, Zenon DEF Parse, CarriesText, NamesWriter, TellsOwn
    <3> QED BY <1>1, <2>2, <3>1, EventSays, Zenon
  <2> QED BY <2>1, <2>2, DeliveryForms
<1> HIDE DEF m
<1>3. ASSUME Said[m].chat \in GroupChats, ~Said[m].own \/ ~TellsOwn(d),
             NEW sender \in {Said[m].author, Said[m].chat}, sender = Said[m].author \/ ~NamesWriter(d),
             Parse(d) = Incoming(Said[m].chat, sender, FALSE, Said[m].text, m)
      PROVE  ~Ignored(d) /\ Genuine(Parse(d), d)
  <2>1. Parse(d) \in OfInterest /\ NotSet \notin {sender, m}
    BY <1>1, <1>3, IncomingIsOfInterest
  <2>2. Parse(d) # None
    BY <2>1, NoneAssumption
  <2>3. /\ Parse(d).chat = Said[m].chat /\ Parse(d).sender = sender
        /\ Parse(d).fromMe = FALSE /\ Parse(d).text = Said[m].text /\ Parse(d).id = m
    BY <1>3 DEF Incoming
  <2>4. ~Ignored(d)
    BY <1>3, <2>1, <2>2, <2>3, Zenon DEF Ignored, Countable
  <2>5. Genuine(Parse(d), d)
    BY <1>1, <1>3, <2>1, <2>3 DEF Genuine, m
  <2> QED BY <2>4, <2>5
<1>4. CASE Parse(d) = None /\ (~CarriesText(d) \/ Said[m].own \/ Said[m].text = <<>>)
  BY <1>4, Zenon DEF Ignored, m
<1>5. CASE Parse(d).fromMe /\ Said[m].own
  BY <1>5, Zenon DEF Ignored, Countable, m
<1>6. CASE Parse(d).id = NotSet /\ ~CarriesText(d)
  BY <1>6, Zenon DEF Ignored, Countable, m
<1>7. CASE Said[m].chat \notin GroupChats /\ Parse(d).chat = Said[m].chat
  BY <1>7, Zenon DEF Ignored, Countable, m
<1>8. CASE /\ Said[m].chat \in GroupChats
           /\ ~Said[m].own \/ ~TellsOwn(d)
           /\ \E sender \in {Said[m].author, Said[m].chat} :
                /\ sender = Said[m].author \/ ~NamesWriter(d)
                /\ Parse(d) = Incoming(Said[m].chat, sender, FALSE, Said[m].text, m)
  BY <1>3, <1>8, Zenon DEF m
<1> QED BY <1>2, <1>4, <1>5, <1>6, <1>7, <1>8, Zenon

-----------------------------------------------------------------------------
(* The invariant *)

\* p speaks of the message m.
SpeaksOf(p, m) == Speaks(p, Said[m].text, Said[m].says)

\* Every row there can be asks for its words.
LEMMA StoredAsks ==
  ASSUME NEW p \in Patterns \cup Seeded
  PROVE  Rowlike(p) /\ Rowlike(toModel(p))
<1>1. p \in Pattern /\ AsksFor(p, p.says)
  BY PatternAssumption
<1>2. p.text \in Text
  BY <1>1 DEF Pattern
<1>3. Trimmed(p) \in Text
  BY <1>2, TrimIsSome DEF Trimmed
<1> DEFINE row == toModel(p)
<1>4. row \in Pattern /\ row.kind = p.kind /\ row.says = p.says /\ row.text = Trimmed(p)
  BY <1>1, <1>3 DEF toModel, Pattern
<1> HIDE DEF row
<1>5. CASE p.kind = "substring"
  <2>1. Trimmed(row) = Trimmed(p)
    BY <1>2, <1>4, <1>5, TrimIsSome DEF Trimmed
  <2> QED BY <1>1, <1>4, <1>5, <2>1, Zenon DEF AsksFor, Rowlike, row
<1>6. CASE p.kind # "substring"
  <2>1. row.text = p.text
    BY <1>4, <1>6 DEF Trimmed
  <2> QED BY <1>1, <1>4, <1>6, <2>1, Zenon DEF AsksFor, Rowlike, row
<1> QED BY <1>5, <1>6

\* Every row of the table asks for its words.
LEMMA RowsAsk ==
  ASSUME NEW row \in Storable
  PROVE  Rowlike(row)
BY StoredAsks DEF Storable

\* A delivery in flight, and what the edits since it arrived have left true.
Underway(r) ==
  /\ r.outcome = "none"
  /\ Enabled \subseteq r.ever /\ r.always \subseteq Enabled
  /\ Trusted(r.delivery, secrets) => r.vouched
  /\ ~r.barred => Trusted(r.delivery, secrets) /\ watching

InFlight == pc \notin {"idle", "done"} => Underway(req)

\* What the delivery has passed by the time it is where it is.
Passed ==
  /\ pc \in {"lookup", "match", "record"} => req.vouched /\ Genuine(req.msg, req.delivery)
  /\ pc \in {"match", "record"} => req.msg.chat = WatchedChat
  /\ pc = "record" => req.matched \in req.ever /\ SpeaksOf(req.matched, req.delivery.message)

\* The table of wishes is empty until the delivery is over.
Unrecorded == pc # "done" => wishes = {}

IInv ==
  /\ TypeOK /\ Unrecorded
  /\ IF pc = "idle" THEN req = None ELSE req \in Requests
  /\ InFlight /\ Passed
  /\ WishIsWhatWasSaid /\ WishIsCurrent /\ NoWishMissed

-----------------------------------------------------------------------------
(* Records and tables *)

\* The table of patterns is one of storable rows, by number.
LEMMA TableForm ==
  ASSUME TypeOK
  PROVE  /\ DOMAIN patterns \subseteq PatternIds /\ DOMAIN patterns \subseteq Nat
         /\ \A id \in DOMAIN patterns : patterns[id] \in Storable
         /\ Enabled \subseteq Storable
<1>1. PICK ids \in SUBSET PatternIds : patterns \in [ids -> Storable]
  BY DEF TypeOK
<1>2. DOMAIN patterns = ids /\ \A id \in DOMAIN patterns : patterns[id] \in Storable
  BY <1>1
<1>3. Enabled \subseteq Storable
  BY <1>2 DEF Enabled, Rows
<1> QED BY <1>2, <1>3, IntakeAssumption

\* A delivery is trusted or not.
LEMMA TrustIsBoolean ==
  ASSUME NEW d, NEW s
  PROVE  Trusted(d, s) \in BOOLEAN
BY DEF Trusted

\* A request with its outcome set, or its message, or its match.
LEMMA Concluded ==
  ASSUME NEW r \in Requests, NEW outcome \in Outcomes, NEW s, s = [r EXCEPT !.outcome = outcome]
  PROVE  /\ s \in Requests /\ s.outcome = outcome
         /\ s.delivery = r.delivery /\ s.msg = r.msg /\ s.matched = r.matched
         /\ s.ever = r.ever /\ s.always = r.always /\ s.vouched = r.vouched /\ s.barred = r.barred
BY Zenon DEF Requests

\* A request with its message set.
LEMMA Parsed ==
  ASSUME NEW r \in Requests, NEW msg \in OfInterest
  PROVE  LET s == [r EXCEPT !.msg = msg]
         IN
         /\ s \in Requests /\ s.msg = msg
         /\ s.delivery = r.delivery /\ s.outcome = r.outcome /\ s.matched = r.matched
         /\ s.ever = r.ever /\ s.always = r.always /\ s.vouched = r.vouched /\ s.barred = r.barred
BY Zenon DEF Requests

\* A request with its match set.
LEMMA Hit ==
  ASSUME NEW r \in Requests, NEW row \in Storable
  PROVE  LET s == [r EXCEPT !.matched = row]
         IN
         /\ s \in Requests /\ s.matched = row
         /\ s.delivery = r.delivery /\ s.outcome = r.outcome /\ s.msg = r.msg
         /\ s.ever = r.ever /\ s.always = r.always /\ s.vouched = r.vouched /\ s.barred = r.barred
BY Zenon DEF Requests

\* A delivery that has just arrived is in flight.
LEMMA ArrivedForm ==
  ASSUME TypeOK, NEW d \in Deliveries
  PROVE  /\ Arrived(d) \in Requests /\ Arrived(d).delivery = d
         /\ Underway(Arrived(d))
<1>1. /\ Trusted(d, secrets) \in BOOLEAN
      /\ (~Trusted(d, secrets) \/ ~watching) \in BOOLEAN
      /\ Enabled \in SUBSET Storable /\ "none" \in Outcomes
  BY TableForm, TrustIsBoolean DEF Outcomes
<1>2. Arrived(d) \in Requests
  BY <1>1, Zenon DEF Arrived, Requests
<1>3. /\ Arrived(d).delivery = d /\ Arrived(d).outcome = "none"
      /\ Arrived(d).ever = Enabled /\ Arrived(d).always = Enabled
      /\ Arrived(d).vouched = Trusted(d, secrets)
      /\ Arrived(d).barred = (~Trusted(d, secrets) \/ ~watching)
  BY Zenon DEF Arrived
<1>4. watching \in BOOLEAN
  BY DEF TypeOK
<1>5. ASSUME ~Arrived(d).barred PROVE Trusted(d, secrets) /\ watching
  BY <1>3, <1>5, Zenon
<1>6. Trusted(d, secrets) => Arrived(d).vouched
  BY <1>3, Zenon
<1>7. Enabled \subseteq Arrived(d).ever /\ Arrived(d).always \subseteq Enabled
  BY <1>3
<1> QED BY <1>2, <1>3, <1>5, <1>6, <1>7, Zenon DEF Underway

-----------------------------------------------------------------------------
(* The steps *)

\* While nothing is recorded there is no wish to be wrong.
LEMMA WishesStand ==
  ASSUME Unrecorded, pc # "done", wishes' = wishes
  PROVE  WishIsWhatWasSaid' /\ Unrecorded'
BY DEF WishIsWhatWasSaid, Unrecorded

\* Every initial state satisfies the invariant.
LEMMA Start ==
  ASSUME Init
  PROVE  IInv
<1>1. Seeded \subseteq Storable
  BY DEF Storable
<1>2. \E ids \in SUBSET PatternIds : patterns \in [ids -> Storable]
  BY <1>1 DEF Init
<1>3. TypeOK
  BY <1>2, IntakeAssumption DEF Init, TypeOK
<1>4. WishIsWhatWasSaid
  BY DEF Init, WishIsWhatWasSaid
<1>7. Unrecorded
  BY DEF Init, Unrecorded
<1>5. WishIsCurrent /\ NoWishMissed
  BY DEF Init, WishIsCurrent, NoWishMissed
<1>6. InFlight /\ Passed
  BY DEF Init, InFlight, Passed
<1> QED BY <1>3, <1>4, <1>5, <1>6, <1>7 DEF Init, IInv

\* A stuttering step keeps it.
LEMMA Still ==
  ASSUME IInv, UNCHANGED vars
  PROVE  IInv'
<1> USE DEF vars
<1>1. TypeOK'
  BY DEF IInv, TypeOK
<1>2. WishIsWhatWasSaid' /\ Unrecorded'
  BY DEF IInv, WishIsWhatWasSaid, Unrecorded
<1>3. WishIsCurrent' /\ NoWishMissed'
  BY DEF IInv, WishIsCurrent, NoWishMissed
<1>4. InFlight' /\ Passed'
  BY DEF IInv, InFlight, Passed, Underway, Enabled
<1> QED BY <1>1, <1>2, <1>3, <1>4 DEF IInv

\* The end of a delivery: what has to hold of its outcome.
LEMMA Ends ==
  ASSUME IInv, NEW r \in Requests, NEW outcome \in Outcomes, Finish(r, outcome),
         UNCHANGED <<operated, edits>>,
         wishes' \subseteq [message: Messages, sender: People \cup {WatchedChat}, matched: Storable],
         WishIsWhatWasSaid',
         outcome = "wish" => r.vouched /\ r.matched \in r.ever,
         outcome \in {"ignored", "refused"} /\ ~r.barred /\ CarriesText(r.delivery) =>
           LET said == Said[r.delivery.message]
           IN said.own \/ said.chat # WatchedChat \/ \A p \in r.always : ~Speaks(p, said.text, said.says)
  PROVE  IInv'
<1>1. pc' = "done" /\ req' = [r EXCEPT !.outcome = outcome]
  BY DEF Finish
<1>2. /\ req' \in Requests /\ req'.outcome = outcome
      /\ req'.delivery = r.delivery /\ req'.matched = r.matched
      /\ req'.ever = r.ever /\ req'.always = r.always /\ req'.vouched = r.vouched /\ req'.barred = r.barred
  BY <1>1, Concluded
<1>3. TypeOK'
  BY <1>1, <1>2 DEF IInv, TypeOK, operated
<1>4. InFlight' /\ Passed' /\ Unrecorded'
  BY <1>1 DEF InFlight, Passed, Unrecorded
<1>5. WishIsCurrent'
  BY <1>2 DEF WishIsCurrent
<1>6. NoWishMissed'
  BY <1>2 DEF NoWishMissed
<1> QED BY <1>1, <1>2, <1>3, <1>4, <1>5, <1>6 DEF IInv

\* A delivery that goes on: its history is untouched.
LEMMA GoesOn ==
  ASSUME IInv, pc # "done", pc' \in {"authorise", "lookup", "match", "record"}, req' \in Requests,
         UNCHANGED <<operated, wishes, edits>>,
         NEW r, Underway(r),
         req'.outcome = r.outcome, req'.delivery = r.delivery,
         req'.ever = r.ever, req'.always = r.always, req'.vouched = r.vouched, req'.barred = r.barred,
         Passed'
  PROVE  IInv'
<1>1. TypeOK'
  BY DEF IInv, TypeOK, operated
<1>2. WishIsWhatWasSaid' /\ Unrecorded'
  BY WishesStand DEF IInv
<1>3. req'.outcome = "none"
  BY DEF Underway
<1>4. WishIsCurrent' /\ NoWishMissed'
  BY <1>3 DEF WishIsCurrent, NoWishMissed
<1>5. Enabled' = Enabled /\ secrets' = secrets /\ watching' = watching
  BY DEF Enabled, operated
<1>6. Underway(req)'
  BY <1>3, <1>5 DEF Underway
<1>7. InFlight'
  BY <1>6 DEF InFlight
<1> QED BY <1>1, <1>2, <1>4, <1>7 DEF IInv

\* dispatch: what is not ignored is genuine.
LEMMA Dispatched ==
  ASSUME IInv, pc # "done", NEW r \in Requests, Underway(r), r.vouched, Dispatch(r),
         UNCHANGED <<operated, wishes, edits>>
  PROVE  IInv'
<1> DEFINE m == r.delivery.message
<1>1. r.delivery \in Deliveries
  BY DEF Requests
<1>2. m \in Messages
  BY <1>1, DeliveryForms
<1>3. CASE Ignored(r.delivery)
  <2>1. Finish(r, "ignored")
    BY <1>3, Zenon DEF Dispatch, Ignored
  <2>2. "ignored" \in Outcomes
    BY DEF Outcomes
  <2>3. ASSUME CarriesText(r.delivery)
        PROVE  Said[m].own \/ Said[m].chat # WatchedChat
               \/ \A p \in r.always : ~Speaks(p, Said[m].text, Said[m].says)
    <3>1. Said[m].own \/ Said[m].text = <<>> \/ Said[m].chat \notin GroupChats
      BY <1>1, <1>3, <2>3, IgnoredExactly
    <3>2. CASE Said[m].text = <<>>
      BY <3>2 DEF Speaks
    <3> QED BY <3>1, <3>2, IntakeAssumption
  <2>4. WishIsWhatWasSaid' /\ wishes' \subseteq [message: Messages, sender: People \cup {WatchedChat}, matched: Storable]
    BY WishesStand DEF IInv, TypeOK
  <2> QED BY <2>1, <2>2, <2>3, <2>4, Ends
<1>4. CASE ~Ignored(r.delivery)
  <2>1. pc' = "lookup" /\ req' = [r EXCEPT !.msg = Parse(r.delivery)]
    BY <1>4, Zenon DEF Dispatch, Ignored
  <2>2. Genuine(Parse(r.delivery), r.delivery)
    BY <1>1, <1>4, IgnoredExactly
  <2>3. Parse(r.delivery) \in OfInterest
    BY <2>2 DEF Genuine
  <2> DEFINE msg == Parse(r.delivery)
             s == [r EXCEPT !.msg = msg]
  <2>4. msg \in OfInterest /\ s = req'
    BY <2>1, <2>3
  <2> HIDE DEF msg
  <2>5. /\ s \in Requests /\ s.msg = msg
        /\ s.delivery = r.delivery /\ s.outcome = r.outcome
        /\ s.ever = r.ever /\ s.always = r.always /\ s.vouched = r.vouched /\ s.barred = r.barred
    BY <2>4, Parsed, Zenon
  <2>6. /\ req' \in Requests /\ req'.msg = Parse(r.delivery)
        /\ req'.delivery = r.delivery /\ req'.outcome = r.outcome
        /\ req'.ever = r.ever /\ req'.always = r.always /\ req'.vouched = r.vouched /\ req'.barred = r.barred
    BY <2>4, <2>5, Zenon DEF msg
  <2>7. Passed'
    BY <2>1, <2>2, <2>6 DEF Passed
  <2> QED BY <2>1, <2>6, <2>7, GoesOn
<1> QED BY <1>3, <1>4

\* A poll is dispatched at once, a webhook waits for its credential.
LEMMA DeliverStep ==
  ASSUME IInv, NEW d \in Deliveries, Deliver(d)
  PROVE  IInv'
<1>1. /\ Arrived(d) \in Requests /\ Arrived(d).delivery = d
      /\ Underway(Arrived(d))
  BY ArrivedForm DEF IInv
<1>2. pc # "done" /\ UNCHANGED <<operated, wishes, edits>>
  BY DEF Deliver
<1>3. CASE d.via = "poller"
  <2>1. Dispatch(Arrived(d))
    BY <1>3 DEF Deliver
  <2>2. Trusted(d, secrets)
    BY <1>3 DEF Trusted
  <2>3. Arrived(d).vouched
    BY <1>1, <2>2 DEF Underway
  <2> QED BY <1>1, <1>2, <2>1, <2>3, Dispatched
<1>4. CASE d.via # "poller"
  <2>1. pc' = "authorise" /\ req' = Arrived(d)
    BY <1>4 DEF Deliver
  <2>2. Passed'
    BY <2>1 DEF Passed
  <2> QED BY <1>1, <1>2, <2>1, <2>2, GoesOn
<1> QED BY <1>3, <1>4

\* The handler lets a delivery pass exactly when it is to be trusted.
LEMMA AuthorisedIsTrusted ==
  ASSUME TypeOK, NEW d \in Deliveries
  PROVE  Authorised(d, secrets) <=> Trusted(d, secrets)
<1>1. d.via \in {"poller", "greenapi", "gowa"}
  BY DeliveryForms
<1>2. secrets.secret \in Credentials \cup {NotSet} /\ NotSet \notin Credentials
  BY IntakeAssumption DEF TypeOK
<1>3. CASE d.via = "poller"
  BY <1>3 DEF Authorised, Trusted
<1>4. CASE d.via = "greenapi"
  BY <1>4 DEF Authorised, Trusted, CheckAuthHeader
<1>5. CASE d.via = "gowa"
  <2>1. Authorised(d, secrets) <=> secrets.secret # NotSet /\ d.credential = secrets.secret
    BY <1>5 DEF Authorised, VerifySignature
  <2>2. Trusted(d, secrets) <=> d.credential \in Credentials /\ d.credential = secrets.secret
    BY <1>5 DEF Trusted
  <2> QED BY <1>2, <2>1, <2>2
<1> QED BY <1>1, <1>3, <1>4, <1>5

\* A refused delivery was not to be trusted; another is dispatched.
LEMMA AuthoriseStep ==
  ASSUME IInv, Authorise
  PROVE  IInv'
<1>1. pc = "authorise" /\ req \in Requests /\ UNCHANGED <<operated, wishes, edits>>
  BY DEF Authorise, IInv
<1>2. req.delivery \in Deliveries
  BY <1>1 DEF Requests
<1>3. Underway(req)
  BY <1>1 DEF IInv, InFlight
<1>4. Authorised(req.delivery, secrets) <=> Trusted(req.delivery, secrets)
  BY <1>2, AuthorisedIsTrusted DEF IInv
<1>5. CASE Authorised(req.delivery, secrets)
  <2>1. Dispatch(req)
    BY <1>5 DEF Authorise
  <2>2. req.vouched
    BY <1>3, <1>4, <1>5 DEF Underway
  <2> QED BY <1>1, <1>3, <2>1, <2>2, Dispatched
<1>6. CASE ~Authorised(req.delivery, secrets)
  <2>1. Finish(req, "refused")
    BY <1>6 DEF Authorise
  <2>2. req.barred
    BY <1>3, <1>4, <1>6 DEF Underway
  <2>3. "refused" \in Outcomes
    BY DEF Outcomes
  <2>4. WishIsWhatWasSaid' /\ wishes' \subseteq [message: Messages, sender: People \cup {WatchedChat}, matched: Storable]
    BY <1>1, WishesStand DEF IInv, TypeOK
  <2> QED BY <1>1, <2>1, <2>2, <2>3, <2>4, Ends
<1> QED BY <1>5, <1>6

\* A message ignored here is from another group, or the group is not watched.
LEMMA LookUpStep ==
  ASSUME IInv, LookUpGroup
  PROVE  IInv'
<1>1. pc = "lookup" /\ req \in Requests /\ UNCHANGED <<operated, wishes, edits>>
  BY DEF LookUpGroup, IInv
<1>2. Underway(req)
  BY <1>1 DEF IInv, InFlight
<1>3. req.vouched /\ Genuine(req.msg, req.delivery)
  BY <1>1 DEF IInv, Passed
<1>4. CASE req.msg.chat = WatchedChat /\ watching
  <2>1. pc' = "match" /\ req' = req
    BY <1>4 DEF LookUpGroup
  <2>2. Passed'
    BY <1>3, <1>4, <2>1 DEF Passed
  <2> QED BY <1>1, <1>2, <2>1, <2>2, GoesOn
<1>5. CASE ~(req.msg.chat = WatchedChat /\ watching)
  <2>1. Finish(req, "ignored")
    BY <1>5 DEF LookUpGroup
  <2>2. req.barred \/ Said[req.delivery.message].chat # WatchedChat
    BY <1>2, <1>3, <1>5 DEF Underway, Genuine
  <2>3. "ignored" \in Outcomes
    BY DEF Outcomes
  <2>4. WishIsWhatWasSaid' /\ wishes' \subseteq [message: Messages, sender: People \cup {WatchedChat}, matched: Storable]
    BY <1>1, WishesStand DEF IInv, TypeOK
  <2> QED BY <1>1, <2>1, <2>2, <2>3, <2>4, Ends
<1> QED BY <1>4, <1>5

\* What the matcher says of a message is what its rows speak of.
LEMMA MatchStep ==
  ASSUME IInv, MatchText
  PROVE  IInv'
<1>1. pc = "match" /\ req \in Requests /\ UNCHANGED <<operated, wishes, edits>>
  BY DEF MatchText, IInv
<1>2. Underway(req)
  BY <1>1 DEF IInv, InFlight
<1> DEFINE m == req.delivery.message
           hits == Match(patterns, req.msg.text)
<1>3. /\ req.vouched /\ Genuine(req.msg, req.delivery)
      /\ req.msg.chat = WatchedChat
  BY <1>1 DEF IInv, Passed
<1>4. m \in Messages /\ req.msg.text = Said[m].text
  BY <1>3 DEF Genuine
<1>5. /\ \A id \in hits : id \in DOMAIN patterns /\ patterns[id].enabled /\ SpeaksOf(patterns[id], m)
      /\ hits = {} => \A id \in DOMAIN patterns : patterns[id].enabled => ~SpeaksOf(patterns[id], m)
  <2>1. /\ Said[m].text \in Text /\ Said[m].says \in Words
        /\ Spells(Said[m].text, Said[m].says)
    BY <1>4, SaidAssumption DEF Words
  <2>2. DOMAIN patterns \subseteq Nat /\ \A id \in DOMAIN patterns : patterns[id] \in Storable
    BY TableForm DEF IInv
  <2>3. \A id \in DOMAIN patterns : Rowlike(patterns[id])
    BY <2>2, RowsAsk
  <2> QED BY <1>4, <2>1, <2>2, <2>3, MatchSpeaks, Zenon DEF SpeaksOf
<1> HIDE DEF m, hits
<1>6. CASE hits = {}
  <2>1. Finish(req, "ignored")
    BY <1>6 DEF MatchText, hits
  <2>2. \A p \in Enabled : ~SpeaksOf(p, m)
    BY <1>5, <1>6 DEF Enabled, Rows
  <2>3. \A p \in req.always : ~Speaks(p, Said[m].text, Said[m].says)
    BY <1>2, <2>2 DEF Underway, SpeaksOf
  <2>4. "ignored" \in Outcomes
    BY DEF Outcomes
  <2>5. WishIsWhatWasSaid' /\ wishes' \subseteq [message: Messages, sender: People \cup {WatchedChat}, matched: Storable]
    BY <1>1, WishesStand DEF IInv, TypeOK
  <2> QED BY <1>1, <2>1, <2>3, <2>4, <2>5, Ends DEF m
<1>7. CASE hits # {}
  <2>1. PICK id \in hits : pc' = "record" /\ req' = [req EXCEPT !.matched = patterns[id]]
    BY <1>7 DEF MatchText, hits
  <2> DEFINE row == patterns[id]
             s == [req EXCEPT !.matched = row]
  <2>2. row \in Storable /\ row \in Enabled /\ SpeaksOf(row, m)
    BY <1>5, TableForm DEF IInv, Enabled, Rows
  <2>3. req' = s
    BY <2>1
  <2> HIDE DEF row
  <2>4. /\ s \in Requests /\ s.matched = row
        /\ s.delivery = req.delivery /\ s.outcome = req.outcome /\ s.msg = req.msg
        /\ s.ever = req.ever /\ s.always = req.always /\ s.vouched = req.vouched /\ s.barred = req.barred
    BY <1>1, <2>2, Hit, Zenon
  <2>5. /\ req' \in Requests /\ req'.matched = row
        /\ req'.delivery = req.delivery /\ req'.outcome = req.outcome /\ req'.msg = req.msg
        /\ req'.ever = req.ever /\ req'.always = req.always
        /\ req'.vouched = req.vouched /\ req'.barred = req.barred
    BY <2>3, <2>4, Zenon
  <2>6. Passed'
    BY <1>2, <1>3, <2>1, <2>2, <2>5 DEF Passed, Underway, m
  <2> QED BY <1>1, <1>2, <2>1, <2>5, <2>6, GoesOn
<1> QED BY <1>6, <1>7

\* What is recorded is the message, with a row that speaks of it.
LEMMA RecordStep ==
  ASSUME IInv, RecordWishEvent
  PROVE  IInv'
<1>1. pc = "record" /\ req \in Requests /\ Finish(req, "wish") /\ UNCHANGED <<operated, edits>>
  BY DEF RecordWishEvent, IInv
<1> DEFINE m == req.delivery.message
           wish == [message |-> req.msg.id, sender |-> req.msg.sender, matched |-> req.matched]
<1>2. wishes' = wishes \cup {wish}
  BY DEF RecordWishEvent
<1>3. Underway(req)
  BY <1>1 DEF IInv, InFlight
<1>4. /\ req.vouched /\ Genuine(req.msg, req.delivery) /\ req.msg.chat = WatchedChat
      /\ req.matched \in req.ever /\ SpeaksOf(req.matched, m)
  BY <1>1 DEF IInv, Passed
<1>5. /\ m \in Messages /\ req.msg.id = m /\ Said[m].chat = WatchedChat
      /\ req.msg.sender = Said[m].author \/ (~NamesWriter(req.delivery) /\ req.msg.sender = WatchedChat)
      /\ ~Said[m].own \/ ~TellsOwn(req.delivery)
  BY <1>4 DEF Genuine
<1>6. req.matched \in Storable /\ req.msg.sender \in People \cup {WatchedChat}
  BY <1>1, <1>4, <1>5 DEF Requests, People
<1>7. wish \in [message: Messages, sender: People \cup {WatchedChat}, matched: Storable]
  BY <1>5, <1>6
<1>8. wish.message = m /\ wish.sender = req.msg.sender /\ wish.matched = req.matched
  BY <1>5
<1> HIDE DEF wish
<1>9. wishes' = {wish} /\ wishes' \subseteq [message: Messages, sender: People \cup {WatchedChat}, matched: Storable]
  BY <1>1, <1>2, <1>7 DEF IInv, Unrecorded
<1>12. req'.delivery = req.delivery
  BY <1>1, Concluded DEF Finish, Outcomes
<1>13. /\ NamesWriter(req.delivery)' <=> NamesWriter(req.delivery)
       /\ TellsOwn(req.delivery)' <=> TellsOwn(req.delivery)
  BY <1>12 DEF NamesWriter, TellsOwn
<1>10. WishIsWhatWasSaid'
  BY <1>4, <1>5, <1>8, <1>9, <1>13 DEF WishIsWhatWasSaid, SpeaksOf
<1>11. "wish" \in Outcomes
  BY DEF Outcomes
<1> QED BY <1>1, <1>4, <1>9, <1>10, <1>11, Ends

\* A failure records nothing.
LEMMA FailStep ==
  ASSUME IInv, Fail
  PROVE  IInv'
<1>1. pc \notin {"idle", "done"} /\ req \in Requests /\ Finish(req, "failed")
      /\ UNCHANGED <<operated, wishes, edits>>
  BY DEF Fail, IInv
<1>2. "failed" \in Outcomes
  BY DEF Outcomes
<1>3. WishIsWhatWasSaid' /\ wishes' \subseteq [message: Messages, sender: People \cup {WatchedChat}, matched: Storable]
  BY <1>1, WishesStand DEF IInv, TypeOK
<1> QED BY <1>1, <1>2, <1>3, Ends

\* Whatever the operator edits, the delivery's history keeps up with it.
LEMMA Edited ==
  ASSUME IInv, Edit,
         \E ids \in SUBSET PatternIds : patterns' \in [ids -> Storable],
         secrets' \in [token: Credentials \cup {NotSet}, secret: Credentials \cup {NotSet}],
         watching' \in BOOLEAN
  PROVE  IInv'
<1>1. pc' = pc /\ pc # "done" /\ wishes' = wishes /\ edits' \in 0 .. MaxEdits
  BY IntakeAssumption DEF Edit, IInv, TypeOK
<1>2. Rows(patterns') \subseteq Storable
  <2>1. PICK ids \in SUBSET PatternIds : patterns' \in [ids -> Storable]
    OBVIOUS
  <2> QED BY <2>1 DEF Rows
<1>3. WishIsWhatWasSaid' /\ Unrecorded'
  BY <1>1, WishesStand DEF IInv
<1>4. CASE pc = "idle"
  <2>1. req' = None
    BY <1>4 DEF Edit, IInv
  <2>2. TypeOK'
    BY <1>1, <2>1 DEF IInv, TypeOK
  <2>3. WishIsCurrent' /\ NoWishMissed'
    BY <2>1 DEF WishIsCurrent, NoWishMissed
  <2>4. InFlight' /\ Passed'
    BY <1>1, <1>4 DEF InFlight, Passed
  <2> QED BY <1>1, <1>3, <1>4, <2>1, <2>2, <2>3, <2>4 DEF IInv
<1>5. CASE pc # "idle"
  <2>1. req \in Requests /\ Underway(req)
    BY <1>1, <1>5 DEF IInv, InFlight
  <2> DEFINE ever == req.ever \cup Rows(patterns')
             always == req.always \cap Rows(patterns')
             vouched == req.vouched \/ Trusted(req.delivery, secrets')
             barred == req.barred \/ ~Trusted(req.delivery, secrets') \/ ~watching'
             s == [req EXCEPT !.ever = ever, !.always = always, !.vouched = vouched, !.barred = barred]
  <2>2. req' = s
    BY <1>5, Zenon DEF Edit
  <2>3. ever \subseteq Storable /\ always \subseteq Storable
    BY <1>2, <2>1 DEF Requests
  <2>4. vouched \in BOOLEAN /\ barred \in BOOLEAN
    BY <2>1 DEF Requests
  <2>5. Rows(patterns') \subseteq ever /\ always \subseteq Rows(patterns') /\ req.ever \subseteq ever
    OBVIOUS
  <2>6. Trusted(req.delivery, secrets') => vouched
    BY Zenon
  <2>7. ~barred => Trusted(req.delivery, secrets') /\ watching'
    BY Zenon
  <2>8. req.vouched => vouched
    BY Zenon
  <2> HIDE DEF ever, always, vouched, barred
  <2>9. /\ s \in Requests
        /\ s.delivery = req.delivery /\ s.outcome = req.outcome /\ s.msg = req.msg /\ s.matched = req.matched
        /\ s.ever = ever /\ s.always = always /\ s.vouched = vouched /\ s.barred = barred
    BY <2>1, <2>3, <2>4, Zenon DEF Requests
  <2>10. /\ req' \in Requests
         /\ req'.delivery = req.delivery /\ req'.outcome = req.outcome
         /\ req'.msg = req.msg /\ req'.matched = req.matched
         /\ req'.ever = ever /\ req'.always = always /\ req'.vouched = vouched /\ req'.barred = barred
    BY <2>2, <2>9, Zenon
  <2> HIDE DEF s
  <2>11. TypeOK'
    BY <1>1, <2>10 DEF IInv, TypeOK
  <2>12. req'.outcome = "none"
    BY <2>1, <2>10 DEF Underway
  <2>13. WishIsCurrent' /\ NoWishMissed'
    BY <2>12 DEF WishIsCurrent, NoWishMissed
  <2>14. Underway(req)'
    BY <2>5, <2>6, <2>7, <2>10, <2>12 DEF Underway, Enabled
  <2>15. InFlight'
    BY <2>14 DEF InFlight
  <2>16. Passed'
    BY <1>1, <2>5, <2>8, <2>10 DEF IInv, Passed
  <2> QED BY <1>1, <1>3, <1>5, <2>10, <2>11, <2>13, <2>15, <2>16 DEF IInv
<1> QED BY <1>4, <1>5

\* Each edit keeps the tables in their types.
LEMMA EditStep ==
  ASSUME IInv,
         \/ \E id \in PatternIds : DeleteWishPattern(id) \/ \E p \in Patterns : SaveWishPattern(id, p)
         \/ \E s \in [token: Credentials \cup {NotSet}, secret: Credentials \cup {NotSet}] : SaveCredentials(s)
         \/ SwitchGroup
  PROVE  IInv'
<1>1. PICK ids \in SUBSET PatternIds : patterns \in [ids -> Storable]
  BY DEF IInv, TypeOK
<1>2. /\ secrets \in [token: Credentials \cup {NotSet}, secret: Credentials \cup {NotSet}]
      /\ watching \in BOOLEAN
  BY DEF IInv, TypeOK
<1>3. ASSUME NEW id \in PatternIds, DeleteWishPattern(id)
      PROVE  IInv'
  <2>1. Edit /\ secrets' = secrets /\ watching' = watching
        /\ patterns' = [other \in DOMAIN patterns \ {id} |-> patterns[other]]
    BY <1>3 DEF DeleteWishPattern
  <2>2. patterns' \in [ids \ {id} -> Storable]
    BY <1>1, <2>1
  <2> QED BY <1>2, <2>1, <2>2, Edited
<1>4. ASSUME NEW id \in PatternIds, NEW p \in Patterns, SaveWishPattern(id, p)
      PROVE  IInv'
  <2> DEFINE row == toModel(p)
  <2>1. Edit /\ secrets' = secrets /\ watching' = watching
        /\ patterns' = [other \in DOMAIN patterns \cup {id} |-> IF other = id THEN row ELSE patterns[other]]
    BY <1>4 DEF SaveWishPattern
  <2>2. row \in Storable
    BY DEF Storable
  <2> HIDE DEF row
  <2>3. patterns' \in [ids \cup {id} -> Storable]
    BY <1>1, <2>1, <2>2
  <2> QED BY <1>2, <2>1, <2>3, Edited
<1>5. ASSUME NEW s \in [token: Credentials \cup {NotSet}, secret: Credentials \cup {NotSet}],
             SaveCredentials(s)
      PROVE  IInv'
  BY <1>1, <1>2, <1>5, Edited DEF SaveCredentials
<1>6. ASSUME SwitchGroup
      PROVE  IInv'
  <2>1. watching' \in BOOLEAN
    BY <1>2, <1>6 DEF SwitchGroup
  <2> QED BY <1>1, <1>2, <1>6, <2>1, Edited DEF SwitchGroup
<1> QED BY <1>3, <1>4, <1>5, <1>6

-----------------------------------------------------------------------------
(* The theorems *)

\* The invariant holds of every reachable state.
LEMMA Invariance == Spec => []IInv
<1>1. IInv /\ [Next]_vars => IInv'
  <2> SUFFICES ASSUME IInv, [Next]_vars
               PROVE  IInv'
    OBVIOUS
  <2>1. CASE UNCHANGED vars
    BY <2>1, Still
  <2>2. ASSUME NEW d \in Deliveries, Deliver(d)
        PROVE  IInv'
    BY <2>2, DeliverStep
  <2>3. CASE Authorise \/ LookUpGroup \/ MatchText \/ RecordWishEvent \/ Fail
    BY <2>3, AuthoriseStep, LookUpStep, MatchStep, RecordStep, FailStep
  <2>4. CASE \/ \E id \in PatternIds : DeleteWishPattern(id) \/ \E p \in Patterns : SaveWishPattern(id, p)
             \/ \E s \in [token: Credentials \cup {NotSet}, secret: Credentials \cup {NotSet}] : SaveCredentials(s)
             \/ SwitchGroup
    BY <2>4, EditStep
  <2> QED BY <2>1, <2>2, <2>3, <2>4 DEF Next
<1> QED BY <1>1, Start, PTL DEF Spec

\* Every variable keeps its type, whatever a gateway delivers and the operator
\* edits: what reaches the wish_events table is a message, a sender and a row.
THEOREM TypeCorrect == Spec => []TypeOK
<1>1. IInv => TypeOK
  BY DEF IInv
<1> QED BY <1>1, Invariance, PTL

\* A recorded wish is what somebody said in the watched group, and its
\* pattern's words are among the message's words: the payload shapes and the
\* normalisation lose and invent nothing, for any alphabet, any texts and any
\* table of patterns.  It is under its writer's name unless the payload named
\* none, and none of the bot's own unless the release writes no flag.
THEOREM WishesAreSaid == Spec => []WishIsWhatWasSaid
<1>1. IInv => WishIsWhatWasSaid
  BY DEF IInv
<1> QED BY <1>1, Invariance, PTL

\* A wish rests on a credential and a pattern that both held while its
\* delivery was in flight.
THEOREM WishesAreCurrent == Spec => []WishIsCurrent
<1>1. IInv => WishIsCurrent
  BY DEF IInv
<1> QED BY <1>1, Invariance, PTL

\* No message that an enabled pattern speaks of all the while is passed over
\* in a watched group, over an authorised delivery that carries its text.
THEOREM NothingIsMissed == Spec => []NoWishMissed
<1>1. IInv => NoWishMissed
  BY DEF IInv
<1> QED BY <1>1, Invariance, PTL
=============================================================================
