-------------------------- MODULE SelectionProofs --------------------------
(***************************************************************************)
(* Theorems of Selection for any templates, contacts and languages: what   *)
(* Pick's loop computes, and from it who gets which template and when the  *)
(* operator sees that English stood in.                                    *)
(***************************************************************************)
EXTENDS Selection, FoldProofs

-----------------------------------------------------------------------------
(* Pick's loop *)

\* The ids of a set that fit the contact as well as any other of the set does.
Best(S, c) ==
  {id \in S : /\ fit(blessings[id], c) # scoreExcluded
              /\ \A other \in S : fit(blessings[other], c) <= fit(blessings[id], c)}

NoTier == [score |-> scoreExcluded, best |-> {}]
Tiers == [score: -1 .. 3, best: SUBSET Ids]

\* A fit is excluded, none, a half, the other half, or both.
LEMMA FitRange ==
  ASSUME NEW b, NEW c
  PROVE  fit(b, c) \in -1 .. 3
BY DEF fit, scoreExcluded, scoreGender, scoreRelation

\* A turn passes the candidate over, starts a tier with it, or adds it to the tier.
LEMMA ConsiderOutcome ==
  ASSUME NEW c, NEW tier \in Tiers, NEW id \in Ids, NEW score, score = fit(blessings[id], c)
  PROVE  \/ score = -1 /\ Consider(c, tier, id) = tier
         \/ /\ score # -1 /\ score > tier.score
            /\ Consider(c, tier, id) = [score |-> score, best |-> {id}]
         \/ /\ score # -1 /\ score = tier.score
            /\ Consider(c, tier, id) = [score |-> tier.score, best |-> tier.best \cup {id}]
         \/ score # -1 /\ score < tier.score /\ Consider(c, tier, id) = tier
<1>1. score \in -1 .. 3 /\ tier.score \in -1 .. 3
  BY FitRange DEF Tiers
<1> QED BY <1>1 DEF Consider, scoreExcluded

\* A turn leaves a tier.
LEMMA ConsiderType ==
  ASSUME NEW c, NEW tier \in Tiers, NEW id \in Ids
  PROVE  Consider(c, tier, id) \in Tiers
<1> DEFINE score == fit(blessings[id], c)
<1>1. score \in -1 .. 3
  BY FitRange
<1>2. \/ Consider(c, tier, id) = tier
      \/ Consider(c, tier, id) = [score |-> score, best |-> {id}]
      \/ Consider(c, tier, id) = [score |-> tier.score, best |-> tier.best \cup {id}]
  BY ConsiderOutcome
<1> HIDE DEF score
<1> QED BY <1>1, <1>2 DEF Tiers

\* Pick's loop over its candidates, from no tier to the best one.
PickLoop(candidates, c) == FoldLeft(LAMBDA tier, id : Consider(c, tier, id), NoTier, candidates)

\* The loop, turn by turn.
LEMMA Loop ==
  ASSUME NEW candidates \in Seq(Ids), NEW c
  PROVE  \E turn : /\ turn[0] = NoTier
                   /\ \A n \in 1 .. Len(candidates) : turn[n] = Consider(c, turn[n - 1], candidates[n])
                   /\ PickLoop(candidates, c) = turn[Len(candidates)]
<1> DEFINE N == Len(candidates)
           step == [i \in 1 .. N |-> [tier \in Tiers |-> Consider(c, tier, candidates[i])]]
           Iterates(f) ==
             f = [s \in SUBSET (1 .. N) |->
                    IF s = {} THEN NoTier ELSE Consider(c, f[s \ {Max(s)}], candidates[Max(s)])]
           iter == CHOOSE f : Iterates(f)
           turn == [n \in 0 .. N |-> iter[1 .. n]]
<1>1. N \in Nat /\ DOMAIN candidates = 1 .. N /\ \A i \in 1 .. N : candidates[i] \in Ids
  OBVIOUS
<1> HIDE DEF N
<1>2. NoTier \in Tiers
  BY DEF NoTier, Tiers, scoreExcluded
<1>3. step \in [1 .. N -> [Tiers -> Tiers]]
  BY <1>1, ConsiderType
<1>4. \E f : Iterates(f)
  <2>1. PICK f : FoldsTo(f, N, Tiers, NoTier, step)
    <3>1. N \in Nat
      BY <1>1
    <3> HIDE DEF step
    <3> QED BY <3>1, <1>2, <1>3, FoldExists, Zenon
  <2> USE <2>1 DEF FoldsTo
  <2>2. ASSUME NEW s \in SUBSET (1 .. N), s # {}
        PROVE  f[s] = Consider(c, f[s \ {Max(s)}], candidates[Max(s)])
    <3>1. Max(s) \in s
      <4>1. s \subseteq 0 .. N
        OBVIOUS
      <4> QED BY <1>1, <2>2, <4>1, MaxOf
    <3>2. Max(s) \in 1 .. N /\ s \ {Max(s)} \in SUBSET (1 .. N)
      BY <3>1
    <3>3. f[s \ {Max(s)}] \in Tiers
      BY <3>2
    <3>4. step[Max(s)][f[s \ {Max(s)}]] = Consider(c, f[s \ {Max(s)}], candidates[Max(s)])
      BY <3>2, <3>3
    <3> QED BY <2>1, <2>2, <3>4
  <2>3. Iterates(f)
    BY <2>1, <2>2
  <2> QED BY <2>3
<1>5. Iterates(iter)
  <2> HIDE DEF Iterates
  <2> QED BY <1>4
<1>6. turn[0] = NoTier
  <2>1. 1 .. 0 = {} /\ {} \in SUBSET (1 .. N)
    OBVIOUS
  <2>2. iter[{}] = NoTier
    <3> HIDE DEF iter
    <3> QED BY <1>5, <2>1
  <2> QED BY <1>1, <2>1, <2>2
<1>7. ASSUME NEW n \in 1 .. N PROVE turn[n] = Consider(c, turn[n - 1], candidates[n])
  <2>1. Max(1 .. n) = n /\ (1 .. n) \ {Max(1 .. n)} = 1 .. n - 1 /\ 1 .. n # {} /\ 1 .. n \in SUBSET (1 .. N)
    BY <1>1, MaxOfPrefix
  <2>2. iter[1 .. n] = Consider(c, iter[1 .. n - 1], candidates[n])
    <3> HIDE DEF iter
    <3> QED BY <1>5, <2>1
  <2> QED BY <1>1, <2>2
<1>8. PickLoop(candidates, c) = turn[N]
  <2>1. PickLoop(candidates, c) = iter[1 .. N]
    BY <1>1 DEF PickLoop, FoldLeft, MapThenFoldSet
  <2>2. iter[1 .. N] = turn[N]
    BY <1>1
  <2> QED BY <2>1, <2>2, Zenon
<1> QED BY <1>6, <1>7, <1>8 DEF N

\* What is known after some turns: the tier holds the best of the candidates
\* seen, at the score they share, which no candidate seen exceeds.
Knows(tier, seen, c) ==
  /\ tier.best = Best(seen, c)
  /\ \A id \in seen : fit(blessings[id], c) <= tier.score
  /\ \A id \in tier.best : fit(blessings[id], c) = tier.score
  /\ tier.best = {} => tier.score = scoreExcluded

\* A turn that knows the best seen so far knows the best with one more seen.
LEMMA OneTurn ==
  ASSUME NEW c, NEW seen \in SUBSET Ids, NEW tier \in Tiers, NEW id \in Ids, Knows(tier, seen, c)
  PROVE  Knows(Consider(c, tier, id), seen \cup {id}, c)
<1> DEFINE score == fit(blessings[id], c)
           all == seen \cup {id}
<1>1. score \in -1 .. 3 /\ tier.score \in -1 .. 3 /\ \A other \in seen : fit(blessings[other], c) \in -1 .. 3
  BY FitRange DEF Tiers
<1>2. ASSUME score = -1 PROVE Knows(tier, all, c)
  <2>1. Best(all, c) = Best(seen, c)
    BY <1>1, <1>2 DEF Best, scoreExcluded
  <2> QED BY <2>1, <1>1, <1>2 DEF Knows, scoreExcluded
<1>3. ASSUME score # -1, score > tier.score PROVE Knows([score |-> score, best |-> {id}], all, c)
  <2>1. \A other \in seen : fit(blessings[other], c) < score
    BY <1>1, <1>3 DEF Knows
  <2>2. Best(all, c) = {id}
    BY <1>1, <1>3, <2>1 DEF Best, scoreExcluded
  <2>3. \A other \in all : fit(blessings[other], c) <= score
    BY <1>1, <2>1
  <2> HIDE DEF all, score
  <2>4. fit(blessings[id], c) = score
    BY DEF score
  <2> QED BY <2>2, <2>3, <2>4 DEF Knows
<1>4. ASSUME score # -1, score = tier.score
      PROVE  Knows([score |-> tier.score, best |-> tier.best \cup {id}], all, c)
  <2>1. Best(all, c) = tier.best \cup {id}
    BY <1>1, <1>4 DEF Best, Knows, scoreExcluded
  <2>2. \A other \in all : fit(blessings[other], c) <= tier.score
    BY <1>1, <1>4 DEF Knows
  <2>3. \A other \in tier.best \cup {id} : fit(blessings[other], c) = tier.score
    BY <1>4 DEF Knows
  <2> HIDE DEF all, score
  <2> QED BY <2>1, <2>2, <2>3 DEF Knows
<1>5. ASSUME score # -1, score < tier.score PROVE Knows(tier, all, c)
  <2>1. tier.best # {}
    BY <1>1, <1>5 DEF Knows, scoreExcluded
  <2>2. Best(all, c) = Best(seen, c)
    BY <1>1, <1>5, <2>1 DEF Best, Knows, scoreExcluded
  <2>3. \A other \in all : fit(blessings[other], c) <= tier.score
    BY <1>1, <1>5 DEF Knows
  <2> HIDE DEF all, score
  <2> QED BY <2>1, <2>2, <2>3 DEF Knows
<1>6. \/ score = -1 /\ Consider(c, tier, id) = tier
      \/ /\ score # -1 /\ score > tier.score
         /\ Consider(c, tier, id) = [score |-> score, best |-> {id}]
      \/ /\ score # -1 /\ score = tier.score
         /\ Consider(c, tier, id) = [score |-> tier.score, best |-> tier.best \cup {id}]
      \/ score # -1 /\ score < tier.score /\ Consider(c, tier, id) = tier
  BY ConsiderOutcome
<1> HIDE DEF score, all
<1>7. Knows(Consider(c, tier, id), all, c)
  BY <1>2, <1>3, <1>4, <1>5, <1>6
<1> QED BY <1>7 DEF all

\* Pick chooses among the best of its candidates, in whatever order they come.
LEMMA PickFindsBest ==
  ASSUME NEW candidates \in Seq(Ids), NEW c, NEW avoid
  PROVE  Pick(candidates, c, avoid) =
           LET best == Best(ToSet(candidates), c)
           IN IF Cardinality(best) > 1 THEN best \ {avoid} ELSE best
<1> DEFINE N == Len(candidates)
           Seen(n) == {candidates[i] : i \in 1 .. n}
<1>1. N \in Nat /\ DOMAIN candidates = 1 .. N /\ \A i \in 1 .. N : candidates[i] \in Ids
  OBVIOUS
<1>2. PICK turn : /\ turn[0] = NoTier
                  /\ \A n \in 1 .. Len(candidates) : turn[n] = Consider(c, turn[n - 1], candidates[n])
                  /\ PickLoop(candidates, c) = turn[Len(candidates)]
  BY Loop, Zenon
<1>a. \A n \in 1 .. N : turn[n] = Consider(c, turn[n - 1], candidates[n])
  BY <1>2, Zenon
<1>b. PickLoop(candidates, c) = turn[N]
  BY <1>2, Zenon
<1>c. turn[0] = NoTier
  BY <1>2, Zenon
<1> DEFINE P(n) == n <= N => turn[n] \in Tiers /\ Knows(turn[n], Seen(n), c)
           I == {n \in Nat : P(n)}
<1> HIDE DEF N
<1>3. P(0)
  <2>1. Seen(0) = {}
    OBVIOUS
  <2>2. NoTier \in Tiers /\ Knows(NoTier, {}, c)
    BY DEF NoTier, Tiers, Knows, Best, scoreExcluded
  <2> QED BY <1>c, <2>1, <2>2
<1>4. ASSUME NEW n \in Nat, P(n) PROVE P(n + 1)
  <2>1. SUFFICES ASSUME n + 1 <= N PROVE turn[n + 1] \in Tiers /\ Knows(turn[n + 1], Seen(n + 1), c)
    OBVIOUS
  <2>2. n + 1 \in 1 .. N /\ n <= N
    BY <1>1, <2>1
  <2>3. turn[n + 1] = Consider(c, turn[n], candidates[n + 1]) /\ candidates[n + 1] \in Ids
    <3>1. turn[n + 1] = Consider(c, turn[(n + 1) - 1], candidates[n + 1])
      BY <1>a, <2>2, Zenon
    <3>2. (n + 1) - 1 = n
      OBVIOUS
    <3> QED BY <1>1, <2>2, <3>1, <3>2, Zenon
  <2>4. Seen(n) \in SUBSET Ids /\ Seen(n + 1) = Seen(n) \cup {candidates[n + 1]}
    <3>1. Seen(n) \in SUBSET Ids
      BY <1>1, <2>2
    <3>2. 1 .. n + 1 = (1 .. n) \cup {n + 1}
      OBVIOUS
    <3> QED BY <3>1, <3>2
  <2>5. turn[n] \in Tiers /\ Knows(turn[n], Seen(n), c)
    BY <1>4, <2>2
  <2> HIDE DEF Seen
  <2> QED BY <2>3, <2>4, <2>5, ConsiderType, OneTurn
<1>5. P(N)
  <2>1. 0 \in I /\ \A n \in Nat : n \in I => n + 1 \in I
    <3> HIDE DEF P
    <3> QED BY <1>3, <1>4
  <2>2. N \in I
    <3> HIDE DEF I
    <3> QED BY <1>1, <2>1, Inductive
  <2> HIDE DEF P
  <2> QED BY <2>2
<1>6. turn[N].best = Best(ToSet(candidates), c)
  <2>1. Seen(N) = ToSet(candidates)
    BY <1>1 DEF ToSet
  <2>2. Knows(turn[N], Seen(N), c)
    BY <1>1, <1>5
  <2> QED BY <2>1, <2>2 DEF Knows
<1>7. Pick(candidates, c, avoid) =
        LET best == turn[N].best IN IF Cardinality(best) > 1 THEN best \ {avoid} ELSE best
  BY <1>b, Zenon DEF Pick, PickLoop, NoTier
<1> QED BY <1>6, <1>7

-----------------------------------------------------------------------------
(* Who is a candidate, and who is closest *)

\* FindBlessings returns the enabled templates of one language, each of them.
LEMMA Found ==
  ASSUME NEW language
  PROVE  /\ FindBlessings(language) \in Seq(Ids)
         /\ ToSet(FindBlessings(language)) =
              {id \in Live : blessings[id].enabled /\ blessings[id].language = language}
<1> DEFINE S == {id \in Live : blessings[id].enabled /\ blessings[id].language = language}
<1>1. S \subseteq Ids /\ IsFiniteSet(Ids)
  BY IdsAssumption DEF Live
<1>2. IsFiniteSet(S)
  <2> HIDE DEF S
  <2> QED BY <1>1, FS_Subset
<1>3. SetToSeq(S) \in Seq(S) /\ ToSet(SetToSeq(S)) = S
  <2> HIDE DEF S
  <2> QED BY <1>2, EnumerationOf
<1>4. FindBlessings(language) = SetToSeq(S)
  BY DEF FindBlessings
<1> HIDE DEF S
<1>5. SetToSeq(S) \in Seq(Ids)
  BY <1>1, <1>3
<1> QED BY <1>3, <1>4, <1>5 DEF S

\* A score is an exclusion exactly when the template does not suit, and among
\* templates that suit it orders as the reference does.
LEMMA ScoresAgree ==
  ASSUME NEW b, NEW d, NEW c
  PROVE  /\ fit(b, c) # scoreExcluded <=> Suits(b, c)
         /\ Suits(b, c) /\ Suits(d, c) => (fit(b, c) > fit(d, c) <=> Closer(b, d))
BY DEF fit, Suits, Closer, scoreExcluded, scoreGender, scoreRelation

\* The best scores are the templates with nothing closer.
LEMMA BestIsClosest ==
  ASSUME NEW language, NEW c
  PROVE  Best(ToSet(FindBlessings(language)), c) = Closest(language, c)
<1> DEFINE S == {id \in Live : blessings[id].enabled /\ blessings[id].language = language}
           T == {id \in S : Suits(blessings[id], c)}
<1>1. Closest(language, c) = {id \in T : ~\E other \in T : Closer(blessings[other], blessings[id])}
  BY DEF Closest
<1>2. ToSet(FindBlessings(language)) = S
  BY Found
<1> HIDE DEF S
<1>3. ASSUME NEW id \in S
      PROVE  id \in Best(S, c) <=> id \in T /\ ~\E other \in T : Closer(blessings[other], blessings[id])
  <2>1. fit(blessings[id], c) # scoreExcluded <=> id \in T
    BY ScoresAgree
  <2>2. fit(blessings[id], c) \in -1 .. 3
    BY FitRange
  <2>3. ASSUME id \in T, NEW other \in S
        PROVE  fit(blessings[other], c) <= fit(blessings[id], c)
                 <=> ~(other \in T /\ Closer(blessings[other], blessings[id]))
    <3>1. fit(blessings[other], c) \in -1 .. 3
      BY FitRange
    <3>2. CASE other \in T
      <4>1. fit(blessings[other], c) > fit(blessings[id], c) <=> Closer(blessings[other], blessings[id])
        BY <2>3, <3>2, ScoresAgree
      <4> QED BY <2>2, <3>1, <3>2, <4>1
    <3>3. CASE other \notin T
      <4>1. fit(blessings[other], c) = -1 /\ fit(blessings[id], c) # -1
        BY <2>1, <2>3, <3>3, ScoresAgree DEF scoreExcluded
      <4> QED BY <2>2, <3>3, <4>1
    <3> QED BY <3>2, <3>3
  <2>4. T \subseteq S
    OBVIOUS
  <2> HIDE DEF T
  <2>5. CASE id \in T
    <3>1. (\A other \in S : fit(blessings[other], c) <= fit(blessings[id], c))
            <=> ~\E other \in T : Closer(blessings[other], blessings[id])
      BY <2>3, <2>4, <2>5
    <3> QED BY <2>1, <2>5, <3>1 DEF Best
  <2>6. CASE id \notin T
    BY <2>1, <2>6 DEF Best
  <2> QED BY <2>5, <2>6
<1>4. Best(S, c) \subseteq S /\ T \subseteq S
  BY DEF Best
<1> HIDE DEF T
<1> QED BY <1>1, <1>2, <1>3, <1>4

\* What Pick does with the best tier: last year's template only when alone.
Fresh(tier, avoid) == IF tier = {avoid} THEN tier ELSE tier \ {avoid}

\* There are finitely many, all of them templates that exist.
LEMMA ClosestIsSmall ==
  ASSUME NEW language, NEW c
  PROVE  Closest(language, c) \subseteq Live /\ IsFiniteSet(Closest(language, c))
<1>1. Closest(language, c) \subseteq Live /\ Live \subseteq Ids /\ IsFiniteSet(Ids)
  BY IdsAssumption DEF Closest, Live
<1>2. Closest(language, c) \subseteq Ids
  BY <1>1
<1> QED BY <1>1, <1>2, FS_Subset

\* Pick leaves out what was sent last year, unless nothing else is as close.
LEMMA PickIsFresh ==
  ASSUME NEW language, NEW c, NEW avoid
  PROVE  Pick(FindBlessings(language), c, avoid) = Fresh(Closest(language, c), avoid)
<1> DEFINE tier == Closest(language, c)
<1>1. Pick(FindBlessings(language), c, avoid) = IF Cardinality(tier) > 1 THEN tier \ {avoid} ELSE tier
  <2>1. FindBlessings(language) \in Seq(Ids)
    BY Found
  <2> QED BY <2>1, PickFindsBest, BestIsClosest
<1>2. IsFiniteSet(tier)
  BY ClosestIsSmall
<1> HIDE DEF tier
<1>3. CASE Cardinality(tier) > 1
  <2>1. Cardinality({avoid}) = 1
    BY FS_Singleton
  <2>2. tier # {avoid}
    BY <1>3, <2>1
  <2> QED BY <1>1, <1>3, <2>2 DEF Fresh, tier
<1>4. CASE ~(Cardinality(tier) > 1)
  <2>1. Cardinality(tier) \in Nat
    BY <1>2, FS_CardinalityType
  <2>2. Cardinality(tier) = 0 \/ Cardinality(tier) = 1
    BY <1>4, <2>1
  <2>3. tier = {} \/ \E x : tier = {x}
    BY <1>2, <2>2, FS_EmptySet, FS_Singleton
  <2>4. tier = Fresh(tier, avoid)
    BY <2>3 DEF Fresh
  <2> QED BY <1>1, <1>4, <2>4 DEF tier
<1> QED BY <1>3, <1>4

\* Leaving that out never leaves nothing to send.
LEMMA FreshIsSome ==
  ASSUME NEW tier, NEW avoid
  PROVE  (Fresh(tier, avoid) = {} <=> tier = {}) /\ Fresh(tier, avoid) \subseteq tier
BY DEF Fresh

\* ForContact falls back on English exactly when its language has nothing that fits.
LEMMA Choice ==
  ASSUME NEW c, NEW avoid
  PROVE  /\ ForContact(c, avoid) =
              Fresh(IF Closest(c.language, c) # {} THEN Closest(c.language, c)
                    ELSE Closest(FallbackLanguage, c), avoid)
         /\ ForContact(c, avoid) \subseteq Live
<1>1. Pick(FindBlessings(c.language), c, avoid) = Fresh(Closest(c.language, c), avoid)
  BY PickIsFresh
<1>2. Pick(FindBlessings(FallbackLanguage), c, avoid) = Fresh(Closest(FallbackLanguage, c), avoid)
  BY PickIsFresh
<1>3. ForContact(c, avoid) = IF Fresh(Closest(c.language, c), avoid) # {} THEN Fresh(Closest(c.language, c), avoid)
                             ELSE Fresh(Closest(FallbackLanguage, c), avoid)
  BY <1>1, <1>2, Zenon DEF ForContact
<1>4. Closest(c.language, c) \subseteq Live /\ Closest(FallbackLanguage, c) \subseteq Live
  BY ClosestIsSmall
<1> QED BY <1>3, <1>4, FreshIsSome

\* A text reads the same for every reader exactly when nobody's name is missing
\* in it.
LEMMA SameForAll ==
  ASSUME NEW text \in Seq(STRING)
  PROVE  (\A r \in Readers : Render(text, r) = text) <=> ~HasNamePlaceholder(text)
<1>1. /\ text = [i \in DOMAIN text |-> text[i]]
      /\ HasNamePlaceholder(text) <=> \E i \in DOMAIN text : text[i] = NamePlaceholder
  BY DEF HasNamePlaceholder, ToSet
<1>2. ASSUME ~HasNamePlaceholder(text), NEW r \in Readers PROVE Render(text, r) = text
  BY <1>1, <1>2 DEF Render
<1>3. ASSUME HasNamePlaceholder(text) PROVE \E r \in Readers : Render(text, r) # text
  <2>1. PICK r \in Readers : r.name # NamePlaceholder
    BY ReadersAssumption
  <2>2. PICK i \in DOMAIN text : text[i] = NamePlaceholder
    BY <1>1, <1>3
  <2>3. Render(text, r)[i] # text[i]
    BY <2>1, <2>2 DEF Render
  <2> QED BY <2>3
<1> QED BY <1>2, <1>3

\* A template suits every reader exactly when it is for any gender and relation.
LEMMA SuitsAll ==
  ASSUME NEW b \in Templates
  PROVE  (\A r \in Readers : Suits(b, r)) <=> b.gender = Anyone /\ b.relation = Anyone
<1>1. ASSUME \A r \in Readers : Suits(b, r) PROVE b.gender = Anyone /\ b.relation = Anyone
  <2>1. PICK r \in Readers : r.gender # b.gender
    BY ReadersAssumption
  <2>2. PICK s \in Readers : s.relation # b.relation
    BY ReadersAssumption
  <2> QED BY <1>1, <2>1, <2>2 DEF Suits
<1>2. ASSUME b.gender = Anyone, b.relation = Anyone, NEW r \in Readers PROVE Suits(b, r)
  BY <1>2 DEF Suits
<1> QED BY <1>1, <1>2

\* The filter on the fields keeps exactly the texts that everybody can read as
\* their own.
LEMMA NameFree ==
  ASSUME TypeOK, NEW language
  PROVE  pickNameFree(language) = Everybodys(language)
<1> DEFINE S == {id \in Live : blessings[id].enabled /\ blessings[id].language = language}
<1>1. ASSUME NEW id \in Live
      PROVE  (\A r \in Readers : Suits(blessings[id], r) /\ Render(blessings[id].text, r) = blessings[id].text)
               <=> /\ ~HasNamePlaceholder(blessings[id].text)
                   /\ blessings[id].gender = Anyone /\ blessings[id].relation = Anyone
  <2>1. blessings[id] \in Templates /\ blessings[id].text \in Seq(STRING)
    BY TemplateAssumption DEF TypeOK, Live
  <2> QED BY <2>1, SameForAll, SuitsAll, Zenon
<1>2. ToSet(FindBlessings(language)) = S
  BY Found
<1> QED BY <1>1, <1>2 DEF pickNameFree, Everybodys

-----------------------------------------------------------------------------
(* The invariant *)

\* English stands in, by the reference and by the code's own condition.
LEMMA SendStandsIn ==
  StandsIn(contact.language, LAMBDA l : Closest(l, contact))
    <=> /\ Pick(FindBlessings(contact.language), contact, last) = {}
        /\ ForContact(contact, last) # {}
        /\ contact.language # FallbackLanguage
<1>1. Pick(FindBlessings(contact.language), contact, last) = {} <=> Closest(contact.language, contact) = {}
  BY PickIsFresh, FreshIsSome
<1>2. ForContact(contact, last) = {} <=> Closest(contact.language, contact) = {} /\ Closest(FallbackLanguage, contact) = {}
  BY Choice, FreshIsSome
<1>3. StandsIn(contact.language, LAMBDA l : Closest(l, contact))
        <=> /\ contact.language # FallbackLanguage
            /\ Closest(contact.language, contact) = {} /\ Closest(FallbackLanguage, contact) # {}
  BY Zenon DEF StandsIn
<1> QED BY <1>1, <1>2, <1>3

\* English stands in for a group exactly when its own language has no such template.
LEMMA EchoStandsIn ==
  ASSUME TypeOK, NEW language
  PROVE  StandsIn(language, Everybodys)
           <=> /\ pickNameFree(language) = {}
               /\ ForGroup(language) # {}
               /\ language # FallbackLanguage
<1>1. pickNameFree(language) = Everybodys(language) /\ pickNameFree(FallbackLanguage) = Everybodys(FallbackLanguage)
  BY NameFree
<1>2. StandsIn(language, Everybodys)
        <=> /\ language # FallbackLanguage
            /\ Everybodys(language) = {} /\ Everybodys(FallbackLanguage) # {}
  BY Zenon DEF StandsIn
<1> QED BY <1>1, <1>2 DEF ForGroup

IInv == TypeOK /\ FallbackShows

\* A notice is raised exactly when the history has English stand in.
LEMMA NoticeFollows ==
  ASSUME IInv, NEW language \in Languages, NEW own, NEW chosen, NEW standsIn \in BOOLEAN,
         FallbackNotice(language, own, chosen, standsIn),
         standsIn <=> own = {} /\ chosen # {} /\ language # FallbackLanguage
  PROVE  /\ notices' \in [Languages -> NoticeStates]
         /\ unread' \subseteq Languages
         /\ FallbackShows'
<1>1. \/ notices' = [notices EXCEPT ![language] = "active"] /\ unread' = unread \cup {language}
      \/ notices' = notices /\ unread' = unread
  BY DEF FallbackNotice, RaiseNotice
<1> QED BY <1>1 DEF IInv, TypeOK, FallbackShows, NoticeStates

\* Every initial state satisfies the invariant.
LEMMA Start == Init => IInv
BY IdsAssumption DEF Init, IInv, TypeOK, FallbackShows, NoticeStates, Live

\* Every step keeps it.
LEMMA Step == IInv /\ [Next]_vars => IInv'
<1> SUFFICES ASSUME IInv, [Next]_vars PROVE IInv'
  OBVIOUS
<1> USE DEF IInv
<1>1. CASE Send
  <2> DEFINE own == Pick(FindBlessings(contact.language), contact, last)
             chosen == ForContact(contact, last)
             standsIn == StandsIn(contact.language, LAMBDA l : Closest(l, contact))
  <2>1. last' \in chosen \cup {last} /\ FallbackNotice(contact.language, own, chosen, standsIn)
        /\ UNCHANGED <<blessings, contact, edits>>
    BY <1>1, Zenon DEF Send
  <2>2. chosen \subseteq Live
    BY Choice
  <2>3. standsIn <=> own = {} /\ chosen # {} /\ contact.language # FallbackLanguage
    BY SendStandsIn, Zenon
  <2>4. standsIn \in BOOLEAN
    BY Zenon DEF StandsIn
  <2>5. contact.language \in Languages
    BY DEF TypeOK, Languages
  <2> HIDE DEF own, chosen, standsIn
  <2>6. notices' \in [Languages -> NoticeStates] /\ unread' \subseteq Languages /\ FallbackShows'
    BY <2>1, <2>3, <2>4, <2>5, NoticeFollows, Zenon
  <2>7. last' \in Live \cup {None}
    BY <2>1, <2>2 DEF TypeOK
  <2> QED BY <2>1, <2>6, <2>7 DEF TypeOK, Live
<1>2. ASSUME NEW language \in Languages, Echo(language) PROVE IInv'
  <2>1. FallbackNotice(language, pickNameFree(language), ForGroup(language), StandsIn(language, Everybodys))
        /\ UNCHANGED <<blessings, contact, last, edits>>
    BY <1>2, Zenon DEF Echo
  <2> DEFINE standsIn == StandsIn(language, Everybodys)
  <2>2. standsIn <=> pickNameFree(language) = {} /\ ForGroup(language) # {} /\ language # FallbackLanguage
    BY EchoStandsIn, Zenon
  <2>3. standsIn \in BOOLEAN
    BY Zenon DEF StandsIn
  <2>4. FallbackNotice(language, pickNameFree(language), ForGroup(language), standsIn)
    BY <2>1, Zenon
  <2> HIDE DEF standsIn
  <2>5. notices' \in [Languages -> NoticeStates] /\ unread' \subseteq Languages /\ FallbackShows'
    BY <2>2, <2>3, <2>4, NoticeFollows, Zenon
  <2> QED BY <2>1, <2>5 DEF TypeOK, Live
<1>3. ASSUME NEW language \in Languages, DismissNotice(language) PROVE IInv'
  BY <1>3 DEF DismissNotice, TypeOK, FallbackShows, NoticeStates, Live
<1>4. ASSUME NEW id \in Ids, DeleteBlessing(id) PROVE IInv'
  BY <1>4, IdsAssumption DEF DeleteBlessing, TypeOK, FallbackShows, Live
<1>5. ASSUME NEW id \in Ids, NEW template \in Templates, SaveBlessing(id, template) PROVE IInv'
  BY <1>5, IdsAssumption DEF SaveBlessing, TypeOK, FallbackShows, Live
<1>6. ASSUME NEW c \in Contacts, UpdateContact(c) PROVE IInv'
  BY <1>6, IdsAssumption DEF UpdateContact, TypeOK, FallbackShows, Live
<1>7. CASE UNCHANGED vars
  BY <1>7 DEF vars, TypeOK, FallbackShows, Live
<1> QED BY <1>1, <1>2, <1>3, <1>4, <1>5, <1>6, <1>7 DEF Next

\* The invariant holds of every reachable state.
LEMMA Always == Spec => []IInv
BY Start, Step, PTL DEF Spec

-----------------------------------------------------------------------------
(* Theorems *)

\* The last template of a scheduled send is always one that exists, and the
\* tables hold only what they may: deleting a template empties the send log's
\* reference to it, and a choice is a live template.
THEOREM TypeCorrect == Spec => []TypeOK
BY Always, PTL DEF IInv

\* Whatever the templates, the table and the edits, a contact's next send uses
\* one of the closest templates of its language, or of English when that has
\* none, and last year's only when it is the only closest one.
THEOREM ClosestIsSent == Spec => []ContactGetsClosest
<1>1. ContactGetsClosest
  BY Choice DEF ContactGetsClosest, Fresh
<1> QED BY <1>1, PTL

\* What a group's echo posts as it stands is a text every reader could have been
\* sent as their own, whatever the templates and the readers, and one is found
\* whenever the group's language or English has one: the filter on the fields
\* and the placeholder is neither too wide nor too narrow for the text.
THEOREM GroupsStayImpersonal == Spec => []GroupTextSuitsEveryone
<1>1. TypeOK => GroupTextSuitsEveryone
  <2> SUFFICES ASSUME TypeOK, NEW language \in Languages
               PROVE  ForGroup(language) = IF Everybodys(language) # {} THEN Everybodys(language)
                                           ELSE Everybodys(FallbackLanguage)
    BY DEF GroupTextSuitsEveryone
  <2> QED BY NameFree DEF ForGroup
<1> QED BY <1>1, TypeCorrect, PTL

\* The operator sees the notice of a language exactly when English has stood
\* in for it since the notice was last dismissed.
THEOREM FallbackIsShown == Spec => []FallbackShows
BY Always, PTL DEF IInv
=============================================================================
