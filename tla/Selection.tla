----------------------------- MODULE Selection -----------------------------
(***************************************************************************)
(* internal/service/blessing over the blessings table: which template a    *)
(* contact's send (Selector.ForContact) and a group's echo (ForGroup) use, *)
(* and the notice the operator gets when English stands in for a language. *)
(* One contact and one event type; a template of another event type is     *)
(* never a candidate, like a disabled one.                                 *)
(***************************************************************************)
EXTENDS Integers, FiniteSets, SequencesExt

CONSTANTS
  Ids,          \* blessing ids
  Templates,    \* the templates in use, [language, gender, relation, text, enabled],
                \* where a text is a sequence of pieces
  Contacts,     \* the contact's possible rows, [language, gender, relation]
  Readers,      \* whoever may read a group's echo, [gender, relation, name]
  NamePlaceholder,  \* the piece of a text that stands for a name
  Anyone,       \* a template's gender or relation that is NULL
  Missing,      \* a blessing id with no row
  None,         \* no blessing
  MaxEdits      \* bound on operator edits

FallbackLanguage == "en"
scoreGender == 2
scoreRelation == 1
scoreExcluded == -1

ASSUME IdsAssumption == IsFiniteSet(Ids) /\ MaxEdits \in Nat /\ None \notin Ids /\ Missing \notin Templates
ASSUME TemplateAssumption == \A b \in Templates : b.enabled \in BOOLEAN /\ b.text \in Seq(STRING)
\* The CHECK constraints know three genders and four relations: none is
\* everybody's, and somebody has a name of their own.
ASSUME ReadersAssumption ==
  /\ \A b \in Templates : \E r \in Readers : r.gender # b.gender
  /\ \A b \in Templates : \E r \in Readers : r.relation # b.relation
  /\ \E r \in Readers : r.name # NamePlaceholder

VARIABLES
  blessings,  \* the blessings table
  contact,    \* the contact's row
  last,       \* LastScheduledBlessing of the contact
  notices,    \* the notices table: the language_fallback row of each language
  edits,      \* operator edits so far
  unread      \* history: languages English stood in for, and the table
              \* recorded it, since the operator last dismissed their notice

vars == <<blessings, contact, last, notices, edits, unread>>

Languages == {c.language : c \in Contacts}
NoticeStates == {"absent", "active", "dismissed"}
Live == {id \in Ids : blessings[id] # Missing}

\* The send log names no template that is gone (ON DELETE SET NULL).
TypeOK ==
  /\ blessings \in [Ids -> Templates \cup {Missing}]
  /\ contact \in Contacts
  /\ last \in Live \cup {None}
  /\ notices \in [Languages -> NoticeStates]
  /\ unread \subseteq Languages
  /\ edits \in 0 .. MaxEdits

Init ==
  /\ blessings \in [Ids -> Templates \cup {Missing}]
  /\ contact \in Contacts
  /\ last = None
  /\ notices = [language \in Languages |-> "absent"]
  /\ unread = {}
  /\ edits = 0

-----------------------------------------------------------------------------
\* A text filled in for one contact.
Render(text, c) == [i \in DOMAIN text |-> IF text[i] = NamePlaceholder THEN c.name ELSE text[i]]

HasNamePlaceholder(text) == NamePlaceholder \in ToSet(text)

\* Mutant: relation outranks gender.
fitRelationFirst(b, c) ==
  IF b.gender \notin {Anyone, c.gender} \/ b.relation \notin {Anyone, c.relation} THEN scoreExcluded
  ELSE (IF b.gender = Anyone THEN 0 ELSE scoreRelation) + (IF b.relation = Anyone THEN 0 ELSE scoreGender)

fit(b, c) ==
  IF b.gender \notin {Anyone, c.gender} \/ b.relation \notin {Anyone, c.relation} THEN scoreExcluded
  ELSE (IF b.gender = Anyone THEN 0 ELSE scoreGender) + (IF b.relation = Anyone THEN 0 ELSE scoreRelation)

\* The enabled templates of a language, in an order that decides nothing.
FindBlessings(language) ==
  SetToSeq({id \in Live : blessings[id].enabled /\ blessings[id].language = language})

\* One turn of Pick's loop: the best tier so far and its score.
Consider(c, tier, id) ==
  LET score == fit(blessings[id], c)
  IN IF score = scoreExcluded \/ score < tier.score THEN tier
     ELSE [score |-> score, best |-> IF score > tier.score THEN {id} ELSE tier.best \cup {id}]

\* The templates Pick may return (pickIndex is random); {} is nil.
Pick(candidates, c, avoid) ==
  LET best == FoldLeft(LAMBDA tier, id : Consider(c, tier, id),
                       [score |-> scoreExcluded, best |-> {}], candidates).best
  IN IF Cardinality(best) > 1 THEN best \ {avoid} ELSE best

\* The templates ForContact may return; {} is ErrNoBlessing.
ForContact(c, avoid) ==
  LET own == Pick(FindBlessings(c.language), c, avoid)
  IN IF own # {} THEN own ELSE Pick(FindBlessings(FallbackLanguage), c, avoid)

\* Mutant: a template that addresses somebody by name qualifies.
pickUntargeted(language) ==
  {id \in ToSet(FindBlessings(language)) :
     blessings[id].gender = Anyone /\ blessings[id].relation = Anyone}

pickNameFree(language) ==
  {id \in ToSet(FindBlessings(language)) :
     /\ ~HasNamePlaceholder(blessings[id].text)
     /\ blessings[id].gender = Anyone /\ blessings[id].relation = Anyone}

ForGroup(language) ==
  IF pickNameFree(language) # {} THEN pickNameFree(language) ELSE pickNameFree(FallbackLanguage)

-----------------------------------------------------------------------------
(* Reference definitions, for the properties and the history *)

\* b suits c, and b is closer to c than d is.
Suits(b, c) == b.gender \in {Anyone, c.gender} /\ b.relation \in {Anyone, c.relation}
Closer(b, d) ==
  \/ b.gender # Anyone /\ d.gender = Anyone
  \/ (b.gender = Anyone <=> d.gender = Anyone) /\ b.relation # Anyone /\ d.relation = Anyone

\* The templates of a language nothing suits the contact better than.
Closest(language, c) ==
  LET suiting == {id \in Live : /\ blessings[id].enabled /\ blessings[id].language = language
                                /\ Suits(blessings[id], c)}
  IN {id \in suiting : ~\E other \in suiting : Closer(blessings[other], blessings[id])}

\* The templates of a language that can be posted as they stand: each reader
\* could have been sent this text, filled in, as a blessing of their own.
Everybodys(language) ==
  {id \in Live : /\ blessings[id].enabled /\ blessings[id].language = language
                 /\ \A r \in Readers : /\ Suits(blessings[id], r)
                                       /\ Render(blessings[id].text, r) = blessings[id].text}

\* English serves a language that has no template of its own.
StandsIn(language, Of(_)) ==
  language # FallbackLanguage /\ Of(language) = {} /\ Of(FallbackLanguage) # {}

-----------------------------------------------------------------------------
\* Mutant: ON CONFLICT keeps dismissed_at.
RaiseNoticeOnce(language) ==
  notices' = [notices EXCEPT ![language] = IF @ = "absent" THEN "active" ELSE @]

RaiseNotice(language) == notices' = [notices EXCEPT ![language] = "active"]

\* raiseFallbackNotice, when the language has no template and English has;
\* losing the notice is logged and ignored. The history goes by standsIn, the
\* reference's word on whether English stood in.
FallbackNotice(language, own, chosen, standsIn) ==
  \E recorded \in BOOLEAN :
    /\ IF recorded /\ own = {} /\ chosen # {} /\ language # FallbackLanguage
       THEN RaiseNotice(language) ELSE UNCHANGED notices
    /\ unread' = IF recorded /\ standsIn THEN unread \cup {language} ELSE unread

\* A scheduled send: ForContact chooses before anything is sent, and deliver
\* logs the template when the send succeeds. A failed send, and ErrNoBlessing,
\* leave LastScheduledBlessing as it was.
Send ==
  LET own == Pick(FindBlessings(contact.language), contact, last)
      chosen == ForContact(contact, last)
  IN /\ last' \in chosen \cup {last}
     /\ FallbackNotice(contact.language, own, chosen,
                       StandsIn(contact.language, LAMBDA l : Closest(l, contact)))
     /\ UNCHANGED <<blessings, contact, edits>>

\* A group's echo: postEcho asks ForGroup, and its row is no scheduled send's.
Echo(language) ==
  /\ FallbackNotice(language, pickNameFree(language), ForGroup(language), StandsIn(language, Everybodys))
  /\ UNCHANGED <<blessings, contact, last, edits>>

\* dismissNotice: a notice that is absent or dismissed already is not found.
DismissNotice(language) ==
  /\ notices[language] = "active"
  /\ notices' = [notices EXCEPT ![language] = "dismissed"]
  /\ unread' = unread \ {language}
  /\ UNCHANGED <<blessings, contact, last, edits>>

\* CreateBlessing, UpdateBlessing.
SaveBlessing(id, template) ==
  /\ edits < MaxEdits /\ edits' = edits + 1
  /\ blessings' = [blessings EXCEPT ![id] = template]
  /\ UNCHANGED <<contact, last, notices, unread>>

\* Mutant: the send log keeps the id of a deleted template.
DeleteBlessingKeepingLog(id) ==
  /\ id \in Live
  /\ edits < MaxEdits /\ edits' = edits + 1
  /\ blessings' = [blessings EXCEPT ![id] = Missing]
  /\ UNCHANGED <<contact, last, notices, unread>>

\* DeleteBlessing: the contact's newest send_log row loses its blessing, and
\* LastScheduledBlessing then answers nil rather than an older row's.
DeleteBlessing(id) ==
  /\ id \in Live
  /\ edits < MaxEdits /\ edits' = edits + 1
  /\ blessings' = [blessings EXCEPT ![id] = Missing]
  /\ last' = IF last = id THEN None ELSE last
  /\ UNCHANGED <<contact, notices, unread>>

UpdateContact(c) ==
  /\ edits < MaxEdits /\ edits' = edits + 1
  /\ contact' = c
  /\ UNCHANGED <<blessings, last, notices, unread>>

Next ==
  \/ Send
  \/ \E language \in Languages : Echo(language) \/ DismissNotice(language)
  \/ \E id \in Ids : DeleteBlessing(id) \/ \E template \in Templates : SaveBlessing(id, template)
  \/ \E c \in Contacts : UpdateContact(c)

Spec == Init /\ [][Next]_vars

-----------------------------------------------------------------------------
(* Properties *)

\* Pick's running maximum and the language fallback choose exactly the closest
\* templates of the contact's language, or of English when that has none, and
\* repeat last year's only when it is the only one of them.
ContactGetsClosest ==
  LET tier == IF Closest(contact.language, contact) # {}
              THEN Closest(contact.language, contact)
              ELSE Closest(FallbackLanguage, contact)
  IN ForContact(contact, last) = IF tier = {last} THEN tier ELSE tier \ {last}

\* postEcho sends a template's text as it stands, with nobody to render it for:
\* ForGroup offers exactly the templates of the group's language that every
\* reader could have been sent word for word, whatever their gender, relation
\* and name, and English ones exactly when the language has none.
GroupTextSuitsEveryone ==
  \A language \in Languages :
    ForGroup(language) = IF Everybodys(language) # {} THEN Everybodys(language)
                         ELSE Everybodys(FallbackLanguage)

\* The notice of a language is on display exactly when English stood in for it
\* since the operator last dismissed it: a recurrence reopens a dismissed
\* notice, and neither a send in its own language nor one that found no
\* template at all does. (A lost recording is excused.)
FallbackShows ==
  \A language \in Languages : notices[language] = "active" <=> language \in unread

=============================================================================
