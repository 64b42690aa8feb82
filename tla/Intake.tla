------------------------------- MODULE Intake -------------------------------
(***************************************************************************)
(* From what a gateway delivers to a recorded wish: the webhook handlers   *)
(* (internal/handlers/webhooks.go) and the poller's ParseWebhook, the two  *)
(* providers' payloads, Engine.HandleIncoming up to RecordWishEvent, and   *)
(* the wish patterns it matches against.  The model follows one delivery,  *)
(* while the operator edits patterns, credentials and the group; GroupEcho *)
(* has many at once, their repeats, and what follows a recorded wish.      *)
(***************************************************************************)
EXTENDS Matcher

CONSTANTS
  Messages,        \* provider message ids
  Said,            \* Said[m]: [chat, author, own, text, says], what was written, and
                   \* for the properties, its words
  WatchedChat,     \* the chat of the one row of the groups table
  GroupChats,      \* chat ids that end in @g.us
  PatternIds,      \* ids of wish_patterns, a set of naturals
  Patterns,        \* rows the operator may try to write
  Seeded,          \* rows the table may have to begin with: a migration's, or what an
                   \* edit of the database file left
  Credentials,     \* tokens and secrets a settings section may hold
  NotSet,          \* no credential, or an empty field of a payload
  None,
  MaxEdits

\* validator.groupChatID wants a group's chat to end in @g.us.
ASSUME IntakeAssumption ==
  /\ PatternIds \subseteq Nat /\ MaxEdits \in Nat
  /\ WatchedChat \in GroupChats
  /\ NotSet \notin Credentials \cup Messages \cup GroupChats \cup {Said[m].author : m \in Messages}

ASSUME SaidAssumption ==
  \A m \in Messages :
    /\ Said[m].own \in BOOLEAN
    /\ Said[m].text \in Text /\ Said[m].says \in Seq(Letters \cup {Space})
    /\ Spells(Said[m].text, Said[m].says)

ASSUME PatternAssumption ==
  \A p \in Patterns \cup Seeded : p \in Pattern /\ AsksFor(p, p.says)

VARIABLES
  patterns,   \* the wish_patterns table: its rows by id
  secrets,    \* settings: [token, secret], GreenAPI's webhook_auth_header and GOWA's
              \* webhook_secret
  watching,   \* the group's row has enabled = 1
  wishes,     \* the wish_events table
  pc, req,    \* where the delivery is, and what is known of it
  edits       \* edits so far

vars == <<patterns, secrets, watching, wishes, pc, req, edits>>

People == {Said[m].author : m \in Messages}

\* A message as HandleIncoming takes it.
Incoming(chat, sender, fromMe, text, id) ==
  [chat |-> chat, sender |-> sender, fromMe |-> fromMe, text |-> text, id |-> id]

-----------------------------------------------------------------------------
(* Payloads, as the gateways write a message *)

\* GreenAPI: three shapes of a text, a picture, and what the bot itself sent;
\* any of them may leave its sender out.
Notifications(m) ==
  {[typeWebhook |-> IF Said[m].own THEN "outgoingAPIMessageReceived" ELSE "incomingMessageReceived",
    typeMessage |-> type, chatId |-> Said[m].chat,
    sender |-> sender,
    textMessage |-> IF type = "textMessage" THEN Said[m].text ELSE <<>>,
    extendedText |-> IF type \in {"extendedTextMessage", "quotedMessage"} THEN Said[m].text ELSE <<>>,
    idMessage |-> m]
   : type \in {"textMessage", "extendedTextMessage", "quotedMessage", "imageMessage"},
     sender \in {Said[m].author, NotSet}}

\* The spellings of the own-message flag a GOWA release writes.
Flags(release) ==
  CASE release = 1 -> {"fromMe"}
    [] release = 3 -> {"is_from_me"}
    [] release = 7 -> {}
    [] OTHER -> {"from_me"}

\* GOWA: the releases differ in where they put the text, in the spelling of the
\* flag, which the seventh leaves out, and in whether a group message's "from"
\* names the group; the fourth event is a receipt, the fifth has lost its id,
\* and the sixth its "from".
Events(m) ==
  {[event |-> IF release = 4 THEN "message.ack" ELSE "message", chat_id |-> Said[m].chat,
    from |-> IF Said[m].chat \notin GroupChats \/ release = 6 THEN <<>>
             ELSE IF release = 3 THEN <<Said[m].author, "in", Said[m].chat>> ELSE <<Said[m].author>>,
    flags |-> [flag \in Flags(release) |-> Said[m].own],
    messageText |-> IF release = 1 THEN Said[m].text ELSE <<>>,
    conversation |-> IF release = 2 THEN Said[m].text ELSE <<>>,
    text |-> IF release \in 3 .. 7 THEN Said[m].text ELSE <<>>,
    id |-> IF release = 5 THEN NotSet ELSE m]
   : release \in 1 .. 7}

Delivery(via, credential, payload, m) ==
  [via |-> via, credential |-> credential, payload |-> payload, message |-> m]

Deliveries ==
  UNION {{Delivery("poller", NotSet, n, m) : n \in Notifications(m)}
         \cup {Delivery("greenapi", c, n, m) : n \in Notifications(m), c \in Credentials \cup {NotSet}}
         \cup {Delivery("gowa", c, e, m) : e \in Events(m), c \in Credentials \cup {NotSet}}
         : m \in Messages}

-----------------------------------------------------------------------------
(* Parsing *)

\* greenapi.ParseWebhook; None is "not handled".
ParseNotification(n) ==
  LET text == CASE n.typeMessage = "textMessage" -> n.textMessage
                [] n.typeMessage \in {"extendedTextMessage", "quotedMessage"} -> n.extendedText
                [] OTHER -> <<>>
      sender == IF n.sender = NotSet THEN n.chatId ELSE n.sender
  IN IF n.typeWebhook # "incomingMessageReceived" \/ text = <<>> THEN None
     ELSE Incoming(n.chatId, sender, FALSE, text, n.idMessage)

\* Mutant: "from" is taken as it stands, so the group becomes the sender.
participantOfWhole(from) ==
  CASE from = <<>> -> NotSet
    [] Len(from) = 1 -> from[1]
    [] OTHER -> from[3]

\* Up to " in ".
participantOf(from) == IF from = <<>> THEN NotSet ELSE from[1]

\* Mutant: the oldest spelling of the text is forgotten.
firstTwoNonEmpty(a, b, c) == IF a # <<>> THEN a ELSE b

firstNonEmpty(a, b, c) ==
  CASE a # <<>> -> a
    [] a = <<>> /\ b # <<>> -> b
    [] OTHER -> c

\* Mutant: one spelling of the flag is missing.
isFromMeTwoWays(e) == \E flag \in {"fromMe", "from_me"} \cap DOMAIN e.flags : e.flags[flag]

isFromMe(e) == \E flag \in {"fromMe", "from_me", "is_from_me"} \cap DOMAIN e.flags : e.flags[flag]

\* gowa.ParseWebhook
ParseEvent(e) ==
  LET text == firstNonEmpty(e.messageText, e.conversation, e.text)
      sender == IF participantOf(e.from) = NotSet THEN e.chat_id ELSE participantOf(e.from)
  IN IF e.event # "message" \/ text = <<>> THEN None
     ELSE Incoming(e.chat_id, sender, isFromMe(e), text, e.id)

Parse(d) == IF d.via = "gowa" THEN ParseEvent(d.payload) ELSE ParseNotification(d.payload)

\* greenapi.CheckAuthHeader: with no token every request passes.
CheckAuthHeader(expected, received) == expected \in {NotSet, received}

\* Mutant: no secret means no verification.
VerifySignatureIfSet(secret, signedWith) == secret \in {NotSet, signedWith}

\* gowa.VerifySignature: with no secret no request passes.
VerifySignature(secret, signedWith) == secret # NotSet /\ signedWith = secret

Authorised(d, s) ==
  CASE d.via = "greenapi" -> CheckAuthHeader(s.token, d.credential)
    [] d.via = "gowa" -> VerifySignature(s.secret, d.credential)
    [] OTHER -> TRUE

-----------------------------------------------------------------------------
(* The state *)

Rows(table) == {table[id] : id \in {id \in DOMAIN table : table[id].enabled}}
Enabled == Rows(patterns)

\* Reference: a poll is the bot's own request, a webhook carries the token or
\* is signed with the secret; only a token may be left out by both sides.
Trusted(d, s) ==
  \/ d.via = "poller"
  \/ d.via = "greenapi" /\ (s.token = NotSet \/ d.credential = s.token)
  \/ d.via = "gowa" /\ d.credential \in Credentials /\ d.credential = s.secret

\* What is known of a delivery: the message parsed from it, the row that
\* matched, how it ended; and the history since it arrived: the rows enabled
\* at some time and all the time, whether it was ever to be trusted, and
\* whether it ever was not, or its group not watched.
Arrived(d) ==
  [delivery |-> d, msg |-> None, matched |-> None, outcome |-> "none",
   ever |-> Enabled, always |-> Enabled,
   vouched |-> Trusted(d, secrets), barred |-> ~Trusted(d, secrets) \/ ~watching]

Outcomes == {"none", "wish", "ignored", "refused", "failed"}

\* The row toModel makes of a pattern.
toModel(p) == [p EXCEPT !.text = Trimmed(p)]
Storable == {toModel(p) : p \in Patterns} \cup Seeded

\* What Dispatch lets through: the sender is a person, or the chat itself.
OfInterest == [chat: GroupChats, sender: People \cup GroupChats, fromMe: {FALSE},
               text: {Said[m].text : m \in Messages}, id: Messages]

ASSUME NoneAssumption == None \notin OfInterest

Requests == [delivery: Deliveries, msg: OfInterest \cup {None}, matched: Storable \cup {None},
             outcome: Outcomes, ever: SUBSET Storable, always: SUBSET Storable,
             vouched: BOOLEAN, barred: BOOLEAN]

TypeOK ==
  /\ \E ids \in SUBSET PatternIds : patterns \in [ids -> Storable]
  /\ secrets \in [token: Credentials \cup {NotSet}, secret: Credentials \cup {NotSet}]
  /\ watching \in BOOLEAN
  /\ wishes \subseteq [message: Messages, sender: People \cup {WatchedChat}, matched: Storable]
  /\ pc \in {"idle", "authorise", "lookup", "match", "record", "done"}
  /\ req \in Requests \cup {None}
  /\ edits \in 0 .. MaxEdits

\* UNIQUE: no two rows have one text.
Unique(table) ==
  \A i, j \in DOMAIN table :
    i # j => <<table[i].kind, table[i].text>> # <<table[j].kind, table[j].text>>

Init ==
  /\ \E ids \in SUBSET PatternIds : patterns \in [ids -> Seeded]
  /\ Unique(patterns)
  /\ secrets \in [token: Credentials \cup {NotSet}, secret: Credentials \cup {NotSet}]
  /\ watching = TRUE
  /\ wishes = {}
  /\ pc = "idle"
  /\ req = None
  /\ edits = 0

operated == <<patterns, secrets, watching>>

Finish(r, outcome) == pc' = "done" /\ req' = [r EXCEPT !.outcome = outcome]

\* Mutant: a message without an id goes on.
CountableAnyId(msg) == msg.chat \in GroupChats /\ ~msg.fromMe /\ msg.sender # NotSet

\* HandleIncoming's first checks, which need no row.
Countable(msg) == msg.chat \in GroupChats /\ ~msg.fromMe /\ NotSet \notin {msg.sender, msg.id}

\* The parsed message goes to HandleIncoming.
Dispatch(r) ==
  LET msg == Parse(r.delivery)
  IN IF msg = None \/ ~Countable(msg) THEN Finish(r, "ignored")
     ELSE pc' = "lookup" /\ req' = [r EXCEPT !.msg = msg]

\* A request's body is read, or the poller has received a notification.
Deliver(d) ==
  /\ pc = "idle"
  /\ IF d.via = "poller" THEN Dispatch(Arrived(d))
     ELSE pc' = "authorise" /\ req' = Arrived(d)
  /\ UNCHANGED <<operated, wishes, edits>>

\* settings.Load, the check of the credential, ParseWebhook and dispatch.
Authorise ==
  /\ pc = "authorise"
  /\ IF Authorised(req.delivery, secrets) THEN Dispatch(req) ELSE Finish(req, "refused")
  /\ UNCHANGED <<operated, wishes, edits>>

\* GetGroupByChatID
LookUpGroup ==
  /\ pc = "lookup"
  /\ IF req.msg.chat = WatchedChat /\ watching THEN pc' = "match" /\ UNCHANGED req
     ELSE Finish(req, "ignored")
  /\ UNCHANGED <<operated, wishes, edits>>

\* ListEnabledWishPatterns, and Match.
MatchText ==
  /\ pc = "match"
  /\ LET hits == Match(patterns, req.msg.text)
     IN IF hits = {} THEN Finish(req, "ignored")
        ELSE \E id \in hits : pc' = "record" /\ req' = [req EXCEPT !.matched = patterns[id]]
  /\ UNCHANGED <<operated, wishes, edits>>

\* RecordWishEvent
RecordWishEvent ==
  /\ pc = "record"
  /\ wishes' = wishes \cup {[message |-> req.msg.id, sender |-> req.msg.sender,
                             matched |-> req.matched]}
  /\ Finish(req, "wish")
  /\ UNCHANGED <<operated, edits>>

\* A database call fails, or the request's context ends.
Fail ==
  /\ pc \notin {"idle", "done"}
  /\ Finish(req, "failed")
  /\ UNCHANGED <<operated, wishes, edits>>

\* An operator's edit, before the delivery or while it is in flight.
Edit ==
  /\ pc # "done"
  /\ edits < MaxEdits /\ edits' = edits + 1
  /\ req' = IF pc = "idle" THEN req
            ELSE [req EXCEPT !.ever = @ \cup Rows(patterns'), !.always = @ \cap Rows(patterns'),
                             !.vouched = @ \/ Trusted(req.delivery, secrets'),
                             !.barred = @ \/ ~Trusted(req.delivery, secrets') \/ ~watching']
  /\ UNCHANGED <<wishes, pc>>

\* createWishPattern and updateWishPattern: toModel validates and trims, and
\* UNIQUE refuses a second row with one text. A new row takes any free id: only
\* the order of ids matters to a match.
SaveWishPattern(id, p) ==
  /\ ValidPattern(p)
  /\ patterns' = [other \in DOMAIN patterns \cup {id} |->
                    IF other = id THEN toModel(p) ELSE patterns[other]]
  /\ Unique(patterns')
  /\ UNCHANGED <<secrets, watching>>
  /\ Edit

DeleteWishPattern(id) ==
  /\ id \in DOMAIN patterns
  /\ patterns' = [other \in DOMAIN patterns \ {id} |-> patterns[other]]
  /\ UNCHANGED <<secrets, watching>>
  /\ Edit

\* putSettings over the two sections; a delivery looks at one of them.
SaveCredentials(s) == secrets' = s /\ UNCHANGED <<patterns, watching>> /\ Edit

\* updateGroup: enabled.
SwitchGroup == watching' = ~watching /\ UNCHANGED <<patterns, secrets>> /\ Edit

Next ==
  \/ \E d \in Deliveries : Deliver(d)
  \/ Authorise \/ LookUpGroup \/ MatchText \/ RecordWishEvent \/ Fail
  \/ \E id \in PatternIds : DeleteWishPattern(id) \/ \E p \in Patterns : SaveWishPattern(id, p)
  \/ \E s \in [token: Credentials \cup {NotSet}, secret: Credentials \cup {NotSet}] : SaveCredentials(s)
  \/ SwitchGroup

Spec == Init /\ [][Next]_vars

-----------------------------------------------------------------------------
(* Properties *)

\* The payload names the writer of its message.
NamesWriter(d) == IF d.via = "gowa" THEN d.payload.from # <<>> ELSE d.payload.sender # NotSet

\* The payload tells the bot's own messages from the others': GreenAPI by the
\* webhook's type, GOWA by its flag, if the release writes one.
TellsOwn(d) == d.via = "gowa" => DOMAIN d.payload.flags # {}

\* A recorded wish is what somebody said in the watched group: not the bot's
\* own words, under its writer and never under the group, with a pattern that
\* speaks of it, whichever gateway, release or payload shape brought it.  Two
\* exceptions the parsers leave: with no sender in the payload, and only then,
\* the group stands for the writer (greenapi/webhook.go:73-78,
\* gowa/webhook.go:95-98); of a GOWA release that writes no spelling of the
\* flag, and only of it, the bot's own message counts (docs/providers.md:173-177).
WishIsWhatWasSaid ==
  \A w \in wishes :
    LET said == Said[w.message]
    IN /\ said.chat = WatchedChat /\ Speaks(w.matched, said.text, said.says)
       /\ w.sender = said.author \/ (~NamesWriter(req.delivery) /\ w.sender = WatchedChat)
       /\ ~said.own \/ ~TellsOwn(req.delivery)

\* A wish rests on a credential and a pattern that both held while its
\* delivery was in flight: an edit takes effect on the next message.
WishIsCurrent ==
  req # None /\ req.outcome = "wish" => req.vouched /\ req.matched \in req.ever

\* The payload is a text with an id, in one of the shapes the parsers know.
CarriesText(d) ==
  IF d.via = "gowa" THEN d.payload.event = "message" /\ d.payload.id # NotSet
  ELSE d.payload.typeMessage # "imageMessage"

\* A message a pattern speaks of all the while, from somebody else, in a group
\* watched all the while, over an authorised delivery, is not passed over,
\* whatever its spelling, and whatever other pattern is broken or edited.
NoWishMissed ==
  req # None /\ req.outcome \in {"ignored", "refused"} /\ ~req.barred
    /\ CarriesText(req.delivery)
  => LET said == Said[req.delivery.message]
     IN said.own \/ said.chat # WatchedChat \/ \A p \in req.always : ~Speaks(p, said.text, said.says)

=============================================================================
