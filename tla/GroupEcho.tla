----------------------------- MODULE GroupEcho -----------------------------
(***************************************************************************)
(* internal/service/echo over the groups, wish_events and send_log tables. *)
(* Inbound messages reach Engine.HandleIncoming from webhook requests and  *)
(* from the poller, each on a goroutine of its own: any number of handlers *)
(* run at once, with no lock between them.  Every database call is one     *)
(* atomic step, with the clock reading that goes into it.  The wish        *)
(* patterns are fixed: whether a message is a wish is part of the message. *)
(***************************************************************************)
EXTENDS Integers, Sequences, FiniteSets

CONSTANTS
  GroupIds,      \* ids the groups table can hand out; AUTOINCREMENT never reuses one
  Chats,         \* WhatsApp group chats
  Thresholds,    \* the thresholds a group can set for itself
  EchoSettings,  \* the settings in use: group_echo's threshold, window and cooldown, and
                 \* usable, whether factory.Build can make a provider of the rest
  Senders,
  Messages,      \* provider message ids
  Content,       \* Content[m]: [chat, sender, fromMe, wish]
  LastInstant,   \* the clock runs through the instants 0 .. LastInstant
  Retention,     \* RetentionPeriod
  Handlers,      \* goroutines that call HandleIncoming
  None,
  Unused, Deleted,  \* a group id not handed out yet, and one whose row is gone
  MaxFaults, MaxEdits, MaxRedeliveries  \* bounds on failures, edits and repeats

Instants == 0 .. LastInstant
\* group.Threshold == nil
NoThreshold == 0
\* An instant not reached: a message not delivered yet.
Never == -1

Group == [chat: Chats, threshold: Thresholds \cup {NoThreshold}, enabled: BOOLEAN]
\* One row of wish_events; sender_id is the message's.
Wish == [group: GroupIds, message: Messages, at: Instants]
\* One row of send_log (kind 'group_echo'); group None is group_id NULL.
Row == [group: GroupIds \cup {None}, status: {"sent", "failed"}, at: Instants]
\* What a handler holds: the group row it read, then maybeEcho's settings
\* and window, and `at`, its latest reading of the clock.
Job == [message: Messages, group: GroupIds, own: Thresholds \cup {NoThreshold},
        threshold: Nat, since: Int, cooldown: Nat, at: Instants]
\* One message the group got from the bot.
Post == [group: GroupIds, at: Instants, cooldown: Nat]

Labels == {"idle", "record", "load", "count", "cooldown", "prepare",
           "send", "logSent", "logFailed"}

ASSUME NatAssumption ==
  /\ LastInstant \in Nat /\ Retention \in Nat
  /\ MaxFaults \in Nat /\ MaxEdits \in Nat /\ MaxRedeliveries \in Nat
\* The bounds settings.validate and the CHECK of groups.threshold enforce.
ASSUME SettingsAssumption ==
  /\ EchoSettings \subseteq [threshold: Nat \ {0}, window: Nat \ {0}, cooldown: Nat \ {0},
                             usable: BOOLEAN]
  /\ Thresholds \subseteq Nat \ {0}
ASSUME ContentAssumption ==
  Content \in [Messages -> [chat: Chats, sender: Senders, fromMe: BOOLEAN, wish: BOOLEAN]]
ASSUME FiniteAssumption == IsFiniteSet(Senders)
ASSUME NoneAssumption ==
  /\ None \notin GroupIds \cup Job
  /\ Unused # Deleted /\ {Unused, Deleted} \cap Group = {}

VARIABLES
  now,        \* the instant on the wall clock
  groups,     \* the groups table
  settings,   \* the settings table
  active,     \* the provider manager holds a provider
  wishes,     \* the wish_events table
  sendLog,    \* send_log, in id order
  pc, job,    \* where each handler is, and what it holds
  first,      \* when each message was first delivered, or Never
  heard,      \* history: every wish under the instant it was first recorded
  posted,     \* history: the bot's messages to groups, in order
  unlogged,   \* history: <<group, at>> of sends that have no send_log row
  spent       \* faults, edits and redeliveries so far

vars == <<now, groups, settings, active, wishes, sendLog, pc, job, first,
          heard, posted, unlogged, spent>>
config == <<groups, settings, active>>

TypeOK ==
  /\ now \in Instants
  /\ groups \in [GroupIds -> Group \cup {Unused, Deleted}]
  /\ settings \in EchoSettings
  /\ active \in BOOLEAN
  /\ wishes \in SUBSET Wish
  /\ sendLog \in Seq(Row)
  /\ pc \in [Handlers -> Labels]
  /\ job \in [Handlers -> Job \cup {None}]
  /\ first \in [Messages -> Instants \cup {Never}]
  /\ heard \in SUBSET Wish
  /\ posted \in Seq(Post)
  /\ unlogged \in SUBSET (GroupIds \X Instants)
  /\ spent \in [faults: 0 .. MaxFaults, edits: 0 .. MaxEdits, redeliveries: 0 .. MaxRedeliveries]

\* UNIQUE (chat_id).
ChatsUnique(table) ==
  \A g, h \in GroupIds :
    table[g] \in Group /\ table[h] \in Group /\ table[g].chat = table[h].chat => g = h

Init ==
  /\ now = 0
  /\ groups \in [GroupIds -> Group \cup {Unused}] /\ ChatsUnique(groups)
  /\ settings \in EchoSettings
  /\ active = settings.usable
  /\ wishes = {}
  /\ sendLog = <<>>
  /\ pc = [h \in Handlers |-> "idle"]
  /\ job = [h \in Handlers |-> None]
  /\ first = [m \in Messages |-> Never]
  /\ heard = {}
  /\ posted = <<>>
  /\ unlogged = {}
  /\ spent = [faults |-> 0, edits |-> 0, redeliveries |-> 0]

-----------------------------------------------------------------------------
(* Helpers *)

Exists(g) == groups[g] \in Group

\* Any call can fail: the context is cancelled (SIGTERM, the caller gone, the
\* poller replaced), the database or the network errors.
Fault ==
  /\ spent.faults < MaxFaults
  /\ spent' = [spent EXCEPT !.faults = @ + 1]

Goto(h, label) == pc' = [pc EXCEPT ![h] = label]

\* HandleIncoming returns.
Return(h) ==
  /\ Goto(h, "idle")
  /\ job' = [job EXCEPT ![h] = None]

\* Mutant: every message of the window is a vote.
CountWishes(g, since) == Cardinality({r \in wishes : r.group = g /\ r.at >= since})

CountDistinctWishSenders(g, since) ==
  Cardinality({Content[r.message].sender : r \in {w \in wishes : w.group = g /\ w.at >= since}})

\* The group's rows, whatever their status: the newest one starts the cooldown.
EchoRows(g) == {i \in DOMAIN sendLog : sendLog[i].group = g}

\* Mutant: only a successful echo quiets the group.
InCooldownAfterSuccess(g, at, cooldown) ==
  \E i \in EchoRows(g) : sendLog[i].status = "sent" /\ at - sendLog[i].at < cooldown

\* The newest row (LastGroupEcho) is within the cooldown iff some row is.
inCooldown(g, at, cooldown) == \E i \in EchoRows(g) : at - sendLog[i].at < cooldown

-----------------------------------------------------------------------------
(* HandleIncoming *)

\* Mutant: the bot's own messages are not filtered out.
AnyWish(m) == Content[m].wish

\* What HandleIncoming looks at: neither the bot's own messages nor messages
\* no pattern matches.
OthersWish(m) == ~Content[m].fromMe /\ Content[m].wish

\* A watched, enabled group with this chat id.
Watched(g, chat) == Exists(g) /\ groups[g].chat = chat /\ groups[g].enabled

\* A message's first delivery, or the provider's repeat of it.  Providers drop
\* a notification well before wish evidence expires.
Delivered(m) ==
  \/ /\ first[m] = Never
     /\ first' = [first EXCEPT ![m] = now]
     /\ UNCHANGED spent
  \/ /\ first[m] # Never /\ now <= first[m] + Retention
     /\ spent.redeliveries < MaxRedeliveries
     /\ spent' = [spent EXCEPT !.redeliveries = @ + 1]
     /\ UNCHANGED first

\* A wish of somebody else in a watched, enabled group; the handler works on
\* with the group row it reads here (GetGroupByChatID).
Receive(h, m) ==
  \E g \in GroupIds :
    /\ pc[h] = "idle" /\ Delivered(m)
    /\ OthersWish(m) /\ Watched(g, Content[m].chat)
    /\ job' = [job EXCEPT ![h] = [message |-> m, group |-> g, own |-> groups[g].threshold,
                                  threshold |-> 0, since |-> 0, cooldown |-> 0, at |-> now]]
    /\ Goto(h, "record")
    /\ UNCHANGED <<now, config, wishes, sendLog, heard, posted, unlogged>>

\* The bot's own message, an unknown or disabled group, no wish: dropped.
Ignore(h, m) ==
  /\ pc[h] = "idle" /\ Delivered(m)
  /\ ~(OthersWish(m) /\ \E g \in GroupIds : Watched(g, Content[m].chat))
  /\ UNCHANGED <<now, config, wishes, sendLog, pc, job, heard, posted, unlogged>>

\* The key of UNIQUE (group_id, message_id).
Same(rows, wish) == \E r \in rows : r.group = wish.group /\ r.message = wish.message

\* Mutant: UNIQUE (group_id, message_id) is missing.
RecordEveryDelivery(h) ==
  LET wish == [group |-> job[h].group, message |-> job[h].message, at |-> now]
  IN /\ pc[h] = "record" /\ Exists(wish.group)
     /\ wishes' = wishes \cup {wish}
     /\ heard' = IF Same(heard, wish) THEN heard ELSE heard \cup {wish}
     /\ Goto(h, "load")
     /\ UNCHANGED <<now, config, sendLog, job, first, posted, unlogged, spent>>

\* RecordWishEvent: a redelivery is a no-op and ends the handling; the
\* foreign key rejects the wish of a group deleted meanwhile.
Record(h) ==
  LET wish == [group |-> job[h].group, message |-> job[h].message, at |-> now]
  IN /\ pc[h] = "record"
     /\ \/ /\ Exists(wish.group) /\ ~Same(wishes, wish)
           /\ wishes' = wishes \cup {wish}
           /\ heard' = IF Same(heard, wish) THEN heard ELSE heard \cup {wish}
           /\ Goto(h, "load")
           /\ UNCHANGED <<job, spent>>
        \/ /\ ~Exists(wish.group) \/ Same(wishes, wish)
           /\ Return(h)
           /\ UNCHANGED <<wishes, heard, spent>>
     /\ UNCHANGED <<now, config, sendLog, first, posted, unlogged>>

-----------------------------------------------------------------------------
(* maybeEcho and postEcho *)

\* The settings, the effective threshold and the window, from one reading of
\* the clock.
Load(h) ==
  /\ pc[h] = "load"
  /\ job' = [job EXCEPT ![h] = [@ EXCEPT
               !.threshold = IF job[h].own # NoThreshold THEN job[h].own ELSE settings.threshold,
               !.since = now - settings.window,
               !.cooldown = settings.cooldown,
               !.at = now]]
  /\ Goto(h, "count")
  /\ UNCHANGED <<now, config, wishes, sendLog, first, heard, posted, unlogged, spent>>

Count(h) ==
  /\ pc[h] = "count"
  /\ IF CountDistinctWishSenders(job[h].group, job[h].since) < job[h].threshold
     THEN Return(h)
     ELSE Goto(h, "cooldown") /\ UNCHANGED job
  /\ UNCHANGED <<now, config, wishes, sendLog, first, heard, posted, unlogged, spent>>

Cooldown(h) ==
  /\ pc[h] = "cooldown"
  /\ IF inCooldown(job[h].group, job[h].at, job[h].cooldown)
     THEN Return(h)
     ELSE Goto(h, "prepare") /\ UNCHANGED job
  /\ UNCHANGED <<now, config, wishes, sendLog, first, heard, posted, unlogged, spent>>

\* ForGroup, Active and the SentAt the row will carry.
Prepare(h) ==
  /\ pc[h] = "prepare"
  /\ IF active
     THEN Goto(h, "send") /\ job' = [job EXCEPT ![h].at = now]
     ELSE Return(h)
  /\ UNCHANGED <<now, config, wishes, sendLog, first, heard, posted, unlogged, spent>>

\* A read or the wish's insert fails (or ForGroup finds no template): the
\* handling ends, and the message is not looked at again unless its insert
\* never happened and the provider repeats it.
Abort(h) ==
  /\ pc[h] \in {"record", "load", "count", "cooldown", "prepare"}
  /\ Fault /\ Return(h)
  /\ UNCHANGED <<now, config, wishes, sendLog, first, heard, posted, unlogged>>

Echo(h) == [group |-> job[h].group, at |-> job[h].at, cooldown |-> job[h].cooldown]

\* SendText succeeds.
SendTextOk(h) ==
  /\ pc[h] = "send"
  /\ posted' = Append(posted, Echo(h))
  /\ Goto(h, "logSent")
  /\ UNCHANGED <<now, config, wishes, sendLog, job, first, heard, unlogged, spent>>

\* SendText returns an error, whether or not the message got out.
SendTextFails(h) ==
  /\ pc[h] = "send"
  /\ Fault
  /\ posted' \in {posted, Append(posted, Echo(h))}
  /\ Goto(h, "logFailed")
  /\ UNCHANGED <<now, config, wishes, sendLog, job, first, heard, unlogged>>

\* Mutant: a status the CHECK constraint does not know.
StatusQueued(h) == "queued"

Status(h) == IF pc[h] = "logSent" THEN "sent" ELSE "failed"

\* AppendSendLog with the outcome; the foreign key refuses the row of a group
\* deleted meanwhile.
Log(h) ==
  LET row == [group |-> job[h].group, status |-> Status(h), at |-> job[h].at]
      loss == unlogged \cup {<<job[h].group, job[h].at>>}
  IN /\ pc[h] \in {"logSent", "logFailed"}
     /\ \/ Exists(row.group) /\ sendLog' = Append(sendLog, row) /\ UNCHANGED <<unlogged, spent>>
        \/ ~Exists(row.group) /\ unlogged' = loss /\ UNCHANGED <<sendLog, spent>>
        \/ Fault /\ unlogged' = loss /\ UNCHANGED sendLog
     /\ Return(h)
     /\ UNCHANGED <<now, config, wishes, first, heard, posted>>

-----------------------------------------------------------------------------
(* The janitor, the operator, the clock and the process *)

\* Mutant: the janitor also sweeps rows that are still young.
SweepEarly ==
  /\ \E r \in wishes : r.at < now
  /\ wishes' = {r \in wishes : r.at >= now}
  /\ UNCHANGED <<now, config, sendLog, pc, job, first, heard, posted, unlogged, spent>>

\* Engine.Sweep, at any time it has work to do.
Sweep ==
  /\ \E r \in wishes : r.at < now - Retention
  /\ wishes' = {r \in wishes : r.at >= now - Retention}
  /\ UNCHANGED <<now, config, sendLog, pc, job, first, heard, posted, unlogged, spent>>

SpendEdit ==
  /\ spent.edits < MaxEdits
  /\ spent' = [spent EXCEPT !.edits = @ + 1]

\* CreateGroup, UpdateGroup: every mutable field is written, the chat too.
SaveGroup(g, row) ==
  /\ groups[g] # Deleted /\ SpendEdit
  /\ groups' = [groups EXCEPT ![g] = row] /\ ChatsUnique(groups')
  /\ UNCHANGED <<now, settings, active, wishes, sendLog, pc, job, first, heard, posted, unlogged>>

\* DeleteGroup: its wishes cascade away, its send_log rows lose their group.
DeleteGroup(g) ==
  /\ Exists(g) /\ SpendEdit
  /\ groups' = [groups EXCEPT ![g] = Deleted]
  /\ wishes' = {r \in wishes : r.group # g}
  /\ sendLog' = [i \in DOMAIN sendLog |->
                  IF sendLog[i].group = g THEN [sendLog[i] EXCEPT !.group = None] ELSE sendLog[i]]
  /\ UNCHANGED <<now, settings, active, pc, job, first, heard, posted, unlogged>>

\* putSettings: Rebuild installs a provider, or keeps what was there when the
\* new settings cannot build one (or a read after the save failed).
SaveSettings(s) ==
  /\ SpendEdit
  /\ settings' = s
  /\ active' \in {active, active \/ s.usable}
  /\ UNCHANGED <<now, groups, wishes, sendLog, pc, job, first, heard, posted, unlogged>>

\* A delivery is over (60 s for a request) long before its message is
\* Retention old.
TimePasses ==
  /\ now < LastInstant
  /\ \A h \in Handlers : pc[h] = "record" => now < first[job[h].message] + Retention
  /\ now' = now + 1
  /\ UNCHANGED <<config, wishes, sendLog, pc, job, first, heard, posted, unlogged, spent>>

\* The process dies, or exits with handlers in flight, and starts again, with a
\* provider if one can be built from the stored settings.
Crash ==
  /\ Fault
  /\ pc' = [h \in Handlers |-> "idle"]
  /\ job' = [h \in Handlers |-> None]
  /\ active' = settings.usable
  /\ unlogged' = unlogged \cup {<<job[h].group, job[h].at>> :
                                h \in {k \in Handlers : pc[k] \in {"logSent", "logFailed"}}}
  /\ UNCHANGED <<now, groups, settings, wishes, sendLog, first, heard, posted>>

-----------------------------------------------------------------------------
HandleIncoming(h) ==
  \/ \E m \in Messages : Receive(h, m) \/ Ignore(h, m)
  \/ Record(h) \/ Load(h) \/ Count(h) \/ Cooldown(h)
  \/ Prepare(h) \/ Abort(h) \/ SendTextOk(h) \/ SendTextFails(h) \/ Log(h)
Operator ==
  \/ \E g \in GroupIds : DeleteGroup(g) \/ \E row \in Group : SaveGroup(g, row)
  \/ \E s \in EchoSettings : SaveSettings(s)

Next ==
  \/ \E h \in Handlers : HandleIncoming(h)
  \/ Sweep
  \/ Operator
  \/ TimePasses
  \/ Crash

Spec == Init /\ [][Next]_vars

-----------------------------------------------------------------------------
(* Properties *)

\* The members whose wish to the group was first recorded since an instant.
Voters(g, since) ==
  {Content[r.message].sender :
     r \in {w \in heard : /\ w.group = g /\ w.at >= since
                          /\ Content[w.message].wish /\ ~Content[w.message].fromMe}}

\* A handler goes on to echo only for a burst: the threshold it loaded is met
\* by that many different members who wished within the window it computed,
\* each message counted once however often it was delivered, the bot's own
\* never, however many handlers, sweeps and edits come in between.
EchoIsEarned ==
  \A h \in Handlers :
    pc[h] \in {"cooldown", "prepare", "send", "logSent", "logFailed"} =>
      Cardinality(Voters(job[h].group, job[h].since)) >= job[h].threshold

\* The effective threshold of a group's row.
EffectiveThreshold(row) == IF row.threshold # NoThreshold THEN row.threshold ELSE settings.threshold

\* No burst is missed by racing handlers: once all are done and nothing failed
\* or was edited, a group with enough voters in the window has an echo row no
\* older than a cooldown before the latest of their wishes.  Each handler
\* records its wish before it counts, so the last one to record counts all.
BurstIsAnswered ==
  (active /\ spent.faults = 0 /\ spent.edits = 0 /\ \A h \in Handlers : pc[h] = "idle") =>
    \A g \in GroupIds :
      LET burst == {r \in heard : r.group = g /\ r.at >= now - settings.window}
      IN Exists(g) /\ Cardinality({Content[r.message].sender : r \in burst})
                        >= EffectiveThreshold(groups[g]) =>
           \E i \in EchoRows(g) : \A r \in burst : sendLog[i].at > r.at - settings.cooldown

\* Two messages to one group are a cooldown apart, by the cooldown the later
\* one was checked against, unless the earlier one's row was lost: postEcho's
\* loud error, a crash before the row, or the group's deletion while a handler
\* was on its way to the cooldown.  Holds for one handler at a time.
EchoesSpaced ==
  \A i, j \in DOMAIN posted :
    (i < j /\ posted[i].group = posted[j].group /\ Exists(posted[i].group)) =>
      \/ posted[j].at - posted[i].at >= posted[j].cooldown
      \/ <<posted[i].group, posted[i].at>> \in unlogged

\* internal/service/echo/matcher.go: the bot "goes quiet for a cooldown, so a
\* single birthday produces exactly one bot message".  Refuted by echo_race.
OneEchoPerCooldown ==
  \A i, j \in DOMAIN posted :
    (i < j /\ posted[i].group = posted[j].group) =>
      posted[j].at - posted[i].at >= posted[j].cooldown

=============================================================================
