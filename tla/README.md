# blessed-by-the-bot: specification, model checking and proofs

This directory holds TLA+ models of the bot's services, the TLC configurations
that check them on small instances, and TLAPS proofs of the properties that
matter most for every instance. Source paths are relative to the repository;
`PROJECT.json` names, for every definition, the lines it models.

## The system

The bot is one Go process over one SQLite database (a single connection, so a
SQL statement is atomic and nothing larger is). Four long-running loops and the
HTTP server share the database, the settings and one active WhatsApp provider;
there is no lock between them.

| Part | State it keeps | Operations | Talks to |
|---|---|---|---|
| scheduler (`service/scheduler`) | none of its own: `contacts`, `send_log`, settings | `Run`/`Tick` every minute, `SendNow` from HTTP | selection, provider, store |
| group echo (`service/echo`) | `groups`, `wish_events`, `send_log` | `HandleIncoming` per message, `Sweep` daily | selection, provider, store, settings |
| selection (`service/blessing`) | `blessings`, the last template in `send_log` | `ForContact`, `ForGroup` | store, notices |
| listener (`service/listener`) | the running poller, its configuration's fingerprint, a wake-up flag | `Notify`, `reconcile`, `start`, `stop` | settings, poller |
| GreenAPI poller (`provider/greenapi/poller.go`) | a receipt in hand | receive, handle, delete | provider, group echo |
| provider manager, rate limiter, transport (`provider`) | the active client, a token bucket | `Set`, `Active`, `SendText`, `Do` with retries | the WhatsApp gateways |
| settings (`service/settings`) | five keys of the `settings` table, secrets encrypted | `Load`, `LoadMasked`, `Save` | store, cipher |
| HTTP handlers (`handlers`) | none | CRUD on the tables, `putSettings` (save, then rebuild the provider, then notify the listener), `sendNow`, webhooks | all of the above |
| process (`cmd/blessedbot`, `server`) | a context that SIGTERM cancels | start, drain, exit | all of the above |

Hard in this system, and why:

- **Check, act, record.** The scheduler and the echo engine both read the log,
  send a message, and write the log, in three steps with a network call in the
  middle. Another actor, a crash, a SIGTERM or a lost answer fits in every gap.
- **Snapshots.** A tick works from rows it listed before minutes of paced sends;
  a handler from the group row it read first.
- **Redelivery.** Providers repeat messages; the engine deduplicates by a unique
  index whose rows a janitor deletes.
- **Edits at any time.** Deleting a contact or a group rewrites the log rows that
  carry the evidence.
- **Settings.** Five keys saved one by one, read one by one, merged with a masked
  copy, and applied to the provider manager and the listener afterwards.
- **Pacing.** One limiter per installed provider, whose waiting calls can give up.
- **Two gateways.** Each spells a message its own way, and differently per release.
- **Calendar.** Leap days, the year boundary, time zones.

What makes each part correct: a contact gets one message per event year or the
duplicate is accounted for, the log tells no lies, and a due contact is not forgotten
(scheduler); a recorded wish is what another member said in the group, and none
is passed over (intake); an echo is earned by different members, bursts are
answered, and echoes are a cooldown apart (group echo); the closest template is
chosen, never a personal one in a group, and the operator sees when English
stood in (selection); sends are paced and their answers honest (outbound); one poller at most, of the stored
configuration in the end (listener); what is stored is what somebody saved, and
what is active is what is stored (settings, manager).

## Modules

| Module | Models | Proofs |
|---|---|---|
| `Dates` | `scheduler/dates.go`: pure operators | in `SchedulerProofs` |
| `BlessingLedger` | abstract: what the scheduler keeps of one blessing per contact and year | |
| `Scheduler` | the tick loop, `SendNow`, `deliver`, the tables under them, the process; implements `BlessingLedger` | `SchedulerProofs` |
| `Matcher` | `echo/matcher.go`: pure operators over texts and patterns, and what a text says however it is spelled | in `IntakeProofs` |
| `Intake` | webhook requests and poll results, both gateways' payloads, `HandleIncoming` up to the recorded wish, the pattern edits; uses `Matcher` | `IntakeProofs` |
| `GroupEcho` | `HandleIncoming` to `postEcho`, the janitor, the tables, the process | `GroupEchoProofs` |
| `Selection` | template choice over a changing `blessings` table, and the fallback notice | `SelectionProofs` |
| `Outbound` | the provider manager, the rate limiter and the retrying transport | `OutboundProofs` |
| `Sections` | what a settings section is to clients, in memory and in the table; `validate`, `factory.Build`, `desiredPoller` | in `SettingsProofs` |
| `ConfigStore` | abstract: what saving settings promises | |
| `Settings` | `putSettings` with `Load` and `Save`, call by call, and the provider rebuild; implements `ConfigStore` | `SettingsProofs` |
| `Listener` | the supervisor, its pollers and GreenAPI's queue, over a `ConfigStore` | `ListenerProofs` |
| `FoldProofs` | lemmas on folds and on numbering a finite set, for the loops of `Pick` and `Normalize` | |
| `MC*` | values of the constants for TLC, nothing else | |

**Scheduler.** `pc` says where each actor is between two calls of the code and
`job` the (contact, event year) it sends for; `tick` and `snapshot` are the
locals of `Tick` that outlive a call. A database call is one step, `SendText` is
one step whose outcome covers every retried, lost and refused attempt. A forced
send has the key year `NoYear`, the NULL of `event_year`. Requests run under
contexts SIGTERM does not cancel, the tick loop under one it does: `CallFails`
and `CallWorks` say so. `received`, `doubtful` and `repeats` are history variables,
read by no action; each counts messages per key: all that went out; those of a send
that ended in an error `deliver` returns (an answer or the row's write lost) or with
its process; and the copies, beyond the first, that the transport's own retries put
out inside a send that succeeded. The code announces the second kind. It logs the
third at debug level only (`transport.go:116`), `deliver` returns nil, and one 'sent'
row is written.

**BlessingLedger** knows counts per contact and year: senders that found no
row (`claims`), messages that owe a row (`owed`), rows, messages out, and of these the
doubtful ones and the transport's repeats. It promises that a claim is made only while
there is no row, that there is at most one row, and that every message is in the
books, as recorded, owed, doubtful or a repeat, whoever sends. `Scheduler`
implements it with the sets of its actors (`Claims`, `Owed`, `Rows`): `KeepsBook`.

**Outbound.** A call goes through `Active`, the limiter (`Reserve` takes the next
free slot as `rate.Limiter` does, `GiveUp` returns a token nobody queued behind),
and up to `Attempts` attempts with a backoff between them. A timer may wake its
call up to `MaxLag` late. A context ends by its own deadline or by a cancellation;
`Rebuild` installs a provider with a limiter of its own while calls are under way.
`copies` and `faults` are history: what the gateway delivered and which attempts failed.
`attemptOnce` takes every status below 400 for success, a redirect as well as a 2xx; the
model's gateway gives such an answer only for a message it took (`AttemptOk`), and what
`AnswersBoundCopies` and the scheduler's log say of success rests on that.

**Matcher and Intake.** A text is a sequence of characters: a letter with its case
and perhaps an accent inside it, a combining mark, or white space. That is what
`Normalize` tells apart. A regular expression is a literal body or one that does
not compile, and its slashes shield the body from trimming; the patterns are rows of
one language. The reference (`Spells`, `AsksFor`, `Speaks`) does not fold or trim: it
numbers the positions of a text that count, its letters and one white space between
words, and compares what stands there. `Said` and `Patterns` give each text and each
pattern its words, and two named assumptions say that they are spelled so. `Intake` enumerates the
payloads the structs of both parsers describe: GreenAPI's message types, each with and
without a sender; GOWA's spellings of the text, of the own-message flag and of a group
message's sender, a receipt, a message without an id, one without a `from`, and one
of a release that writes no own-message flag. In two of these the code records
what nobody said in those words, and `WishIsWhatWasSaid` excuses exactly them: with no sender
in the payload both parsers fall back to the chat's id, so in a group the group itself
counts as a member (`NamesWriter`; the fallback's comment in `greenapi/webhook.go:75`
thinks of private chats); and without a flag the bot's own message counts as a wish, as
`docs/providers.md:173-177` warns (`TellsOwn`). One delivery is followed to its end, while the
operator edits patterns, credentials and the group's switch between any two of its
reads; `req` also keeps which rows were enabled at some time (`ever`) and all the
time (`always`) since it arrived. Several deliveries at once, repeats and what follows
a recorded wish are `GroupEcho`'s, where a message is a wish or it is not. A
credential is equal to the stored one or it is not: how a digest is computed is left out.

**GroupEcho.** Each handler is a goroutine of a webhook request or the poller.
`job` holds the group row, settings and clock readings the code keeps in locals.
`first` dates a message's first delivery, which bounds its redeliveries; `heard`,
`posted` and `unlogged` are history variables. The sending of a text counts as
one message here: the transport's duplicates are `Outbound`'s subject. Two
assumptions on the environment are in the guards: a provider repeats a message
only while it is younger than the retention period (a week), and a handler
inserts its wish before the message is that old (a request has 60 s).

**Selection.** One contact, one event type. A text is a sequence of pieces, of which one is the
name placeholder; `Render` puts a name in its place. What may be posted in a group is not
defined by the code's filter but by its readers: `Everybodys` are the templates that every
member of `Readers`, contacts who differ in gender, relation and name, suits and would be sent
word for word as they stand. `Pick`'s loop is a fold over the
candidates in some order of the rows; the random index is a set of possible results. The
`notices` table has one row per language here; `unread` is a history variable that
goes by the reference definitions (`StandsIn`), not by the code's path.

**Settings in `Scheduler` and `GroupEcho`** are a record an operator replaces in
one step, with `usable`: whether `factory.Build` makes a provider of them. A
restart builds from the stored ones; a failed rebuild keeps the provider there was.

**Sections** gives every section three fields: `id` (what it names: the provider,
the instance, the base URL, or the whole value of the scheduler and echo
sections), `mode` and one `secret`. GreenAPI's and GOWA's second credential
behaves as the first and is left out; the empty mode means polling, as the code
says. `Encrypt` wraps a secret, `Decrypt` unwraps it, `Masked` and `Resolve` are the two
ends of the mask.

**Settings** has one step per database call: `GetSetting` inside each `Load`
(the provider key first, the others in any order, as Go iterates a map),
`SetSetting` inside `Save`, and between them the pure steps `Merge`, `Save` (mask
resolution and validation) and `Rebuild`. `LoadAnswer` stands for a load whose
result only the client sees. Requests interleave, a call can fail (`CallFails`
ends the request with whatever was written), the process can die.

**ConfigStore** is the promise: a document's sections are written one at a time,
no other section changes, an invalid document changes nothing, and a save that is
done has put the stored configuration into use. `Settings` implements it
(`Store`, an `INSTANCE` with the opened table for `config`) with one request at a time.
**Listener** extends it: its `Request` and `RebuildAndNotify` are `ConfigStore`'s
steps, so what the listener is checked against is one administrator's saves. Its
supervisor's variables are the struct's (`owner` stands for `cancel` and `done`),
plus where `Run` is (`sup`); `stop` is two steps, the cancellation and the wait.
A poller holds one receipt; `Handle` is the whole of `HandleIncoming`, successful
or not, and looks at the context afterwards as `deleteNotification` does.
`current` is put together key by key while saves go on. `handled` and `excused`
are history variables. Two remarks the model makes plain: a message counts as
handled also if a cancelled context cut `HandleIncoming` short, and it is still
acknowledged; and the comment on `dispatch` that the receipt is already
acknowledged when the handler runs is the wrong way round (`HandledBeforeDeleted`).

## Runs

| Run | Shows | Bounds |
|---|---|---|
| `scheduler` | `NoSilentDuplicate`, `LogNeverOverclaims`, `KeepsBook` | one contact, one `SendNow`, four instants (28 February twice, the night after, 29 February of the next year), no send time of the contact's own, two transport attempts, two faults, one SIGTERM, one edit |
| `scheduler_live` | `DueIsBlessed` | two contacts, perhaps with a later send time of their own, one day, one fault, one SIGTERM, one edit |
| `scheduler_sigterm` | the README's "exactly one blessing per event per year ... a restart never sends twice" is refuted | no faults, no request; one SIGTERM |
| `echo` | `EchoIsEarned`, `BurstIsAnswered` | two handlers, four messages, one redelivery, retention shorter than the clock's range |
| `echo_serial` | `EchoIsEarned`, `EchoesSpaced` | one handler, two group ids for one chat, two edits, one failure |
| `echo_race` | "a single birthday produces exactly one bot message" is refuted | two handlers, nothing fails |
| `intake` | `WishIsWhatWasSaid`, `WishIsCurrent`, `NoWishMissed` | one delivery of five messages (a wish, no wish, the bot's own, another group's, a private one), in eight shapes of GreenAPI and seven of GOWA, a table of none, a working or a broken pattern or both, one edit with seven kinds of patterns |
| `selection` | `ContactGetsClosest`, `GroupTextSuitsEveryone`, `FallbackShows` | three blessings out of eleven kinds, two languages, two edits; sends, echoes and dismissals without bound |
| `outbound` | `AnswersBoundCopies`, `Paced` | three calls, a token per two ticks, five instants, a timer a tick late, one fault, one cancelled context, two attempts, two providers |
| `settings` | `MaskStaysOutside`, `StoredIsValid`, `SavesAsPromised` | one request at a time, four keys, seven documents, a failed call, a crash |
| `settings_race` | "an absent section keeps its stored value" is refuted | two requests, nothing fails |
| `listener` | `OnePoller`, `HandledBeforeDeleted`, `RepeatsAreExcused`, `FollowsSettings`, `QueueDrains` | three keys, three documents, two pollers, two receipts of which one is a message, one fault, one SIGTERM or crash |

Every bound is a constant that guards the action it bounds (`MaxFaults`,
`MaxStops`, `MaxEdits`, `MaxRedeliveries`, `LastInstant`). They are enough for
the interesting cases: a duplicate needs one lost record and one later send;
racing needs two actors; a retry after a failure needs two attempts; two years
are needed for the key of the index to matter; a redelivery after a sweep needs
a clock longer than the retention; a torn read needs two keys and a write in
between; a token returned out of order needs three calls in one queue; a shadowed
pattern needs two rows; overlapping pollers need two, and a blocked queue a receipt behind another. The theorems remove the bounds for the safety
properties. `CHECK_DEADLOCK FALSE` is used where the modelled part stops on its
own: `GroupEcho` only reacts, and its messages are finite; `Outbound`'s calls and
`Intake`'s delivery come to an end.

**What the violations say.** The unique index keeps the *log* to one row per
contact and year, not the messages: a SIGTERM during a tick's send cancels the
very context its row is written with, and a tick and a `SendNow` that overlap both
send. What does hold, for every instance, is `NoSilentDuplicate` and
`KeepsBook` (a send was set out on while the log had no row, and its messages are in
the books). `NoSilentDuplicate` says that of the messages of one year all but one
still owe their row, or were announced by an error, or belong to a process that
ended, with one exception the property states: a retry inside `SendText` that
succeeds after an answer was lost leaves a copy nobody is told of. That copy is
bounded by the lost answers (`AnswersBoundCopies`), and nothing in the code reports it.
For the echo, recording before counting makes sure that some handler of a burst
answers it, and nothing makes sure that only one does; with one handler at a
time (`EchoesSpaced`) the cooldown does what its comment says, except after a
lost row. A `PUT` of one section writes all of them, as they were when it loaded
them: an overlapping `PUT` of another section is undone. With one request at a
time it is not (`SavesAsPromised`), and in either case no mask reaches the table.

**Fairness** (`Scheduler`, only for `DueIsBlessed`). The tick loop keeps taking
steps: `time.Ticker` fires, every HTTP attempt and database call ends (timeouts),
and `Run` logs errors and goes on. A stopped process is started again (the
container's restart policy). Nothing is assumed of requests, operators, the
clock or failures, which are bounded: a provider that refuses for ever blesses
nobody. The property is stated while the contact stays due and a provider is
there.

`Listener`'s `FairSpec`, for `FollowsSettings` and `QueueDrains`: the supervisor and
every poller keep taking steps (the ticker wakes `Run` every 30 s, HTTP attempts
and handlers end by timeouts or by their cancelled context), and a stopped
process is started again. `Quit` is strongly fair: once the context is done,
`select` finds it ready at every turn and chooses at random, so it cannot take
ticks for ever. Requests, stops and failures are not fair; failures are bounded,
as an account that can never be read drains no queue. `FollowsSettings` speaks of
settings that stop changing, `QueueDrains` of settings that ask for the queue's
account from some time on.

## Proofs

The `*Proofs` modules prove, for every value of the constants that meets the
modules' named assumptions:

- `TypeCorrect` of every module with a state: `Scheduler`, `GroupEcho`, `Settings`,
  `Listener`, `Outbound`, `Selection` and `Intake`. In the first two, with types goes `JobInv`: an actor beyond its first step holds a job.
- `DuplicatesAreNeverSilent` and `LogIsHonest`. Neither property is inductive:
  a state with one unrecorded, forgotten message satisfies both and the next
  send breaks the first. The invariant is `Ledger`, double-entry accounting per
  key: rows plus pending sends are at most the messages received (`Counted`),
  and the messages are at most the pending sends, the doubtful ones, the transport's
  repeats and one for the row (`Once`). A deleted contact counts as a row, since its
  rows lost their contact but no new row can be written for it.
- `SchedulerImplementsLedger`. The abstract counts are cardinalities of sets of
  actors, so a step of one actor moves it into or out of one set (`ClaimIn`,
  `ClaimOut`, `OwedIn`, `OwedOut`). That a claim settles only into a free year, and
  that what leaves unrecorded is doubtful, comes from `Ledger` and from `YearInv`.
- `ObservedOncePerYear`: `DueOn` holds on exactly one day of every year for every
  date a contact can have. Dates and years are not enumerated but split by month
  and leap year.
- `EchoesAreEarned`. The count a handler made is compared with what was ever
  heard, so the invariant carries the evidence: every row is a wish first
  recorded at the row's time (`EvidenceInv`), which needs that a wish about to be
  recorded was never swept, which needs that deliveries are young
  (`DeliveryInv`).
- `BurstsAreAnswered`, under the hypothesis that no window is longer than the
  retention; `settings.validate` sets no upper bound, and with a longer window the
  janitor takes votes away. While nothing fails and nothing is edited, `BurstInv`
  says of every group that it has a row young enough for all its wishes
  (`Answered`), too few voters in the window (`Below`), or a handler whose decision
  will take in all of its wishes (`Covers`). A new wish makes its recorder the one
  that covers; a handler that returns from its count leaves `Below`, since by
  `EvidenceInv` it counted everybody in the window; one that returns from the
  cooldown check, or logs, leaves `Answered`.
- `SerialEchoesAreSpaced`, under the hypothesis that there is one handler. Every
  posted message of an existing group has its row, is still to get it, or is
  counted as lost (`Accounted`), and a handler past the cooldown check sees all
  earlier rows behind it (`RowsBehind`).
- `MaskNeverStored` and `TableStaysValid`, for any number of overlapping requests.
  The invariant adds what a request carries: what it has loaded is a valid
  configuration without a mask at every point of a `Load` that reads a table
  changing under it, and what it is about to write has been resolved and validated.
- `SavesImplementStore`, for one request: its initial state and every step map to
  `ConfigStore`. `SerialInv` relates what the request loaded, key by key, to the
  table, and what it will write to what the document asks for.
- `PollersNeverOverlap`. `OnePoller` is not inductive: it does not say whose the
  poller is. `Owned` does: a live poller is the owner's or the one `stop` waits
  for, never one of each, and nothing is owned where a poller is started.
- `MessagesHandledFirst` and `RepeatsExcused`, on top of that: `Delivery` says of
  every message handed over and not excused that it is off the queue or in the
  hand of a poller about to delete it. That no other poller takes it meanwhile is
  `OnePoller`.
- `SendsArePaced`. `Paced` compares a call with the last one of its limiter; the
  invariant keeps the slots promised to waiting calls an interval apart from each
  other, from the token and from the last call, so that a returned token (only the
  newest slot's) opens no gap.
- `AnswersAreHonest`, from an invariant (`CopyInv`) on each call's copies and failed
  attempts.

- `GroupsStayImpersonal`: a text that renders alike for readers of different names has no
  placeholder (`SameForAll`), one that suits readers of different genders and relations is for
  anyone (`SuitsAll`), so the code's filter and the readers agree (`NameFree`).
- `ClosestIsSent` and `FallbackIsShown`. `Pick`'s loop knows,
  after each candidate, the best score so far and who has it (`Knows`, `PickFindsBest`);
  the best scores are the templates with nothing closer (`BestIsClosest`), which is
  where the weights matter: gender alone has to beat relation alone. `FallbackShows` is not
  inductive on its own account: it needs that the code's two picks fall back exactly when the
  reference says English stands in (`SendStandsIn`, `EchoStandsIn`).
- `MatchSpeaks`: the matcher against the reference, for all texts. Its chain: NFD and the
  loop of `Normalize` together take one turn per character (`Reading`); a turn writes exactly
  the positions that are heard (`HearOne`), of which `TrimSpace` keeps those that count
  (`TrimReads`); positions can be numbered in order in one way (`OneEnumeration`), so the
  result is the words the text spells (`NormalizeIsPlain`), and a part of the one is a part
  of the other (`PlainContains`).
- `WishesAreSaid`, `WishesAreCurrent` and `NothingIsMissed`. None is inductive: each looks
  at the end of a delivery. `IInv` follows it there: what an edit since its arrival has
  left true (`Underway`), what it has passed (`Passed`: vouched for, genuine, of the
  watched group, matched by a row it was held against), and that nothing is recorded before
  its end (`Unrecorded`), so that the wish is judged by its own delivery's payload. That every payload shape
  parses to what was said, or is dropped for a reason the properties name, is
  `IgnoredExactly`; that a handler lets a delivery pass exactly when it is to be trusted,
  `AuthorisedIsTrusted`.

The loops are FoldLeft over sequences. What a fold computes is shown by an induction
over its length, from the well-ordering of the naturals (`LeastNatural`, `Inductive`
in `FoldProofs`): the set of counterexamples has a least member.

The assumptions are named in the modules: bounds are numbers; `None`, `NotSet` and the
like are not values they stand beside; a watched chat is a group's (the validator asks
for @g.us); readers differ in gender, relation and name; the characters' three kinds are disjoint; `Said` and the patterns spell their
words; there are finitely many templates.

Model-checked only: `DueIsBlessed`, `FollowsSettings` and `QueueDrains`, as liveness
is beyond the prover. The runs with `expect: violation` refute, so there is nothing to
prove about them. Every safety property of a passing run is a theorem.

## Not modelled

- Formats: parsing of dates, clock times, phone numbers and JSON, the syntax of regular
  expressions beyond a literal body. That `receiveNotification`'s
  answer cannot be decoded as a whole (its receipt is then never deleted) is left to the gateway.
- Which event type a group's burst celebrates (`eventTypeFor`, a constant today).
- `Status`, `ListGroups` and the building of requests in the two clients: stateless
  calls whose result only the settings page sees.
- Start-up order, migrations, seeding, the key file, the health check; logging, metrics,
  the cipher itself (a sealed secret opens to what was sealed), the browser UI.
- The history feed and the counter of a notice: read-only listings.
- Timestamps are instants: that their text form orders wrongly within a second is
  listed as a hazard without a property, as is a wall clock or zone set back.
- The sender's id of one person differs between the gateways (`@s.whatsapp.net`, `@c.us`): after a
  switch of provider inside a window somebody can count twice. `Intake` has one
  spelling of a person, and `GroupEcho` takes a sender for a person.

## Plan

1. Done: every service, the way in and the way out, with their proofs; two abstract
   specifications (`ConfigStore`, `BlessingLedger`) and their refinements.
2. Next: the gateways' ids of a person, to state what a switch of provider does to a
   burst; the composition of `Intake` with `GroupEcho`, so that a repeat may come in
   another shape than the first delivery.
3. Next to prove: with that composition, that a wish `GroupEcho` counts is one `Intake`
   records; a bound on the messages of one event year (one for each send set out on while
   the log had no row), which `KeepsBook` implies but no property states.
