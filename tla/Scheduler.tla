----------------------------- MODULE Scheduler -----------------------------
(***************************************************************************)
(* internal/service/scheduler over the contacts, settings and send_log     *)
(* tables of internal/store.  Two kinds of actor share the database with   *)
(* no lock between them: the tick loop (Scheduler.Run, one tick at a time) *)
(* and the HTTP requests that call Scheduler.SendNow.  Every database call *)
(* is one atomic step (the pool holds one connection), everything between  *)
(* two calls can interleave, and the process can be stopped by SIGTERM or  *)
(* die at any point and start again over the same database.                *)
(***************************************************************************)
EXTENDS Dates, Sequences, FiniteSets

CONSTANTS
  ContactIds,   \* ids the contacts table can hand out; AUTOINCREMENT never reuses one
  EventDates,   \* the event dates in use, records [month, day]
  OwnTimes,     \* the send times a contact can have of its own, minutes of the day
  SendTimes,    \* the general send times an operator can choose
  TimeZones,    \* the time zones an operator can choose
  LastInstant,  \* the clock runs through the instants 0 .. LastInstant
  Local,        \* Local[z][t]: instant t as zone z reads it (time.In)
  Requests,     \* HTTP requests that call SendNow
  Ticker,       \* the goroutine of Scheduler.Run
  None,         \* nil: no contact, no job, no tick under way
  Unused, Deleted,  \* a contact id not handed out yet, and one whose row is gone
  Attempts,     \* HTTP attempts of one SendText (Transport.attempts)
  MaxFaults, MaxStops, MaxEdits  \* bounds on failures, SIGTERMs and operator edits

Instants == 0 .. LastInstant
LocalTimes == {Local[z][t] : z \in TimeZones, t \in Instants}
\* event_year NULL, the key of a forced send.
NoYear == 0
Years == {t.year : t \in LocalTimes}
Actors == Requests \cup {Ticker}
Contact == [enabled: BOOLEAN, eventDate: EventDates, sendTime: OwnTimes \cup {NoTime}]
\* The scheduler group (validate wants a send time), and whether factory.Build
\* can make a provider of the rest.
Settings == [timezone: TimeZones, sendTime: SendTimes, usable: BOOLEAN]
\* What a send is recorded under: the contact and the event year.
Keys == ContactIds \X (Years \cup {NoYear})
\* One row of send_log (kind 'scheduled'); contact None is contact_id NULL.
Row == [contact: ContactIds \cup {None}, year: Years \cup {NoYear}, status: {"sent", "failed"}]
Tick == [now: LocalTimes, sendTime: SendTimes]

\* Where an actor is: the tick loop's own steps, a request's, deliver's.
Labels == {"idle", "list", "scan", "new", "year", "check",
           "prepare", "send", "logSent", "logFailed", "done"}

ASSUME NatAssumption ==
  /\ LastInstant \in Nat /\ Attempts \in Nat \ {0}
  /\ MaxFaults \in Nat /\ MaxStops \in Nat /\ MaxEdits \in Nat
ASSUME LocalAssumption ==
  /\ Local \in [TimeZones -> [Instants -> [year: Nat, month: 1 .. 12, day: 1 .. 31, minute: Minutes]]]
  /\ NoYear \notin Years
ASSUME ActorAssumption == IsFiniteSet(Requests) /\ Ticker \notin Requests
ASSUME NoneAssumption ==
  /\ None \notin ContactIds \cup Keys \cup Tick
  /\ Unused # Deleted /\ {Unused, Deleted} \cap Contact = {}

VARIABLES
  now,        \* the instant on the wall clock
  contacts,   \* the contacts table
  settings,   \* the settings table
  active,     \* the provider manager holds a provider
  sendLog,    \* send_log, in id order
  pc, job,    \* where each actor is, and the key it is sending for
  tick,       \* `now` and `current` of the tick under way
  snapshot,   \* the contacts this tick has listed and not visited yet
  stopping,   \* groupCtx is cancelled
  received,   \* history: messages the recipient got, per key
  doubtful,   \* history: messages, per key, whose send ended in an error of
              \* deliver or with the process
  repeats,    \* history: copies, per key, that the transport's own retries put
              \* out before SendText succeeded; it logs them at Debug only
  spent       \* faults, stops and edits so far

vars == <<now, contacts, settings, active, sendLog, pc, job, tick, snapshot,
          stopping, received, doubtful, repeats, spent>>
store == <<contacts, settings, sendLog>>
history == <<received, doubtful, repeats>>

TypeOK ==
  /\ now \in Instants
  /\ contacts \in [ContactIds -> Contact \cup {Unused, Deleted}]
  /\ settings \in Settings
  /\ active \in BOOLEAN
  /\ sendLog \in Seq(Row)
  /\ pc \in [Actors -> Labels]
  /\ job \in [Actors -> Keys \cup {None}]
  /\ tick \in Tick \cup {None}
  /\ snapshot \in UNION {[S -> Contact] : S \in SUBSET ContactIds}
  /\ stopping \in BOOLEAN
  /\ received \in [Keys -> Nat] /\ doubtful \in [Keys -> Nat] /\ repeats \in [Keys -> Nat]
  /\ spent \in [faults: 0 .. MaxFaults, stops: 0 .. MaxStops, edits: 0 .. MaxEdits]

Init ==
  /\ now = 0
  /\ contacts \in [ContactIds -> Contact \cup {Unused}]
  /\ settings \in Settings
  /\ active = settings.usable
  /\ sendLog = <<>>
  /\ pc = [p \in Actors |-> IF p = Ticker THEN "idle" ELSE "new"]
  /\ job = [p \in Actors |-> None]
  /\ tick = None
  /\ snapshot = [c \in {} |-> None]
  /\ stopping = FALSE
  /\ received = [k \in Keys |-> 0] /\ doubtful = [k \in Keys |-> 0] /\ repeats = [k \in Keys |-> 0]
  /\ spent = [faults |-> 0, stops |-> 0, edits |-> 0]

-----------------------------------------------------------------------------
(* Helpers *)

LocalNow == Local[settings.timezone][now]
Exists(c) == contacts[c] \in Contact

\* Spending from a bound; the guard is what bounds the model.
SpendFaults(n) ==
  /\ spent.faults + n <= MaxFaults
  /\ spent' = [spent EXCEPT !.faults = @ + n]

\* A call fails of its own accord (a fault), or because the tick loop's
\* context is cancelled; the requests' contexts outlive SIGTERM.
CallFails(p) ==
  \/ p # Ticker /\ SpendFaults(1)
  \/ p = Ticker /\ ~stopping /\ SpendFaults(1)
  \/ p = Ticker /\ stopping /\ UNCHANGED spent
CallWorks(p) == (p = Ticker => ~stopping) /\ UNCHANGED spent

\* The partial unique index idx_send_log_scheduled_once has this key.
Recorded(k) ==
  \E i \in DOMAIN sendLog :
    sendLog[i].contact = k[1] /\ sendLog[i].year = k[2] /\ sendLog[i].status = "sent"

\* Mutant: the status filter is missing, a failed attempt counts.
HasAnyScheduledSend(k) ==
  \E i \in DOMAIN sendLog : sendLog[i].contact = k[1] /\ sendLog[i].year = k[2]

\* A 'sent' row of this contact and event year exists.
HasSuccessfulScheduledSend(k) == Recorded(k)

\* The in-memory conditions of isDue; the send log is read in Visit.
Due(row, general, local) ==
  /\ row.enabled
  /\ DueOn(row.eventDate, local)
  /\ ClockPassed(EffectiveSendTime(row.sendTime, general), local)

\* deliver returns: the tick goes on to its next contact, a request is answered.
Return(p) ==
  /\ pc' = [pc EXCEPT ![p] = IF p = Ticker THEN "scan" ELSE "done"]
  /\ job' = [job EXCEPT ![p] = None]

-----------------------------------------------------------------------------
(* The tick loop *)

\* Tick: settings.Load, LoadLocation and the one reading of the clock this
\* tick will use.  After SIGTERM, Run returns instead.
TickLoad ==
  /\ pc[Ticker] = "idle" /\ ~stopping
  /\ tick' = [now |-> LocalNow, sendTime |-> settings.sendTime]
  /\ pc' = [pc EXCEPT ![Ticker] = "list"]
  /\ UNCHANGED <<now, store, active, job, snapshot, stopping, history, spent>>

\* ListContacts: the rows every later step of this tick works from.
TickList ==
  /\ pc[Ticker] = "list"
  /\ CallWorks(Ticker)
  /\ snapshot' = [c \in {d \in ContactIds : Exists(d)} |-> contacts[c]]
  /\ pc' = [pc EXCEPT ![Ticker] = "scan"]
  /\ UNCHANGED <<now, store, active, job, tick, stopping, history>>

\* A failed Load, LoadLocation or ListContacts abandons the whole pass.
TickAbandon ==
  /\ pc[Ticker] = "list"
  /\ CallFails(Ticker)
  /\ tick' = None
  /\ pc' = [pc EXCEPT ![Ticker] = "idle"]
  /\ UNCHANGED <<now, store, active, job, snapshot, stopping, history>>

\* isDue for the next contact, and the start of its send.  The name order of
\* the listing is arbitrary: any remaining contact can be next.
Visit(c) ==
  LET row == snapshot[c]
      k == <<c, tick.now.year>>
      due == Due(row, tick.sendTime, tick.now)
  IN /\ pc[Ticker] = "scan" /\ c \in DOMAIN snapshot
     /\ snapshot' = [d \in DOMAIN snapshot \ {c} |-> snapshot[d]]
     /\ \/ /\ due /\ ~HasSuccessfulScheduledSend(k) /\ CallWorks(Ticker)
           /\ pc' = [pc EXCEPT ![Ticker] = "prepare"]
           /\ job' = [job EXCEPT ![Ticker] = k]
        \/ /\ ~due /\ UNCHANGED spent
           /\ UNCHANGED <<pc, job>>
        \/ /\ due /\ HasSuccessfulScheduledSend(k) /\ CallWorks(Ticker)
           /\ UNCHANGED <<pc, job>>
        \/ /\ due /\ CallFails(Ticker)
           /\ UNCHANGED <<pc, job>>
     /\ UNCHANGED <<now, store, active, tick, stopping, history>>

TickEnd ==
  /\ pc[Ticker] = "scan" /\ DOMAIN snapshot = {}
  /\ tick' = None
  /\ pc' = [pc EXCEPT ![Ticker] = "idle"]
  /\ UNCHANGED <<now, store, active, job, snapshot, stopping, history, spent>>

-----------------------------------------------------------------------------
(* SendNow *)

\* GetContact: a missing or disabled contact (or a failed read) ends it.
SendNow(p, c) ==
  /\ pc[p] = "new" /\ ~stopping
  /\ \/ /\ Exists(c) /\ contacts[c].enabled
        /\ pc' = [pc EXCEPT ![p] = "year"]
        /\ job' = [job EXCEPT ![p] = <<c, NoYear>>]
     \/ /\ ~(Exists(c) /\ contacts[c].enabled)
        /\ pc' = [pc EXCEPT ![p] = "done"]
        /\ UNCHANGED job
  /\ UNCHANGED <<now, store, active, tick, snapshot, stopping, history, spent>>

\* Mutant: a forced send keeps the year it is for.
CurrentYearForcedToo(p) ==
  /\ pc[p] = "year"
  /\ pc' \in {[pc EXCEPT ![p] = "check"], [pc EXCEPT ![p] = "prepare"]}
  /\ job' = [job EXCEPT ![p] = <<job[p][1], LocalNow.year>>]
  /\ UNCHANGED <<now, store, active, tick, snapshot, stopping, history, spent>>

\* currentYear, then the fork on force: a forced send keeps the nil event
\* year and skips the dedupe.
CurrentYear(p) ==
  /\ pc[p] = "year"
  /\ \/ /\ pc' = [pc EXCEPT ![p] = "check"]
        /\ job' = [job EXCEPT ![p] = <<job[p][1], LocalNow.year>>]
     \/ /\ pc' = [pc EXCEPT ![p] = "prepare"]
        /\ UNCHANGED job
  /\ UNCHANGED <<now, store, active, tick, snapshot, stopping, history, spent>>

\* ErrAlreadySent ends the request.
CheckSent(p) ==
  /\ pc[p] = "check"
  /\ IF HasSuccessfulScheduledSend(job[p])
     THEN Return(p)
     ELSE pc' = [pc EXCEPT ![p] = "prepare"] /\ UNCHANGED job
  /\ UNCHANGED <<now, store, active, tick, snapshot, stopping, history, spent>>

\* A read before the send fails: nothing has happened yet.
RequestFails(p) ==
  /\ pc[p] \in {"new", "year", "check"} /\ (pc[p] = "new" => ~stopping)
  /\ CallFails(p)
  /\ Return(p)
  /\ UNCHANGED <<now, store, active, tick, snapshot, stopping, history>>

-----------------------------------------------------------------------------
(* deliver, by the tick loop or a request *)

\* Mutant: the row is written before the message is sent.
PrepareLogsFirst(p) ==
  /\ pc[p] = "prepare"
  /\ CallWorks(p) /\ pc' = [pc EXCEPT ![p] = "logSent"]
  /\ UNCHANGED <<now, store, active, job, tick, snapshot, stopping, history>>

\* ForContact, NormalizeChatID and Active: no template, a bad phone number or
\* no provider ends the send with nothing written.
Prepare(p) ==
  /\ pc[p] = "prepare"
  /\ \/ active /\ CallWorks(p) /\ pc' = [pc EXCEPT ![p] = "send"] /\ UNCHANGED job
     \/ ~active /\ Return(p) /\ UNCHANGED spent
     \/ CallFails(p) /\ Return(p)
  /\ UNCHANGED <<now, store, active, tick, snapshot, stopping, history>>

\* SendText returns success.  Each attempt of the transport whose answer was
\* lost is repeated, so n copies can be out, and deliver learns of one.
SendTextOk(p) ==
  \E n \in 1 .. Attempts :
    /\ pc[p] = "send" /\ (p = Ticker => ~stopping)
    /\ SpendFaults(n - 1)
    /\ received' = [received EXCEPT ![job[p]] = @ + n]
    /\ repeats' = [repeats EXCEPT ![job[p]] = @ + (n - 1)]
    /\ pc' = [pc EXCEPT ![p] = "logSent"]
    /\ UNCHANGED <<now, store, active, job, tick, snapshot, stopping, doubtful>>

\* SendText returns an error: refused, or accepted by the provider with the
\* answer lost, unreadable, or overtaken by the cancelled context.
SendTextFails(p) ==
  \E n \in 0 .. Attempts :
    /\ pc[p] = "send"
    /\ \/ SpendFaults(IF n = 0 THEN 1 ELSE n)
       \/ p = Ticker /\ stopping /\ n <= 1 /\ UNCHANGED spent
    /\ received' = [received EXCEPT ![job[p]] = @ + n]
    /\ doubtful' = [doubtful EXCEPT ![job[p]] = @ + n]
    /\ pc' = [pc EXCEPT ![p] = "logFailed"]
    /\ UNCHANGED <<now, store, active, job, tick, snapshot, stopping, repeats>>

\* Mutant: the partial unique index is missing.
AcceptsAnyRow(k, status) == Exists(k[1])

\* The constraints of send_log: contact_id references a row, and one 'sent'
\* row per contact and (non-null) event year.
Accepts(k, status) ==
  /\ Exists(k[1])
  /\ ~(status = "sent" /\ k[2] # NoYear /\ Recorded(k))

\* Mutant: a status the CHECK constraint does not know.
AppendUnknownStatus(k, status) ==
  sendLog' = Append(sendLog, [contact |-> k[1], year |-> k[2], status |-> "unknown"])

AppendRow(k, status) ==
  sendLog' = Append(sendLog, [contact |-> k[1], year |-> k[2], status |-> status])

\* The message is out: record it.  When the row is refused or the write
\* fails, nothing records the message and deliver returns the loud error.
LogSent(p) ==
  /\ pc[p] = "logSent"
  /\ \/ /\ Accepts(job[p], "sent") /\ CallWorks(p)
        /\ AppendRow(job[p], "sent")
        /\ UNCHANGED doubtful
     \/ /\ ~Accepts(job[p], "sent") /\ UNCHANGED spent
        /\ doubtful' = [doubtful EXCEPT ![job[p]] = @ + 1]
        /\ UNCHANGED sendLog
     \/ /\ CallFails(p)
        /\ doubtful' = [doubtful EXCEPT ![job[p]] = @ + 1]
        /\ UNCHANGED sendLog
  /\ Return(p)
  /\ UNCHANGED <<now, contacts, settings, active, tick, snapshot, stopping, received, repeats>>

\* SendText failed: record the attempt, if the database lets it.
LogFailed(p) ==
  /\ pc[p] = "logFailed"
  /\ \/ Accepts(job[p], "failed") /\ CallWorks(p) /\ AppendRow(job[p], "failed")
     \/ ~Accepts(job[p], "failed") /\ UNCHANGED <<spent, sendLog>>
     \/ CallFails(p) /\ UNCHANGED sendLog
  /\ Return(p)
  /\ UNCHANGED <<now, contacts, settings, active, tick, snapshot, stopping, history>>

\* Actors whose message is out and not recorded yet.
Pending(k) == {p \in Actors : pc[p] = "logSent" /\ job[p] = k}

-----------------------------------------------------------------------------
(* The operator, the clock and the process *)

SpendEdit ==
  /\ spent.edits < MaxEdits
  /\ spent' = [spent EXCEPT !.edits = @ + 1]

\* createContact, updateContact: every mutable field is written.
SaveContact(c, row) ==
  /\ contacts[c] # Deleted
  /\ SpendEdit
  /\ contacts' = [contacts EXCEPT ![c] = row]
  /\ UNCHANGED <<now, settings, active, sendLog, pc, job, tick, snapshot, stopping, history>>

\* DeleteContact, and ON DELETE SET NULL on its send_log rows.
DeleteContact(c) ==
  /\ Exists(c)
  /\ SpendEdit
  /\ contacts' = [contacts EXCEPT ![c] = Deleted]
  /\ sendLog' = [i \in DOMAIN sendLog |->
                  IF sendLog[i].contact = c THEN [sendLog[i] EXCEPT !.contact = None]
                                            ELSE sendLog[i]]
  /\ UNCHANGED <<now, settings, active, pc, job, tick, snapshot, stopping, history>>

\* putSettings: Rebuild installs a provider, or keeps what was there when the
\* new settings cannot build one (or a read after the save failed).
SaveSettings(s) ==
  /\ SpendEdit
  /\ settings' = s
  /\ active' \in {active, active \/ s.usable}
  /\ UNCHANGED <<now, contacts, sendLog, pc, job, tick, snapshot, stopping, history>>

TimePasses ==
  /\ now < LastInstant
  /\ now' = now + 1
  /\ UNCHANGED <<store, active, pc, job, tick, snapshot, stopping, history, spent>>

\* SIGTERM cancels groupCtx.
Sigterm ==
  /\ ~stopping /\ spent.stops < MaxStops
  /\ spent' = [spent EXCEPT !.stops = @ + 1]
  /\ stopping' = TRUE
  /\ UNCHANGED <<now, store, active, pc, job, tick, snapshot, history>>

\* The process is gone with everything in memory, and starts again, with a
\* provider if one can be built from the stored settings.
Restart ==
  /\ pc' = [p \in Actors |-> IF p = Ticker THEN "idle"
                             ELSE IF pc[p] = "new" THEN "new" ELSE "done"]
  /\ job' = [p \in Actors |-> None]
  /\ tick' = None
  /\ snapshot' = [c \in {} |-> None]
  /\ active' = settings.usable
  /\ stopping' = FALSE
  /\ doubtful' = [k \in Keys |-> doubtful[k] + Cardinality(Pending(k))]
  /\ UNCHANGED <<now, store, received, repeats>>

Crash == SpendFaults(1) /\ Restart

\* Run has returned and the server's 15 s drain is over: requests still in
\* flight go with the process.
Exit == stopping /\ pc[Ticker] = "idle" /\ UNCHANGED spent /\ Restart

-----------------------------------------------------------------------------
TickerStep == TickLoad \/ TickList \/ TickAbandon \/ TickEnd \/ \E c \in ContactIds : Visit(c)
RequestStep(p) == CurrentYear(p) \/ CheckSent(p) \/ RequestFails(p) \/ \E c \in ContactIds : SendNow(p, c)
Deliver(p) == Prepare(p) \/ SendTextOk(p) \/ SendTextFails(p) \/ LogSent(p) \/ LogFailed(p)
Operator ==
  \/ \E c \in ContactIds : DeleteContact(c) \/ \E row \in Contact : SaveContact(c, row)
  \/ \E s \in Settings : SaveSettings(s)

Next ==
  \/ TickerStep
  \/ \E p \in Requests : RequestStep(p)
  \/ \E p \in Actors : Deliver(p)
  \/ Operator
  \/ TimePasses
  \/ Sigterm
  \/ Crash
  \/ Exit

\* The tick loop never stops taking steps (time.Ticker, HTTP and database
\* timeouts) and a stopped process is started again; requests, the operator
\* and the clock owe nothing.
Fairness ==
  /\ WF_vars(TickerStep \/ Deliver(Ticker))
  /\ WF_vars(Exit)

Spec == Init /\ [][Next]_vars /\ Fairness

-----------------------------------------------------------------------------
(* Properties *)

\* Of the messages a contact gets under one event year, all but one are
\* announced: each still owes its row, or its send ended in an error deliver
\* returned (an answer or the row's write lost, the row refused by the index,
\* the context cancelled), or with the process.  The one exception is silent
\* in the code too: copies the transport's retries put out before SendText
\* succeeded, which only Outbound's AnswersBoundCopies bounds.  It is what
\* isDue, CheckSent and the index achieve together.
NoSilentDuplicate ==
  \A k \in Keys :
    k[2] # NoYear => received[k] <= 1 + Cardinality(Pending(k)) + doubtful[k] + repeats[k]

\* The 'sent' rows of a key.
SentRows(k) ==
  {i \in DOMAIN sendLog : sendLog[i] = [contact |-> k[1], year |-> k[2], status |-> "sent"]}

\* The send log never claims more messages to a contact than it got: deliver
\* writes 'sent' only after SendText, once per message, and deleting a contact
\* never moves rows to another one.
LogNeverOverclaims == \A k \in Keys : Cardinality(SentRows(k)) <= received[k]

\* A contact that is due while there is a provider gets this year's row,
\* whatever failed sends, crashes and restarts come first, unless it stops
\* being due (the day ends, the contact or the settings change) or a restart
\* finds settings no provider can be built from.  That some template fits the
\* contact is taken for granted: without one every send fails in ForContact,
\* which the bounded CallFails of Prepare does not do for ever.
DueNow(c) == active /\ Exists(c) /\ Due(contacts[c], settings.sendTime, LocalNow)
DueIsBlessed ==
  \A c \in ContactIds : DueNow(c) ~> (~DueNow(c) \/ Recorded(<<c, LocalNow.year>>))

\* The senders, messages and rows behind BlessingLedger's counts.
Claimants(k) == {p \in Actors : pc[p] \in {"prepare", "send"} /\ job[p] = k}
Claims == [k \in Keys |-> Cardinality(Claimants(k))]
Owed == [k \in Keys |-> Cardinality(Pending(k))]
Rows == [k \in Keys |-> Cardinality(SentRows(k))]
Closed == {c \in ContactIds : contacts[c] = Deleted}
Book == INSTANCE BlessingLedger WITH claims <- Claims, owed <- Owed, rows <- Rows, closed <- Closed

\* What is left of the promise of one blessing per year when a tick, a SendNow,
\* failures, restarts and deletions overlap: every send set out while the log had
\* no row of its year, a recorded year stays the end of it for whoever checks
\* later, and every message is recorded once, still owed, doubtful or a repeat.
KeepsBook == Book!Spec

\* README.md: "Each contact gets exactly one blessing per event per year,
\* enforced by the send log rather than by memory, so a restart never sends
\* twice."  Refuted by the run scheduler_sigterm.
AtMostOneBlessing ==
  \A k \in Keys : k[2] # NoYear => received[k] <= 1

=============================================================================
