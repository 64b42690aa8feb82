------------------------------ MODULE Listener ------------------------------
(***************************************************************************)
(* internal/service/listener and provider/greenapi's Poller, over the      *)
(* stored configuration as ConfigStore, which Settings implements, lets it *)
(* change.  The supervisor reconciles: it loads the settings (one call per *)
(* key, while a PUT writes them) and replaces the poller goroutine when    *)
(* the one it started is not the one they ask for.                         *)
(* A poller takes receipts off GreenAPI's queue one at a time, hands them  *)
(* to HandleIncoming and deletes them.  putSettings's rebuild wakes the    *)
(* supervisor, its ticker does anyway, SIGTERM ends everything.            *)
(***************************************************************************)
EXTENDS ConfigStore

CONSTANTS
  Pollers,     \* identities of poller goroutines; one that returned can be used again
  Receipts,    \* receipt ids of the notifications in the instance's queue, oldest first
  Messages,    \* those of them that ParseWebhook makes a message of
  Account,     \* the instance and token the queue can be read with
  MaxFaults, MaxStops   \* bounds on failures, and on crashes and SIGTERMs

Fingerprints == [instance: Ids, token: Secrets]

ASSUME BoundAssumption == MaxFaults \in Nat /\ MaxStops \in Nat
ASSUME PollerAssumption == None \notin Pollers \cup Fingerprints /\ Account \in Fingerprints
ASSUME QueueAssumption ==
  /\ Receipts \subseteq Nat \ {0} /\ Messages \subseteq Receipts
  /\ None \notin Receipts

VARIABLES
  wake,         \* the channel of Notify holds a token
  stopping,     \* the supervisor's context is cancelled
  sup, toRead,  \* the supervisor's next step, and the keys its Load still reads
  current,      \* the settings that Load has put together so far
  owner,        \* s.cancel and s.done: the poller it started last and has not stopped
  fingerprint,  \* s.fingerprint
  leaving,      \* the poller that stop is waiting for
  poller,       \* where each poller is, its configuration, its context and its receipt
  queue,        \* GreenAPI's queue, the receipts not deleted yet
  handled,      \* history: how often each message was handed over, up to two
  excused,      \* history: messages whose receipt's deletion failed or was cut off
  spent         \* faults and stops so far

stores == <<config, put, active>>
vars == <<stores, wake, stopping, sup, toRead, current, owner, fingerprint, leaving,
          poller, queue, handled, excused, spent>>
supervisor == <<sup, toRead, current, owner, fingerprint, leaving>>
external == <<queue, handled, excused>>

\* reconcile's Load and decision, stop with what follows it, start, select, the end of Run.
SupLabels == {"load", "decide", "swap", "turnOff", "quit", "start", "select", "ended"}
PollLabels == {"gone", "poll", "handle", "delete", "deleteApart"}
Idle == [at |-> "gone", config |-> None, cancelled |-> FALSE, receipt |-> None]

TypeOK ==
  /\ wake \in BOOLEAN /\ stopping \in BOOLEAN
  /\ sup \in SupLabels /\ toRead \in SUBSET Keys
  /\ current \in Config
  /\ owner \in Pollers \cup {None} /\ leaving \in Pollers \cup {None}
  /\ fingerprint \in Fingerprints \cup {None}
  /\ poller \in [Pollers -> [at: PollLabels, config: Fingerprints \cup {None},
                             cancelled: BOOLEAN, receipt: Receipts \cup {None}]]
  /\ queue \in SUBSET Receipts
  /\ handled \in [Messages -> 0 .. 2]
  /\ excused \in SUBSET Messages
  /\ spent \in [faults: 0 .. MaxFaults, stops: 0 .. MaxStops]

ListenerInit ==
  /\ Init
  /\ wake = FALSE /\ stopping = FALSE
  /\ sup = "load" /\ toRead = Keys /\ current = DefaultConfig
  /\ owner = None /\ fingerprint = None /\ leaving = None
  /\ poller = [p \in Pollers |-> Idle]
  /\ queue = Receipts
  /\ handled = [m \in Messages |-> 0]
  /\ excused = {}
  /\ spent = [faults |-> 0, stops |-> 0]

SpendFault ==
  /\ spent.faults < MaxFaults
  /\ spent' = [spent EXCEPT !.faults = @ + 1]
SpendStop ==
  /\ spent.stops < MaxStops
  /\ spent' = [spent EXCEPT !.stops = @ + 1]

Alive(p) == poller[p].at # "gone"
\* pollCtx: cancelled by stop, or with the supervisor's own context.
Cancelled(p) == poller[p].cancelled \/ stopping

-----------------------------------------------------------------------------
(* The supervisor: Run, reconcile, start, stop *)

\* Mutant: Load starts from the zero Settings.
BeginLoadEmpty ==
  /\ sup' = "load"
  /\ toRead' = Keys
  /\ current' = [k \in Keys |-> [id |-> Blank, mode |-> "", secret |-> Empty]]

BeginLoad ==
  /\ sup' = "load"
  /\ toRead' = Keys
  /\ current' = DefaultConfig

\* reconcile is over, its locals are gone; Run waits in select.
AwaitWake ==
  /\ sup' = "select"
  /\ toRead' = {}
  /\ current' = DefaultConfig

SupRead(k) ==
  /\ sup = "load" /\ ~stopping
  /\ k \in toRead /\ ("provider" \in toRead => k = "provider")
  /\ current' = [current EXCEPT ![k] = config[k]]
  /\ toRead' = toRead \ {k}
  /\ sup' = IF toRead = {k} THEN "decide" ELSE "load"
  /\ UNCHANGED <<stores, spent, wake, stopping, owner, fingerprint, leaving, poller, external>>

\* Mutant: Run returns when a reconcile fails.
SupReadFailsForGood ==
  /\ sup = "load"
  /\ IF stopping THEN UNCHANGED spent ELSE SpendFault
  /\ sup' = "ended"
  /\ UNCHANGED <<stores, wake, stopping, toRead, current, owner, fingerprint, leaving, poller, external>>

\* The error is logged, and Run waits for the next wake-up.
SupReadFails ==
  /\ sup = "load"
  /\ IF stopping THEN UNCHANGED spent ELSE SpendFault
  /\ AwaitWake
  /\ UNCHANGED <<stores, wake, stopping, owner, fingerprint, leaving, poller, external>>

\* The first half of stop: forget the poller, cancel its context; the second
\* half waits for it.  `after` is what the caller does then.
BeginStop(after) ==
  /\ sup' = after
  /\ owner' = None /\ fingerprint' = None
  /\ leaving' = owner
  /\ poller' = IF owner = None THEN poller ELSE [poller EXCEPT ![owner].cancelled = TRUE]

\* Not wanted, already the one that runs, or to be replaced: the running
\* poller holds its credentials in its client.
Reconcile ==
  LET desired == desiredPoller(current)
  IN /\ sup = "decide"
     /\ IF desired = None THEN BeginStop("turnOff") /\ UNCHANGED <<toRead, current>>
        ELSE IF owner # None /\ fingerprint = desired
        THEN AwaitWake /\ UNCHANGED <<owner, fingerprint, leaving, poller>>
        ELSE BeginStop("swap") /\ UNCHANGED <<toRead, current>>
     /\ UNCHANGED <<stores, spent, wake, stopping, external>>

\* What stop's caller does next: start, go back to select, or end.
AfterStop ==
  \/ sup = "swap" /\ sup' = "start" /\ UNCHANGED <<toRead, current>>
  \/ sup = "turnOff" /\ AwaitWake
  \/ sup = "quit" /\ sup' = "ended" /\ UNCHANGED <<toRead, current>>

\* Mutant: stop does not wait for the poller to return.
StopNoWait ==
  /\ leaving' = None
  /\ AfterStop
  /\ UNCHANGED <<stores, spent, wake, stopping, owner, fingerprint, poller, external>>

\* <-done: the poller has returned.
Stopped ==
  /\ leaving # None => ~Alive(leaving)
  /\ leaving' = None
  /\ AfterStop
  /\ UNCHANGED <<stores, spent, wake, stopping, owner, fingerprint, poller, external>>

\* start: desiredPoller has checked all that greenapi.New asks for.  Goroutines
\* have no identity of their own, so the new one takes the first that is free.
Start(p) ==
  LET desired == desiredPoller(current)
  IN /\ sup = "start" /\ ~Alive(p) /\ p = CHOOSE free \in Pollers : ~Alive(free)
     /\ poller' = [poller EXCEPT ![p] = [at |-> "poll", config |-> desired,
                                         cancelled |-> FALSE, receipt |-> None]]
     /\ owner' = p /\ fingerprint' = desired
     /\ AwaitWake
     /\ UNCHANGED <<stores, spent, wake, stopping, leaving, external>>

\* select takes the token of Notify, or a tick, which leaves the token there.
WakeUp ==
  /\ sup = "select"
  /\ wake' \in {wake, FALSE}
  /\ BeginLoad
  /\ UNCHANGED <<stores, spent, stopping, owner, fingerprint, leaving, poller, external>>

\* The context is done: Run stops the poller and returns.
Quit ==
  /\ sup = "select" /\ stopping
  /\ BeginStop("quit")
  /\ UNCHANGED <<stores, spent, wake, stopping, toRead, current, external>>

-----------------------------------------------------------------------------
(* A poller goroutine: Run, pollOnce, deleteNotification *)

NextPoll(p) == poller' = [poller EXCEPT ![p].at = "poll", ![p].receipt = None]
PollerOnly == UNCHANGED <<stores, wake, stopping, supervisor>>

Oldest(receipt) == receipt \in queue /\ \A other \in queue : receipt <= other

\* Mutant: a receipt that is no message is skipped, not deleted.
ReceiveSkipping(p) ==
  \E receipt \in Messages :
    /\ poller[p].at = "poll" /\ ~Cancelled(p)
    /\ poller[p].config = Account /\ Oldest(receipt)
    /\ poller' = [poller EXCEPT ![p].at = "handle", ![p].receipt = receipt]
    /\ PollerOnly /\ UNCHANGED <<spent, external>>

\* receiveNotification returns the oldest receipt, which stays in the queue until
\* it is deleted; what is no message goes straight to its deletion.
Receive(p) ==
  \E receipt \in Receipts :
    /\ poller[p].at = "poll" /\ ~Cancelled(p)
    /\ poller[p].config = Account /\ Oldest(receipt)
    /\ poller' = [poller EXCEPT ![p].at = IF receipt \in Messages THEN "handle" ELSE "delete",
                                ![p].receipt = receipt]
    /\ PollerOnly /\ UNCHANGED <<spent, external>>

\* Run returns when its context is cancelled, also from inside the call or a pause.
Return(p) ==
  /\ poller[p].at = "poll" /\ Cancelled(p)
  /\ poller' = [poller EXCEPT ![p] = Idle]
  /\ PollerOnly /\ UNCHANGED <<spent, external>>

\* Mutant: a message that arrives while the poller is being stopped is not handed over.
HandleUnlessCancelled(p) ==
  LET m == poller[p].receipt
  IN /\ poller[p].at = "handle"
     /\ handled' = IF Cancelled(p) THEN handled
                   ELSE [handled EXCEPT ![m] = IF @ < 2 THEN @ + 1 ELSE @]
     /\ poller' = [poller EXCEPT ![p].at = IF Cancelled(p) THEN "deleteApart" ELSE "delete"]
     /\ PollerOnly /\ UNCHANGED <<spent, queue, excused>>

\* HandleIncoming returns, with or without an error; deleteNotification looks
\* at the context before it chooses one of its own.
Handle(p) ==
  LET m == poller[p].receipt
  IN /\ poller[p].at = "handle"
     /\ handled' = [handled EXCEPT ![m] = IF @ < 2 THEN @ + 1 ELSE @]
     /\ poller' = [poller EXCEPT ![p].at = IF Cancelled(p) THEN "deleteApart" ELSE "delete"]
     /\ PollerOnly /\ UNCHANGED <<spent, queue, excused>>

\* Mutant: deleteNotification keeps the cancelled context, its call does nothing.
DeleteInContext(p) ==
  /\ poller[p].at \in {"delete", "deleteApart"}
  /\ queue' = IF poller[p].at = "deleteApart" THEN queue ELSE queue \ {poller[p].receipt}
  /\ NextPoll(p)
  /\ PollerOnly /\ UNCHANGED <<spent, handled, excused>>

Delete(p) ==
  /\ poller[p].at \in {"delete", "deleteApart"}
  /\ queue' = queue \ {poller[p].receipt}
  /\ NextPoll(p)
  /\ PollerOnly /\ UNCHANGED <<spent, handled, excused>>

\* The deletion fails, by a fault or because its context is cancelled under
\* it: the receipt comes again.
DeleteFails(p) ==
  /\ \/ poller[p].at \in {"delete", "deleteApart"} /\ SpendFault
     \/ poller[p].at = "delete" /\ Cancelled(p) /\ UNCHANGED spent
  /\ excused' = excused \cup ({poller[p].receipt} \cap Messages)
  /\ NextPoll(p)
  /\ PollerOnly /\ UNCHANGED <<queue, handled>>

-----------------------------------------------------------------------------
(* The requests, and the process *)

\* PUT requests on their way to the rebuild, or to an error before it.
Request ==
  /\ \/ \E doc \in Payloads : Begin(doc) /\ ~stopping
     \/ \E k \in Keys : WriteSection(k)
     \/ GiveUp
  /\ UNCHANGED <<wake, stopping, supervisor, poller, external, spent>>

\* main's rebuild: Notify is deferred, whether the provider could be built or not.
RebuildAndNotify ==
  /\ Done
  /\ wake' = TRUE
  /\ UNCHANGED <<stopping, supervisor, poller, external, spent>>

Sigterm ==
  /\ ~stopping /\ SpendStop
  /\ stopping' = TRUE
  /\ UNCHANGED <<stores, wake, supervisor, poller, external>>

\* What the pollers of the old process held is not deleted any more.
BootListener ==
  /\ wake' = FALSE /\ stopping' = FALSE
  /\ BeginLoad
  /\ owner' = None /\ fingerprint' = None /\ leaving' = None
  /\ poller' = [p \in Pollers |-> Idle]
  /\ excused' = excused \cup ({poller[p].receipt : p \in Pollers} \cap Messages)
  /\ UNCHANGED <<queue, handled>>

Crash == SpendStop /\ Restart /\ BootListener

\* After SIGTERM the process ends and is started again.
StartAgain ==
  /\ stopping /\ sup = "ended"
  /\ Restart /\ UNCHANGED spent
  /\ BootListener

SupStep ==
  \/ \E k \in Keys : SupRead(k)
  \/ SupReadFails
  \/ Reconcile
  \/ Stopped
  \/ \E p \in Pollers : Start(p)
  \/ WakeUp
  \/ Quit

PollStep(p) == Receive(p) \/ Return(p) \/ Handle(p) \/ Delete(p) \/ DeleteFails(p)

ListenerNext ==
  \/ SupStep
  \/ \E p \in Pollers : PollStep(p)
  \/ Request
  \/ RebuildAndNotify
  \/ Sigterm
  \/ Crash
  \/ StartAgain

ListenerSpec == ListenerInit /\ [][ListenerNext]_vars

\* The supervisor and every poller keep running, a stopped process is started
\* again.  A done context is always ready, ticks come every 30 s: select cannot
\* prefer ticks for ever (Quit).  Nothing is assumed of requests, of SIGTERM or of failures.
Fairness ==
  /\ WF_vars(SupStep) /\ SF_vars(Quit)
  /\ \A p \in Pollers : WF_vars(PollStep(p))
  /\ WF_vars(StartAgain)
FairSpec == ListenerSpec /\ Fairness

-----------------------------------------------------------------------------
(* Properties *)

\* The comment of stop: a replacement never overlaps with its predecessor.
OnePoller == \A p, q \in Pollers : Alive(p) /\ Alive(q) => p = q

\* No message leaves GreenAPI's queue before HandleIncoming has had it.
HandledBeforeDeleted == \A m \in Messages : handled[m] = 0 => m \in queue

\* A message is handed over again only if the deletion of its receipt failed,
\* or was cut off by a cancelled context or the end of the process.
RepeatsAreExcused == \A m \in Messages : handled[m] > 1 => m \in excused

\* The poller the stored settings ask for is the one that runs.
InStep ==
  LET desired == desiredPoller(config)
  IN IF desired = None THEN \A p \in Pollers : ~Alive(p)
     ELSE \E p \in Pollers : Alive(p) /\ poller[p].config = desired

\* Once the stored settings stay as they are, the poller they ask for comes to
\* run and stays, whatever a reconcile had read before and whatever Notify did.
FollowsSettings == <>[][FALSE]_config => <>[]InStep

\* While the settings ask for the poller of this queue, the queue is emptied:
\* no receipt blocks the ones behind it.
QueueDrains == <>[](desiredPoller(config) = Account) => <>(queue = {})
=============================================================================
