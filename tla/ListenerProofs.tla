--------------------------- MODULE ListenerProofs ---------------------------
(***************************************************************************)
(* Theorems of Listener for any number of receipts, failures, crashes and  *)
(* SIGTERMs, and any stored configurations.  Three invariants, each built  *)
(* on the one before: types; who owns the poller that is alive; and what   *)
(* happened to every receipt that was taken off the queue or handed over.  *)
(***************************************************************************)
EXTENDS Listener, TLAPS

-----------------------------------------------------------------------------
(* Sections *)

(* The mask is resolved to the current secret, everything else is kept. *)
LEMMA ResolveType ==
  ASSUME NEW d \in Document, NEW s \in Section
  PROVE  Resolve(d, s) \in Section /\ Resolve(d, s).id = d.id
<1>1. CASE d.secret = Mask
  BY <1>1 DEF Resolve, Document, Section
<1>2. CASE d.secret # Mask
  BY <1>2 DEF Resolve, Document, Section
<1> QED
  BY <1>1, <1>2

(* The poller a configuration asks for has an instance and a token. *)
LEMMA DesiredType ==
  ASSUME NEW c \in Config
  PROVE  desiredPoller(c) \in [instance: Ids, token: Secrets] \cup {None}
<1>1. "greenapi" \in Keys
  BY KeyAssumption DEF Keys, ProviderNames
<1>2. c["greenapi"] \in Section
  BY <1>1 DEF Config
<1> QED
  BY <1>2 DEF desiredPoller, Section

-----------------------------------------------------------------------------
(* Types *)

StoreTypes == config \in Config /\ put \in Payloads \cup {None}
Types == TypeOK /\ StoreTypes

(* A fault or a stop is counted within its bound. *)
LEMMA SpendTypes ==
  ASSUME spent \in [faults: 0 .. MaxFaults, stops: 0 .. MaxStops], SpendFault \/ SpendStop
  PROVE  spent' \in [faults: 0 .. MaxFaults, stops: 0 .. MaxStops]
BY BoundAssumption, SMT DEF SpendFault, SpendStop

LEMMA InitTypes == ListenerInit => Types
<1> SUFFICES ASSUME ListenerInit PROVE Types
  OBVIOUS
<1>1. StoreTypes
  BY DefaultAssumption DEF ListenerInit, Init, StoreTypes
<1>2. poller \in [Pollers -> [at: PollLabels, config: Fingerprints \cup {None},
                             cancelled: BOOLEAN, receipt: Receipts \cup {None}]]
  BY DEF ListenerInit, Idle, PollLabels
<1>3. spent \in [faults: 0 .. MaxFaults, stops: 0 .. MaxStops]
  BY BoundAssumption DEF ListenerInit
<1>4. current \in Config
  BY DefaultAssumption DEF ListenerInit
<1>5. handled \in [Messages -> 0 .. 2]
  BY DEF ListenerInit
<1>6. sup \in SupLabels /\ wake \in BOOLEAN /\ stopping \in BOOLEAN
  BY DEF ListenerInit, SupLabels
<1>7. /\ toRead \in SUBSET Keys /\ owner \in Pollers \cup {None} /\ leaving \in Pollers \cup {None}
      /\ fingerprint \in Fingerprints \cup {None}
      /\ queue \in SUBSET Receipts /\ excused \in SUBSET Messages
  BY DEF ListenerInit
<1> QED
  BY <1>1, <1>2, <1>3, <1>4, <1>5, <1>6, <1>7 DEF Types, TypeOK

(* Saving keeps the stored configuration well typed. *)
LEMMA RequestTypes ==
  ASSUME Types, Request \/ RebuildAndNotify
  PROVE  Types'
<1>1. CASE Request
  <2>1. StoreTypes'
    <3>1. CASE \E doc \in Payloads : Begin(doc) /\ ~stopping
      BY <3>1 DEF Begin, Types, StoreTypes
    <3>2. ASSUME NEW k \in Keys, WriteSection(k)
          PROVE  StoreTypes'
      <4>1. put \in Payloads /\ k \in DOMAIN put
        BY <3>2 DEF WriteSection, Types, StoreTypes
      <4>2. put[k] \in Document
        BY <4>1, PayloadAssumption
      <4>3. config \in [Keys -> Section]
        BY DEF Types, StoreTypes, Config
      <4>4. Resolve(put[k], config[k]) \in Section
        BY <4>2, <4>3, ResolveType
      <4>5. config' = [config EXCEPT ![k] = Resolve(put[k], config[k])] /\ put' = put
        BY <3>2 DEF WriteSection
      <4>6. config' \in [Keys -> Section]
        BY <4>3, <4>4, <4>5
      <4> QED
        BY <4>5, <4>6 DEF Types, StoreTypes, Config
    <3>3. CASE GiveUp
      BY <3>3 DEF GiveUp, Types, StoreTypes
    <3> QED
      BY <1>1, <3>1, <3>2, <3>3 DEF Request
  <2>2. UNCHANGED <<wake, stopping, supervisor, poller, external, spent>>
    BY <1>1 DEF Request
  <2> QED
    BY <2>1, <2>2 DEF Types, TypeOK, supervisor, external
<1>2. CASE RebuildAndNotify
  BY <1>2 DEF RebuildAndNotify, Done, Types, TypeOK, StoreTypes, supervisor, external
<1> QED
  BY <1>1, <1>2

(* Stopping keeps the types of the supervisor and the pollers. *)
LEMMA BeginStopTypes ==
  ASSUME Types, NEW after \in SupLabels, BeginStop(after)
  PROVE  /\ sup' \in SupLabels
         /\ owner' \in Pollers \cup {None} /\ leaving' \in Pollers \cup {None}
         /\ fingerprint' \in Fingerprints \cup {None}
         /\ poller' \in [Pollers -> [at: PollLabels, config: Fingerprints \cup {None},
                                     cancelled: BOOLEAN, receipt: Receipts \cup {None}]]
BY DEF Types, TypeOK, BeginStop

(* Going back to select, or to a new reconcile, leaves typed locals. *)
LEMMA AwaitTypes ==
  ASSUME AwaitWake \/ BeginLoad
  PROVE  sup' \in SupLabels /\ toRead' \in SUBSET Keys /\ current' \in Config
BY DefaultAssumption DEF AwaitWake, BeginLoad, SupLabels

LEMMA SupervisorTypes ==
  ASSUME Types, SupStep
  PROVE  Types'
<1>1. ASSUME NEW k \in Keys, SupRead(k)
      PROVE  Types'
  <2>1. current' \in Config
    BY <1>1 DEF SupRead, Types, TypeOK, StoreTypes, Config
  <2>2. sup' \in SupLabels /\ toRead' \in SUBSET Keys
    BY <1>1 DEF SupRead, SupLabels, Types, TypeOK
  <2> QED
    BY <1>1, <2>1, <2>2 DEF SupRead, Types, TypeOK, StoreTypes, stores, external
<1>2. CASE SupReadFails
  <2>1. sup' \in SupLabels /\ toRead' \in SUBSET Keys /\ current' \in Config
    BY <1>2, AwaitTypes DEF SupReadFails
  <2>2. spent' \in [faults: 0 .. MaxFaults, stops: 0 .. MaxStops]
    BY <1>2, SpendTypes DEF SupReadFails, Types, TypeOK
  <2> QED
    BY <1>2, <2>1, <2>2 DEF SupReadFails, Types, TypeOK, StoreTypes, stores, external
<1>3. CASE Reconcile
  <2>1. CASE AwaitWake /\ UNCHANGED <<owner, fingerprint, leaving, poller>>
    <3>1. sup' \in SupLabels /\ toRead' \in SUBSET Keys /\ current' \in Config
      BY <2>1, AwaitTypes
    <3> QED
      BY <1>3, <2>1, <3>1 DEF Reconcile, Types, TypeOK, StoreTypes, stores, external
  <2>2. ASSUME NEW after \in {"turnOff", "swap"}, BeginStop(after), UNCHANGED <<toRead, current>>
        PROVE  Types'
    <3>1. after \in SupLabels
      BY DEF SupLabels
    <3> QED
      BY <1>3, <2>2, <3>1, BeginStopTypes DEF Reconcile, Types, TypeOK, StoreTypes, stores, external
  <2> QED
    BY <1>3, <2>1, <2>2 DEF Reconcile
<1>4. CASE Stopped
  <2>1. sup' \in SupLabels /\ toRead' \in SUBSET Keys /\ current' \in Config
    <3>1. CASE AwaitWake
      BY <3>1, AwaitTypes
    <3>2. CASE sup' \in {"start", "ended"} /\ UNCHANGED <<toRead, current>>
      BY <3>2 DEF SupLabels, Types, TypeOK
    <3> QED
      BY <1>4, <3>1, <3>2 DEF Stopped, AfterStop
  <2> QED
    BY <1>4, <2>1 DEF Stopped, Types, TypeOK, StoreTypes, stores, external
<1>5. ASSUME NEW p \in Pollers, Start(p)
      PROVE  Types'
  <2>1. sup' \in SupLabels /\ toRead' \in SUBSET Keys /\ current' \in Config
    BY <1>5, AwaitTypes DEF Start
  <2>2. desiredPoller(current) \in Fingerprints \cup {None}
    BY DesiredType DEF Types, TypeOK, Fingerprints
  <2>3. poller' = [poller EXCEPT ![p] = [at |-> "poll", config |-> desiredPoller(current),
                                         cancelled |-> FALSE, receipt |-> None]]
    BY <1>5 DEF Start
  <2>4. poller' \in [Pollers -> [at: PollLabels, config: Fingerprints \cup {None},
                                 cancelled: BOOLEAN, receipt: Receipts \cup {None}]]
    BY <2>2, <2>3 DEF Types, TypeOK, PollLabels
  <2>5. owner' = p /\ fingerprint' = desiredPoller(current)
    BY <1>5 DEF Start
  <2>6. UNCHANGED <<stores, spent, wake, stopping, leaving, external>>
    BY <1>5 DEF Start
  <2> QED
    BY <2>1, <2>2, <2>4, <2>5, <2>6 DEF Types, TypeOK, StoreTypes, stores, external
<1>6. CASE WakeUp
  <2>1. sup' \in SupLabels /\ toRead' \in SUBSET Keys /\ current' \in Config
    BY <1>6, AwaitTypes DEF WakeUp
  <2> QED
    BY <1>6, <2>1 DEF WakeUp, Types, TypeOK, StoreTypes, stores, external
<1>7. CASE Quit
  <2>1. BeginStop("quit") /\ "quit" \in SupLabels
    BY <1>7 DEF Quit, SupLabels
  <2> QED
    BY <1>7, <2>1, BeginStopTypes DEF Quit, Types, TypeOK, StoreTypes, stores, external
<1> QED
  BY <1>1, <1>2, <1>3, <1>4, <1>5, <1>6, <1>7 DEF SupStep

(* A poller may be given another step and another receipt. *)
PollersOK(f) == f \in [Pollers -> [at: PollLabels, config: Fingerprints \cup {None},
                                 cancelled: BOOLEAN, receipt: Receipts \cup {None}]]
LEMMA MoveTypes ==
  ASSUME NEW f, PollersOK(f), NEW p \in Pollers, NEW a \in PollLabels, NEW r \in Receipts \cup {None}
  PROVE  PollersOK([f EXCEPT ![p].at = a, ![p].receipt = r])
<1> DEFINE g == [f EXCEPT ![p].at = a]
<1>1. PollersOK(g)
  BY DEF PollersOK
<1>2. ASSUME NEW h, PollersOK(h)
      PROVE  PollersOK([h EXCEPT ![p].receipt = r])
  BY <1>2 DEF PollersOK
<1>3. PollersOK([g EXCEPT ![p].receipt = r])
  <2> HIDE DEF g
  <2> QED
    BY <1>1, <1>2
<1> QED
  BY <1>3, Zenon

LEMMA PollerTypes ==
  ASSUME Types, NEW p \in Pollers, PollStep(p)
  PROVE  Types'
<1>0. PollersOK(poller)
  BY DEF Types, TypeOK, PollersOK
<1>1. CASE Receive(p)
  <2>1. PICK receipt \in Receipts :
          /\ poller' = [poller EXCEPT ![p].at = IF receipt \in Messages THEN "handle" ELSE "delete",
                                     ![p].receipt = receipt]
          /\ PollerOnly /\ UNCHANGED <<spent, external>>
    BY <1>1 DEF Receive
  <2>2. PollersOK(poller')
    <3>1. (IF receipt \in Messages THEN "handle" ELSE "delete") \in PollLabels
      BY DEF PollLabels
    <3> QED
      BY <1>0, <2>1, <3>1, MoveTypes, Zenon
  <2> QED
    BY <2>1, <2>2 DEF PollersOK, PollerOnly, Types, TypeOK, StoreTypes, stores, supervisor, external
<1>2. CASE Return(p)
  <2>1. PollersOK(poller')
    BY <1>0, <1>2 DEF Return, Idle, PollersOK, PollLabels
  <2> QED
    BY <1>2, <2>1 DEF PollersOK, Return, PollerOnly, Types, TypeOK, StoreTypes, stores, supervisor, external
<1>3. CASE Handle(p)
  <2>1. PollersOK(poller')
    BY <1>0, <1>3 DEF Handle, PollersOK, PollLabels
  <2>2. handled' \in [Messages -> 0 .. 2]
    <3> DEFINE m == poller[p].receipt
    <3>1. handled \in [Messages -> 0 .. 2]
      BY DEF Types, TypeOK
    <3>2. handled' = [handled EXCEPT ![m] = IF handled[m] < 2 THEN handled[m] + 1 ELSE handled[m]]
      BY <1>3 DEF Handle
    <3> HIDE DEF m
    <3>3. CASE m \in Messages
      <4>1. handled[m] \in 0 .. 2
        BY <3>1, <3>3
      <4>2. (IF handled[m] < 2 THEN handled[m] + 1 ELSE handled[m]) \in 0 .. 2
        BY <4>1
      <4> QED
        BY <3>1, <3>2, <4>2
    <3>4. CASE m \notin Messages
      BY <3>1, <3>2, <3>4
    <3> QED
      BY <3>3, <3>4
  <2> QED
    BY <1>3, <2>1, <2>2 DEF PollersOK, Handle, PollerOnly, Types, TypeOK, StoreTypes, stores, supervisor
<1>4. ASSUME NextPoll(p), PollerOnly
      PROVE  /\ PollersOK(poller') /\ StoreTypes'
             /\ UNCHANGED <<wake, stopping, sup, toRead, current, owner, fingerprint, leaving>>
  <2>1. PollersOK(poller')
    <3>1. "poll" \in PollLabels
      BY DEF PollLabels
    <3> QED
      BY <1>0, <1>4, <3>1, MoveTypes, Zenon DEF NextPoll
  <2> QED
    BY <1>4, <2>1 DEF PollerOnly, stores, supervisor, Types, StoreTypes
<1>5. CASE Delete(p)
  <2>1. queue' \in SUBSET Receipts
    BY <1>5 DEF Delete, Types, TypeOK
  <2> QED
    BY <1>5, <1>4, <2>1 DEF PollersOK, Delete, Types, TypeOK
<1>6. CASE DeleteFails(p)
  <2>1. excused' \in SUBSET Messages
    BY <1>6 DEF DeleteFails, Types, TypeOK
  <2>2. spent' \in [faults: 0 .. MaxFaults, stops: 0 .. MaxStops]
    BY <1>6, SpendTypes DEF DeleteFails, Types, TypeOK
  <2> QED
    BY <1>6, <1>4, <2>1, <2>2 DEF PollersOK, DeleteFails, Types, TypeOK
<1> QED
  BY <1>1, <1>2, <1>3, <1>5, <1>6 DEF PollStep

(* SIGTERM, a crash, and the start of a new process. *)
LEMMA ProcessTypes ==
  ASSUME Types, Sigterm \/ Crash \/ StartAgain
  PROVE  Types'
<1>1. CASE Sigterm
  <2>1. spent' \in [faults: 0 .. MaxFaults, stops: 0 .. MaxStops]
    BY <1>1, SpendTypes DEF Sigterm, Types, TypeOK
  <2> QED
    BY <1>1, <2>1 DEF Sigterm, Types, TypeOK, StoreTypes, stores, supervisor, external
<1>2. ASSUME Restart, BootListener, spent' \in [faults: 0 .. MaxFaults, stops: 0 .. MaxStops]
      PROVE  Types'
  <2>1. sup' \in SupLabels /\ toRead' \in SUBSET Keys /\ current' \in Config
    BY <1>2, AwaitTypes DEF BootListener
  <2>2. poller' \in [Pollers -> [at: PollLabels, config: Fingerprints \cup {None},
                               cancelled: BOOLEAN, receipt: Receipts \cup {None}]]
    BY <1>2 DEF BootListener, Idle, PollLabels
  <2>3. excused' \in SUBSET Messages
    BY <1>2 DEF BootListener, Types, TypeOK
  <2>4. StoreTypes'
    BY <1>2 DEF Restart, Types, StoreTypes
  <2> QED
    BY <1>2, <2>1, <2>2, <2>3, <2>4 DEF BootListener, Types, TypeOK
<1>3. CASE Crash
  BY <1>2, <1>3, SpendTypes DEF Crash, Types, TypeOK
<1>4. CASE StartAgain
  BY <1>2, <1>4 DEF StartAgain, Types, TypeOK
<1> QED
  BY <1>1, <1>3, <1>4

LEMMA StepTypes == Types /\ [ListenerNext]_vars => Types'
<1> SUFFICES ASSUME Types, [ListenerNext]_vars
             PROVE  Types'
  OBVIOUS
<1>1. CASE UNCHANGED vars
  BY <1>1 DEF vars, stores, Types, TypeOK, StoreTypes
<1> QED
  BY <1>1, SupervisorTypes, PollerTypes, RequestTypes, ProcessTypes DEF ListenerNext

(* The listener's state has its types: a supervisor's poller is one of the *)
(* pollers, and what Load puts together is a configuration.                *)
THEOREM TypeCorrect == ListenerSpec => []TypeOK
<1>1. ListenerInit => Types
  BY InitTypes
<1>2. Types /\ [ListenerNext]_vars => Types'
  BY StepTypes
<1>3. Types => TypeOK
  BY DEF Types
<1> QED
  BY <1>1, <1>2, <1>3, PTL DEF ListenerSpec

-----------------------------------------------------------------------------
(* Who owns the poller that is alive *)

(* A poller that is alive is the supervisor's own or the one it waits for, *)
(* never both kinds at once; and where the supervisor starts a poller or   *)
(* has ended it owns none.                                                 *)
Owned ==
  /\ \A p \in Pollers : Alive(p) => p \in {owner, leaving}
  /\ owner = None \/ leaving = None
  /\ leaving # None => sup \in {"swap", "turnOff", "quit"}
  /\ sup \in {"swap", "turnOff", "quit", "start", "ended"} => owner = None

(* Steps that start no poller and leave the supervisor where it is. *)
LEMMA SameOwner ==
  ASSUME Owned, UNCHANGED supervisor,
         \A p \in Pollers : Alive(p)' => Alive(p)
  PROVE  Owned'
BY DEF Owned, supervisor

LEMMA InitOwned == ListenerInit => Owned
BY DEF ListenerInit, Owned, Alive, Idle

LEMMA PollStepOwned ==
  ASSUME Types, Owned, NEW p \in Pollers, PollStep(p)
  PROVE  Owned'
<1>1. UNCHANGED supervisor
  BY DEF PollStep, Receive, Return, Handle, Delete, DeleteFails, PollerOnly
<1>2. Alive(p)
  BY DEF PollStep, Receive, Return, Handle, Delete, DeleteFails, Alive
<1>3. \A q \in Pollers : q # p => poller'[q] = poller[q]
  BY DEF PollStep, Receive, Return, Handle, Delete, DeleteFails, NextPoll, Types, TypeOK
<1>4. \A q \in Pollers : Alive(q)' => Alive(q)
  BY <1>2, <1>3 DEF Alive
<1> QED
  BY <1>1, <1>4, SameOwner

(* stop takes the poller from the owner to the one it waits for. *)
LEMMA BeginStopOwned ==
  ASSUME Types, Owned, sup \in {"decide", "select"},
         NEW after \in {"swap", "turnOff", "quit"}, BeginStop(after)
  PROVE  Owned'
<1>1. leaving = None
  BY DEF Owned
<1>2. \A p \in Pollers : Alive(p)' => Alive(p)
  BY DEF BeginStop, Alive, Types, TypeOK
<1> QED
  BY <1>1, <1>2 DEF BeginStop, Owned

LEMMA SupStepOwned ==
  ASSUME Types, Owned, SupStep
  PROVE  Owned'
<1>0. ASSUME sup \in {"load", "decide", "select"}, sup' \in {"load", "decide", "select"},
             UNCHANGED <<owner, leaving, poller>>
      PROVE  Owned'
  BY <1>0 DEF Owned, Alive
<1>1. ASSUME NEW k \in Keys, SupRead(k)
      PROVE  Owned'
  BY <1>0, <1>1 DEF SupRead
<1>2. CASE SupReadFails
  BY <1>0, <1>2 DEF SupReadFails, AwaitWake
<1>3. CASE Reconcile
  BY <1>0, <1>3, BeginStopOwned DEF Reconcile, AwaitWake
<1>4. CASE Stopped
  <2>1. owner' = None /\ leaving' = None /\ poller' = poller
    BY <1>4 DEF Stopped, AfterStop, Owned
  <2>2. \A p \in Pollers : ~Alive(p)
    BY <1>4, PollerAssumption DEF Stopped, AfterStop, Owned
  <2> QED
    BY <2>1, <2>2 DEF Owned, Alive
<1>5. ASSUME NEW p \in Pollers, Start(p)
      PROVE  Owned'
  <2>1. owner = None /\ leaving = None
    BY <1>5 DEF Start, Owned
  <2>2. \A q \in Pollers : ~Alive(q)
    BY <2>1, PollerAssumption DEF Owned
  <2>3. owner' = p /\ leaving' = None /\ sup' = "select"
    BY <1>5, <2>1 DEF Start, AwaitWake
  <2>4. \A q \in Pollers : Alive(q)' => q = p
    BY <1>5, <2>2 DEF Start, Alive, Types, TypeOK
  <2> QED
    BY <2>3, <2>4 DEF Owned
<1>6. CASE WakeUp
  BY <1>0, <1>6 DEF WakeUp, BeginLoad
<1>7. CASE Quit
  BY <1>7, BeginStopOwned DEF Quit
<1> QED
  BY <1>1, <1>2, <1>3, <1>4, <1>5, <1>6, <1>7 DEF SupStep

LEMMA StepOwned == Types /\ Owned /\ [ListenerNext]_vars => Owned'
<1> SUFFICES ASSUME Types, Owned, [ListenerNext]_vars
             PROVE  Owned'
  OBVIOUS
<1>1. CASE UNCHANGED vars
  BY <1>1 DEF vars, Owned, Alive
<1>2. CASE Request \/ RebuildAndNotify \/ Sigterm
  BY <1>2, SameOwner DEF Request, RebuildAndNotify, Sigterm, Alive
<1>3. CASE Crash \/ StartAgain
  BY <1>3 DEF Crash, StartAgain, BootListener, BeginLoad, Owned, Alive, Idle
<1> QED
  BY <1>1, <1>2, <1>3, SupStepOwned, PollStepOwned DEF ListenerNext

LEMMA OwnedIsOne == Owned => OnePoller
BY PollerAssumption DEF Owned, OnePoller

(* stop's promise: however settings change, fail to load or are replaced   *)
(* while a poller is being stopped, two pollers are never alive at once.   *)
THEOREM PollersNeverOverlap == ListenerSpec => []OnePoller
<1>1. ListenerInit => Types /\ Owned
  BY InitTypes, InitOwned
<1>2. Types /\ Owned /\ [ListenerNext]_vars => (Types /\ Owned)'
  BY StepTypes, StepOwned
<1>3. Types /\ Owned => OnePoller
  BY OwnedIsOne
<1> QED
  BY <1>1, <1>2, <1>3, PTL DEF ListenerSpec

-----------------------------------------------------------------------------
(* What becomes of a receipt *)

Deleting(p) == poller[p].at \in {"delete", "deleteApart"}

(* A receipt in hand is one of the queue's, and a message in hand that is  *)
(* to be deleted has been handed over.                                     *)
InHand ==
  \A p \in Pollers :
    /\ poller[p].at = "handle" => poller[p].receipt \in Messages
    /\ Deleting(p) /\ poller[p].receipt \in Messages => handled[poller[p].receipt] > 0

(* A message that was handed over is off the queue, or a poller is about   *)
(* to delete it, or its deletion went wrong; one about to be handed over   *)
(* is new or a repeat of one whose deletion went wrong.                    *)
Acknowledged ==
  \A m \in Messages :
    handled[m] > 0 /\ m \notin excused =>
      /\ m \in queue => \E p \in Pollers : Deleting(p) /\ poller[p].receipt = m
      /\ \A p \in Pollers : poller[p].at = "handle" => poller[p].receipt # m

Delivery == InHand /\ HandledBeforeDeleted /\ Acknowledged /\ RepeatsAreExcused

LEMMA InitDelivery == ListenerInit => Delivery
<1> SUFFICES ASSUME ListenerInit PROVE Delivery
  OBVIOUS
<1>1. \A p \in Pollers : poller[p].at = "gone"
  BY DEF ListenerInit, Idle
<1>2. \A m \in Messages : handled[m] = 0 /\ m \in queue
  BY QueueAssumption DEF ListenerInit
<1> QED
  BY <1>1, <1>2 DEF Delivery, InHand, HandledBeforeDeleted, Acknowledged, RepeatsAreExcused, Deleting

(* Steps in which no receipt moves. *)
LEMMA NoReceiptMoves ==
  ASSUME Delivery, UNCHANGED external,
         \A p \in Pollers :
           \/ poller'[p].at = poller[p].at /\ poller'[p].receipt = poller[p].receipt
           \/ ~Deleting(p) /\ poller'[p].at \in {"gone", "poll"}
  PROVE  Delivery'
<1>1. InHand'
  BY DEF Delivery, InHand, Deleting, external
<1>2. Acknowledged'
  BY DEF Delivery, Acknowledged, Deleting, external
<1> QED
  BY <1>1, <1>2 DEF Delivery, HandledBeforeDeleted, RepeatsAreExcused, external

LEMMA SupStepDelivery ==
  ASSUME Types, Delivery, SupStep
  PROVE  Delivery'
<1>1. UNCHANGED external
  BY DEF SupStep, SupRead, SupReadFails, Reconcile, Stopped, Start, WakeUp, Quit
<1>2. CASE poller' = poller
  BY <1>1, <1>2, NoReceiptMoves
<1>3. ASSUME NEW after, BeginStop(after)
      PROVE  Delivery'
  <2>1. \A p \in Pollers : poller'[p].at = poller[p].at /\ poller'[p].receipt = poller[p].receipt
    BY <1>3 DEF BeginStop, Types, TypeOK
  <2> QED
    BY <1>1, <2>1, NoReceiptMoves
<1>4. ASSUME NEW p \in Pollers, Start(p)
      PROVE  Delivery'
  <2>1. ~Deleting(p) /\ poller'[p].at = "poll" /\ \A q \in Pollers : q # p => poller'[q] = poller[q]
    BY <1>4 DEF Start, Alive, Deleting, Types, TypeOK
  <2> QED
    BY <1>1, <2>1, NoReceiptMoves
<1> QED
  BY <1>2, <1>3, <1>4 DEF SupStep, SupRead, SupReadFails, Reconcile, Stopped, WakeUp, Quit

(* Only the poller that acts is alive. *)
LEMMA OthersAreGone ==
  ASSUME OnePoller, NEW p \in Pollers, Alive(p)
  PROVE  \A q \in Pollers : q # p => poller[q].at = "gone"
BY DEF OnePoller, Alive

LEMMA ReceiveDelivery ==
  ASSUME Types, OnePoller, Delivery, NEW p \in Pollers, Receive(p)
  PROVE  Delivery'
<1>1. PICK receipt \in Receipts :
        /\ poller[p].at = "poll" /\ receipt \in queue
        /\ poller' = [poller EXCEPT ![p].at = IF receipt \in Messages THEN "handle" ELSE "delete",
                                   ![p].receipt = receipt]
        /\ UNCHANGED external
  BY DEF Receive, Oldest
<1>2. /\ poller'[p].at = IF receipt \in Messages THEN "handle" ELSE "delete"
      /\ poller'[p].receipt = receipt
      /\ \A q \in Pollers : q # p => poller'[q] = poller[q]
  BY <1>1 DEF Types, TypeOK
<1>3. \A q \in Pollers : q # p => poller[q].at = "gone"
  BY <1>1, OthersAreGone DEF Alive
<1>4. InHand'
  <2>1. poller'[p].at = "handle" => poller'[p].receipt \in Messages
    BY <1>2
  <2>2. Deleting(p)' => poller'[p].receipt \notin Messages
    BY <1>2 DEF Deleting
  <2>3. \A q \in Pollers : q # p => poller'[q].at = "gone"
    BY <1>2, <1>3
  <2> QED
    BY <2>1, <2>2, <2>3 DEF InHand, Deleting
<1>5. \A m \in Messages : handled[m] > 0 /\ m \notin excused => m \notin queue
  BY <1>1, <1>3 DEF Delivery, Acknowledged, Deleting
<1>6. Acknowledged'
  BY <1>1, <1>2, <1>3, <1>5 DEF Acknowledged, Deleting, external
<1> QED
  BY <1>1, <1>4, <1>6 DEF Delivery, HandledBeforeDeleted, RepeatsAreExcused, external

LEMMA HandleDelivery ==
  ASSUME Types, OnePoller, Delivery, NEW p \in Pollers, Handle(p)
  PROVE  Delivery'
<1> DEFINE m == poller[p].receipt
<1>1. m \in Messages
  BY DEF Handle, Delivery, InHand
<1>2. /\ poller'[p].at \in {"delete", "deleteApart"} /\ poller'[p].receipt = m
      /\ \A q \in Pollers : q # p => poller'[q] = poller[q]
      /\ UNCHANGED <<queue, excused>>
  BY DEF Handle, Types, TypeOK
<1>3. \A q \in Pollers : q # p => poller[q].at = "gone"
  BY OthersAreGone DEF Handle, Alive
<1>4. /\ \A n \in Messages : handled[n] \in 0 .. 2
      /\ \A n \in Messages : n # m => handled'[n] = handled[n]
      /\ handled'[m] = IF handled[m] < 2 THEN handled[m] + 1 ELSE handled[m]
  BY <1>1 DEF Handle, Types, TypeOK
<1>5. handled'[m] > 0 /\ (handled'[m] > 1 => handled[m] > 0)
  BY <1>1, <1>4
<1>6. handled[m] = 0 \/ m \in excused
  BY <1>1, <1>4 DEF Delivery, Acknowledged, Handle
<1> HIDE DEF m
<1>7. InHand'
  BY <1>2, <1>3, <1>5 DEF InHand, Deleting
<1>8. Acknowledged'
  <2>1. \A q \in Pollers : poller'[q].at # "handle"
    BY <1>2, <1>3
  <2>2. ASSUME NEW n \in Messages, handled'[n] > 0, n \notin excused', n \in queue'
        PROVE  \E q \in Pollers : Deleting(q)' /\ poller'[q].receipt = n
    <3>1. CASE n = m
      BY <1>2, <3>1 DEF Deleting
    <3>2. CASE n # m
      <4>1. PICK q \in Pollers : Deleting(q) /\ poller[q].receipt = n
        BY <1>2, <1>4, <2>2, <3>2 DEF Delivery, Acknowledged
      <4>2. q = p
        BY <1>3, <4>1 DEF Deleting
      <4> QED
        BY <3>2, <4>1, <4>2 DEF m
    <3> QED
      BY <3>1, <3>2
  <2> QED
    BY <2>1, <2>2 DEF Acknowledged
<1>9. RepeatsAreExcused'
  BY <1>1, <1>2, <1>4, <1>5, <1>6 DEF Delivery, RepeatsAreExcused
<1>10. HandledBeforeDeleted'
  BY <1>1, <1>2, <1>4, <1>5 DEF Delivery, HandledBeforeDeleted
<1> QED
  BY <1>7, <1>8, <1>9, <1>10 DEF Delivery

(* The receipt leaves the poller's hand: off the queue, or into excused. *)
LEMMA DeleteDelivery ==
  ASSUME Types, OnePoller, Delivery, NEW p \in Pollers, Delete(p) \/ DeleteFails(p)
  PROVE  Delivery'
<1> DEFINE m == poller[p].receipt
<1>1. Deleting(p) /\ NextPoll(p) /\ handled' = handled
  BY DEF Delete, DeleteFails, Deleting
<1>2. /\ poller'[p].at = "poll"
      /\ \A q \in Pollers : q # p => poller'[q] = poller[q]
  BY <1>1, MoveTypes DEF NextPoll, Types, TypeOK
<1>3. \A q \in Pollers : q # p => poller[q].at = "gone"
  BY <1>1, OthersAreGone DEF Deleting, Alive
<1>4. \/ queue' = queue \ {m} /\ excused' = excused
      \/ queue' = queue /\ excused' = excused \cup ({m} \cap Messages)
  BY DEF Delete, DeleteFails
<1>5. m \in Messages => handled[m] > 0
  BY <1>1 DEF Delivery, InHand
<1> HIDE DEF m
<1>6. InHand'
  BY <1>2, <1>3 DEF InHand, Deleting
<1>7. Acknowledged'
  <2>1. \A q \in Pollers : poller'[q].at # "handle"
    BY <1>2, <1>3
  <2>2. ASSUME NEW n \in Messages, handled'[n] > 0, n \notin excused', n \in queue'
        PROVE  FALSE
    <3>1. n \in queue /\ n \notin excused /\ n # m
      BY <1>4, <2>2
    <3>2. PICK q \in Pollers : Deleting(q) /\ poller[q].receipt = n
      BY <1>1, <2>2, <3>1 DEF Delivery, Acknowledged
    <3> QED
      BY <1>3, <3>1, <3>2 DEF Deleting, m
  <2> QED
    BY <2>1, <2>2 DEF Acknowledged
<1> QED
  BY <1>1, <1>4, <1>5, <1>6, <1>7 DEF Delivery, HandledBeforeDeleted, RepeatsAreExcused

(* A new process: what the pollers held is excused. *)
LEMMA BootDelivery ==
  ASSUME Types, Delivery, BootListener
  PROVE  Delivery'
<1>1. /\ \A q \in Pollers : poller'[q].at = "gone"
      /\ UNCHANGED <<queue, handled>>
      /\ excused' = excused \cup ({poller[p].receipt : p \in Pollers} \cap Messages)
  BY DEF BootListener, Idle
<1>2. \A m \in Messages : handled[m] > 0 /\ m \notin excused' => m \notin queue
  BY <1>1 DEF Delivery, Acknowledged
<1> QED
  BY <1>1, <1>2 DEF Delivery, InHand, HandledBeforeDeleted, Acknowledged, RepeatsAreExcused, Deleting

LEMMA StepDelivery ==
  Types /\ OnePoller /\ Delivery /\ [ListenerNext]_vars => Delivery'
<1> SUFFICES ASSUME Types, OnePoller, Delivery, [ListenerNext]_vars
             PROVE  Delivery'
  OBVIOUS
<1>1. CASE UNCHANGED vars \/ Request \/ RebuildAndNotify \/ Sigterm
  BY <1>1, NoReceiptMoves DEF vars, external, Request, RebuildAndNotify, Sigterm
<1>2. ASSUME NEW p \in Pollers, Return(p)
      PROVE  Delivery'
  <2>1. ~Deleting(p) /\ poller'[p].at = "gone" /\ \A q \in Pollers : q # p => poller'[q] = poller[q]
    BY <1>2 DEF Return, Idle, Deleting, Types, TypeOK
  <2> QED
    BY <1>2, <2>1, NoReceiptMoves DEF Return
<1>3. CASE Crash \/ StartAgain
  BY <1>3, BootDelivery DEF Crash, StartAgain
<1> QED
  BY <1>1, <1>2, <1>3, SupStepDelivery, ReceiveDelivery, HandleDelivery, DeleteDelivery
     DEF ListenerNext, PollStep

LEMMA DeliveryInvariant == ListenerSpec => []Delivery
<1>1. ListenerInit => Types /\ Owned /\ Delivery
  BY InitTypes, InitOwned, InitDelivery
<1>2. Types /\ Owned /\ Delivery /\ [ListenerNext]_vars => (Types /\ Owned /\ Delivery)'
  BY StepTypes, StepOwned, StepDelivery, OwnedIsOne
<1> QED
  BY <1>1, <1>2, PTL DEF ListenerSpec

(* A receipt is acknowledged only after its message was handed over,       *)
(* whatever stops or replaces the poller, or ends the process, in between. *)
THEOREM MessagesHandledFirst == ListenerSpec => []HandledBeforeDeleted
<1>1. Delivery => HandledBeforeDeleted
  BY DEF Delivery
<1> QED
  BY <1>1, DeliveryInvariant, PTL

(* GreenAPI hands a message over again only when the deletion of its       *)
(* receipt failed or was cut off: never because pollers were exchanged.    *)
THEOREM RepeatsExcused == ListenerSpec => []RepeatsAreExcused
<1>1. Delivery => RepeatsAreExcused
  BY DEF Delivery
<1> QED
  BY <1>1, DeliveryInvariant, PTL
=============================================================================
