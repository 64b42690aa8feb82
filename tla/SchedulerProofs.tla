-------------------------- MODULE SchedulerProofs --------------------------
(***************************************************************************)
(* Theorems of Scheduler for every value of its constants: any contacts,   *)
(* calendars and time zones, any number of requests, any bound on faults;  *)
(* that it implements BlessingLedger; and what Dates computes.             *)
(***************************************************************************)
EXTENDS Scheduler, FiniteSetTheorems, TLAPS

(* What TypeOK leaves out and the actions rely on: an actor past its reads has *)
(* a key to send for, and a tick past its reads has its clock reading.         *)
JobInv ==
  /\ \A p \in Actors :
       pc[p] \in {"year", "check", "prepare", "send", "logSent", "logFailed"} => job[p] \in Keys
  /\ pc[Ticker] \in {"list", "scan", "prepare", "send", "logSent", "logFailed"} => tick \in Tick
  /\ pc[Ticker] \notin {"year", "check"}

-----------------------------------------------------------------------------
(* The clock a tick or a request reads is one of the local times. *)
LEMMA LocalNowType ==
  ASSUME TypeOK
  PROVE  LocalNow \in LocalTimes /\ LocalNow.year \in Years
BY LocalAssumption DEF TypeOK, LocalNow, Settings, Years, LocalTimes

(* The senders that owe a row are some of finitely many actors. *)
LEMMA PendingFinite ==
  ASSUME NEW k
  PROVE  IsFiniteSet(Pending(k)) /\ Cardinality(Pending(k)) \in Nat
<1>1. IsFiniteSet(Actors)
  BY ActorAssumption, FS_AddElement DEF Actors
<1>2. Pending(k) \in SUBSET Actors
  BY DEF Pending
<1> QED
  BY <1>1, <1>2, FS_Subset, FS_CardinalityType

(* An initial state is well typed. *)
LEMMA InitTypes == Init => TypeOK /\ JobInv
<1> SUFFICES ASSUME Init PROVE TypeOK /\ JobInv
  OBVIOUS
<1> USE NatAssumption
<1>1. snapshot \in [{} -> Contact]
  BY DEF Init
<1>2. snapshot \in UNION {[S -> Contact] : S \in SUBSET ContactIds}
  <2>1. {} \in SUBSET ContactIds
    OBVIOUS
  <2> QED
    BY <1>1, <2>1
<1>3. TypeOK
  <2>1. now \in Instants
    BY DEF Init, Instants
  <2>8. settings \in Settings /\ active \in BOOLEAN /\ stopping \in BOOLEAN
    BY DEF Init, Settings
  <2>2. contacts \in [ContactIds -> Contact \cup {Unused, Deleted}]
    BY DEF Init
  <2>3. sendLog \in Seq(Row)
    BY DEF Init
  <2>4. pc \in [Actors -> Labels]
    BY DEF Init, Labels
  <2>5. job \in [Actors -> Keys \cup {None}] /\ tick \in Tick \cup {None}
    BY DEF Init
  <2>6. received \in [Keys -> Nat] /\ doubtful \in [Keys -> Nat] /\ repeats \in [Keys -> Nat]
    BY DEF Init
  <2>7. spent \in [faults: 0 .. MaxFaults, stops: 0 .. MaxStops, edits: 0 .. MaxEdits]
    BY DEF Init
  <2> QED
    BY <1>2, <2>1, <2>2, <2>3, <2>4, <2>5, <2>6, <2>7, <2>8 DEF TypeOK
<1>4. JobInv
  BY ActorAssumption DEF Init, JobInv, Labels, Actors
<1> QED
  BY <1>3, <1>4

(* Spending keeps the counters within their bounds. *)
SpentOK == spent \in [faults: 0 .. MaxFaults, stops: 0 .. MaxStops, edits: 0 .. MaxEdits]
LEMMA SpendTypes ==
  ASSUME TypeOK, NEW n \in Nat, SpendFaults(n)
  PROVE  SpentOK'
<1>1. spent.faults + n \in 0 .. MaxFaults
  BY NatAssumption DEF TypeOK, SpendFaults
<1>2. spent' = [spent EXCEPT !.faults = spent.faults + n]
  BY DEF SpendFaults
<1> QED
  BY <1>1, <1>2 DEF TypeOK, SpentOK

(* So does an operator's edit. *)
LEMMA EditTypes ==
  ASSUME TypeOK, SpendEdit
  PROVE  SpentOK'
<1>1. spent.edits + 1 \in 0 .. MaxEdits
  BY NatAssumption DEF TypeOK, SpendEdit
<1>2. spent' = [spent EXCEPT !.edits = spent.edits + 1]
  BY DEF SpendEdit
<1> QED
  BY <1>1, <1>2 DEF TypeOK, SpentOK

(* So does a call, whether it works or fails, and whoever makes it. *)
LEMMA CallTypes ==
  ASSUME TypeOK, NEW p, CallFails(p) \/ CallWorks(p)
  PROVE  SpentOK'
<1>1. SpendFaults(1) \/ UNCHANGED spent
  BY DEF CallFails, CallWorks
<1>2. CASE SpendFaults(1)
  BY <1>2, SpendTypes
<1>3. CASE UNCHANGED spent
  BY <1>3 DEF TypeOK, SpentOK
<1> QED
  BY <1>1, <1>2, <1>3

(* Every step of the tick loop keeps the types. *)
LEMMA TickerTypes ==
  ASSUME TypeOK, JobInv, TickerStep
  PROVE  TypeOK' /\ JobInv'
<1>1. CASE TickLoad
  BY <1>1, LocalNowType, ActorAssumption
  DEF TickLoad, TypeOK, JobInv, Labels, Actors, Tick, Settings, store, history
<1>2. CASE TickList
  <2>1. snapshot' \in [{d \in ContactIds : Exists(d)} -> Contact]
    BY <1>2 DEF TickList, Exists
  <2>2. snapshot' \in UNION {[S -> Contact] : S \in SUBSET ContactIds}
    <3>1. {d \in ContactIds : Exists(d)} \in SUBSET ContactIds
      OBVIOUS
    <3> QED
      BY <2>1, <3>1
  <2> QED
    BY <1>2, <2>2, ActorAssumption DEF TickList, CallWorks, TypeOK, JobInv, Labels, Actors, store, history
<1>3. CASE TickAbandon
  <2>1. SpentOK'
    BY <1>3, CallTypes DEF TickAbandon
  <2> QED
    BY <1>3, <2>1, ActorAssumption
    DEF TickAbandon, TypeOK, SpentOK, JobInv, Labels, Actors, store, history
<1>4. CASE TickEnd
  BY <1>4, ActorAssumption DEF TickEnd, TypeOK, JobInv, Labels, Actors, store, history
<1>5. ASSUME NEW c \in ContactIds, Visit(c)
      PROVE  TypeOK' /\ JobInv'
  <2>1. PICK S \in SUBSET ContactIds : snapshot \in [S -> Contact]
    BY DEF TypeOK
  <2>2. snapshot' \in [S \ {c} -> Contact]
    BY <1>5, <2>1 DEF Visit
  <2>3. snapshot' \in UNION {[T -> Contact] : T \in SUBSET ContactIds}
    <3>1. S \ {c} \in SUBSET ContactIds
      BY <2>1
    <3> QED
      BY <2>2, <3>1
  <2>4. <<c, tick.now.year>> \in Keys
    BY <1>5 DEF Visit, JobInv, Tick, Keys, Years
  <2>5. SpentOK'
    <3>1. CASE UNCHANGED spent
      BY <3>1 DEF TypeOK, SpentOK
    <3> QED
      BY <1>5, <3>1, CallTypes DEF Visit
  <2>6. /\ pc' \in [Actors -> Labels]
        /\ job' \in [Actors -> Keys \cup {None}]
        /\ JobInv'
    <3>1. CASE UNCHANGED <<pc, job>>
      BY <1>5, <3>1 DEF Visit, TypeOK, JobInv
    <3>2. CASE /\ pc' = [pc EXCEPT ![Ticker] = "prepare"]
               /\ job' = [job EXCEPT ![Ticker] = <<c, tick.now.year>>]
      <4>1. pc[Ticker] = "scan" /\ tick' = tick /\ tick \in Tick
        BY <1>5 DEF Visit, JobInv
      <4>2. pc' \in [Actors -> Labels] /\ job' \in [Actors -> Keys \cup {None}]
        BY <3>2, <2>4 DEF TypeOK, Labels
      <4> QED
        BY <3>2, <2>4, <4>1, <4>2 DEF TypeOK, JobInv, Actors
    <3> QED
      BY <1>5, <3>1, <3>2 DEF Visit
  <2> QED
    BY <1>5, <2>3, <2>5, <2>6 DEF Visit, TypeOK, SpentOK, store, history
<1> QED
  BY <1>1, <1>2, <1>3, <1>4, <1>5 DEF TickerStep

(* So does every step of a SendNow request before deliver. *)
LEMMA RequestTypes ==
  ASSUME TypeOK, JobInv, NEW p \in Requests, RequestStep(p)
  PROVE  TypeOK' /\ JobInv'
<1>0. p \in Actors /\ Ticker \in Actors /\ p # Ticker
  BY ActorAssumption DEF Actors
<1>1. CASE CurrentYear(p)
  <2>1. job[p][1] \in ContactIds
    BY <1>0, <1>1 DEF CurrentYear, JobInv, Keys
  <2>2. <<job[p][1], LocalNow.year>> \in Keys
    BY <2>1, LocalNowType DEF Keys
  <2> QED
    <3>1. pc' \in [Actors -> Labels] /\ job' \in [Actors -> Keys \cup {None}]
      <4>1. pc' \in [Actors -> Labels]
        <5>1. pc' \in {[pc EXCEPT ![p] = "check"], [pc EXCEPT ![p] = "prepare"]}
          BY <1>1 DEF CurrentYear
        <5> QED
          BY <5>1 DEF TypeOK, Labels
      <4>2. job' \in {job, [job EXCEPT ![p] = <<job[p][1], LocalNow.year>>]}
        BY <1>1 DEF CurrentYear
      <4> QED
        BY <2>2, <4>1, <4>2 DEF TypeOK
    <3>2. JobInv'
      BY <1>0, <1>1, <2>2 DEF CurrentYear, TypeOK, JobInv
    <3> QED
      BY <1>1, <3>1, <3>2 DEF CurrentYear, TypeOK, store, history
<1>2. CASE CheckSent(p)
  <2>1. pc' \in [Actors -> Labels] /\ job' \in [Actors -> Keys \cup {None}]
    BY <1>0, <1>2 DEF CheckSent, Return, TypeOK, Labels
  <2>2. JobInv'
    BY <1>0, <1>2 DEF CheckSent, Return, TypeOK, JobInv
  <2> QED
    BY <1>2, <2>1, <2>2 DEF CheckSent, TypeOK, store, history
<1>3. CASE RequestFails(p)
  <2>1. SpentOK'
    BY <1>3, CallTypes DEF RequestFails
  <2> QED
    <3>1. pc' \in [Actors -> Labels] /\ job' \in [Actors -> Keys \cup {None}]
      BY <1>0, <1>3 DEF RequestFails, Return, TypeOK, Labels
    <3>2. JobInv'
      BY <1>0, <1>3 DEF RequestFails, Return, TypeOK, JobInv
    <3> QED
      BY <1>3, <2>1, <3>1, <3>2 DEF RequestFails, TypeOK, SpentOK, store, history
<1>4. ASSUME NEW c \in ContactIds, SendNow(p, c)
      PROVE  TypeOK' /\ JobInv'
  <2>1. <<c, NoYear>> \in Keys
    BY DEF Keys
  <2> QED
    <3>1. pc' \in [Actors -> Labels] /\ job' \in [Actors -> Keys \cup {None}]
      <4>1. pc' \in [Actors -> Labels]
        <5>1. pc' \in {[pc EXCEPT ![p] = "year"], [pc EXCEPT ![p] = "done"]}
          BY <1>4 DEF SendNow
        <5> QED
          BY <5>1 DEF TypeOK, Labels
      <4>2. job' \in {job, [job EXCEPT ![p] = <<c, NoYear>>]}
        BY <1>4 DEF SendNow
      <4> QED
        BY <2>1, <4>1, <4>2 DEF TypeOK
    <3>2. JobInv'
      BY <1>0, <1>4, <2>1 DEF SendNow, TypeOK, JobInv
    <3> QED
      BY <1>4, <3>1, <3>2 DEF SendNow, TypeOK, store, history
<1> QED
  BY <1>1, <1>2, <1>3, <1>4 DEF RequestStep

(* A row written for a key is a row of the table. *)
LEMMA AppendTypes ==
  ASSUME TypeOK, NEW k \in Keys, NEW s \in {"sent", "failed"}, AppendRow(k, s)
  PROVE  sendLog' \in Seq(Row)
<1>1. k[1] \in ContactIds /\ k[2] \in Years \cup {NoYear}
  BY DEF Keys
<1>2. [contact |-> k[1], year |-> k[2], status |-> s] \in Row
  BY <1>1 DEF Row
<1> QED
  BY <1>2 DEF AppendRow, TypeOK

(* So does every step of deliver. *)
LEMMA DeliverTypes ==
  ASSUME TypeOK, JobInv, NEW p \in Actors, Deliver(p)
  PROVE  TypeOK' /\ JobInv'
<1>0. Ticker \in Actors
  BY DEF Actors
<1>1. CASE Prepare(p)
  <2>1. SpentOK'
    <3>1. CASE UNCHANGED spent
      BY <3>1 DEF TypeOK, SpentOK
    <3> QED
      BY <1>1, <3>1, CallTypes DEF Prepare
  <2>2. pc' \in [Actors -> Labels] /\ job' \in [Actors -> Keys \cup {None}]
    BY <1>0, <1>1 DEF Prepare, Return, TypeOK, Labels
  <2>3. JobInv'
    BY <1>0, <1>1 DEF Prepare, Return, TypeOK, JobInv
  <2> QED
    BY <1>1, <2>1, <2>2, <2>3 DEF Prepare, TypeOK, SpentOK, store, history
<1>2. CASE SendTextOk(p)
  <2>1. PICK n \in 1 .. Attempts :
          /\ pc[p] = "send"
          /\ SpendFaults(n - 1)
          /\ received' = [received EXCEPT ![job[p]] = @ + n]
          /\ repeats' = [repeats EXCEPT ![job[p]] = @ + (n - 1)]
          /\ pc' = [pc EXCEPT ![p] = "logSent"]
          /\ UNCHANGED <<now, store, active, job, tick, snapshot, stopping, doubtful>>
    BY <1>2 DEF SendTextOk
  <2>2. SpentOK'
    BY <2>1, NatAssumption, SpendTypes
  <2>3. job[p] \in Keys
    BY <2>1 DEF JobInv
  <2>4. received' \in [Keys -> Nat] /\ repeats' \in [Keys -> Nat]
    BY <2>1, <2>3, NatAssumption DEF TypeOK
  <2>5. pc' \in [Actors -> Labels]
    BY <2>1 DEF TypeOK, Labels
  <2>6. JobInv'
    BY <1>0, <2>1 DEF TypeOK, JobInv
  <2> QED
    BY <2>1, <2>2, <2>4, <2>5, <2>6 DEF TypeOK, SpentOK, store
<1>3. CASE SendTextFails(p)
  <2>1. PICK n \in 0 .. Attempts :
          /\ pc[p] = "send"
          /\ SpendFaults(IF n = 0 THEN 1 ELSE n) \/ UNCHANGED spent
          /\ received' = [received EXCEPT ![job[p]] = @ + n]
          /\ doubtful' = [doubtful EXCEPT ![job[p]] = @ + n]
          /\ pc' = [pc EXCEPT ![p] = "logFailed"]
          /\ UNCHANGED <<now, store, active, job, tick, snapshot, stopping, repeats>>
    BY <1>3 DEF SendTextFails
  <2>2. SpentOK'
    <3>1. CASE UNCHANGED spent
      BY <3>1 DEF TypeOK, SpentOK
    <3> QED
      BY <2>1, <3>1, NatAssumption, SpendTypes
  <2>3. job[p] \in Keys
    BY <2>1 DEF JobInv
  <2>4. received' \in [Keys -> Nat] /\ doubtful' \in [Keys -> Nat]
    BY <2>1, <2>3, NatAssumption DEF TypeOK
  <2>5. pc' \in [Actors -> Labels]
    BY <2>1 DEF TypeOK, Labels
  <2>6. JobInv'
    BY <1>0, <2>1 DEF TypeOK, JobInv
  <2> QED
    BY <2>1, <2>2, <2>4, <2>5, <2>6 DEF TypeOK, SpentOK, store
<1>4. CASE LogSent(p)
  <2>1. job[p] \in Keys
    BY <1>4 DEF LogSent, JobInv
  <2>2. SpentOK'
    <3>1. CASE UNCHANGED spent
      BY <3>1 DEF TypeOK, SpentOK
    <3> QED
      BY <1>4, <3>1, CallTypes DEF LogSent
  <2>3. sendLog' \in Seq(Row) /\ doubtful' \in [Keys -> Nat]
    <3>1. AppendRow(job[p], "sent") => sendLog' \in Seq(Row)
      BY <2>1, AppendTypes
    <3>2. sendLog' = sendLog \/ AppendRow(job[p], "sent")
      BY <1>4 DEF LogSent
    <3>3. doubtful' = doubtful \/ doubtful' = [doubtful EXCEPT ![job[p]] = @ + 1]
      BY <1>4 DEF LogSent
    <3> QED
      BY <2>1, <3>1, <3>2, <3>3 DEF TypeOK
  <2>4. pc' \in [Actors -> Labels] /\ job' \in [Actors -> Keys \cup {None}]
    BY <1>0, <1>4 DEF LogSent, Return, TypeOK, Labels
  <2>5. JobInv'
    BY <1>0, <1>4 DEF LogSent, Return, TypeOK, JobInv
  <2> QED
    BY <1>4, <2>2, <2>3, <2>4, <2>5 DEF LogSent, TypeOK, SpentOK
<1>5. CASE LogFailed(p)
  <2>1. job[p] \in Keys
    BY <1>5 DEF LogFailed, JobInv
  <2>2. SpentOK'
    <3>1. CASE UNCHANGED spent
      BY <3>1 DEF TypeOK, SpentOK
    <3> QED
      BY <1>5, <3>1, CallTypes DEF LogFailed
  <2>3. sendLog' \in Seq(Row)
    <3>1. AppendRow(job[p], "failed") => sendLog' \in Seq(Row)
      BY <2>1, AppendTypes
    <3> QED
      BY <1>5, <3>1 DEF LogFailed, TypeOK
  <2>4. pc' \in [Actors -> Labels] /\ job' \in [Actors -> Keys \cup {None}]
    BY <1>0, <1>5 DEF LogFailed, Return, TypeOK, Labels
  <2>5. JobInv'
    BY <1>0, <1>5 DEF LogFailed, Return, TypeOK, JobInv
  <2> QED
    BY <1>5, <2>2, <2>3, <2>4, <2>5 DEF LogFailed, TypeOK, SpentOK, history
<1> QED
  BY <1>1, <1>2, <1>3, <1>4, <1>5 DEF Deliver

(* And the operator, the clock, SIGTERM and the end of the process. *)
LEMMA EnvironmentTypes ==
  ASSUME TypeOK, JobInv, Operator \/ TimePasses \/ Sigterm \/ Crash \/ Exit
  PROVE  TypeOK' /\ JobInv'
<1>1. ASSUME NEW c \in ContactIds, NEW row \in Contact, SaveContact(c, row)
      PROVE  TypeOK' /\ JobInv'
  <2>1. SpentOK'
    BY <1>1, EditTypes DEF SaveContact
  <2> QED
    BY <1>1, <2>1 DEF SaveContact, TypeOK, JobInv, SpentOK, history
<1>2. ASSUME NEW c \in ContactIds, DeleteContact(c)
      PROVE  TypeOK' /\ JobInv'
  <2>1. SpentOK'
    BY <1>2, EditTypes DEF DeleteContact
  <2>2. sendLog' \in Seq(Row)
    <3> DEFINE row(i) == IF sendLog[i].contact = c THEN [sendLog[i] EXCEPT !.contact = None]
                                                   ELSE sendLog[i]
    <3>1. DOMAIN sendLog = 1 .. Len(sendLog) /\ Len(sendLog) \in Nat
      BY DEF TypeOK
    <3>2. ASSUME NEW i \in 1 .. Len(sendLog)
          PROVE  row(i) \in Row
      <4>1. sendLog[i] \in Row
        BY DEF TypeOK
      <4>2. [sendLog[i] EXCEPT !.contact = None] \in Row
        BY <4>1 DEF Row
      <4> QED
        BY <4>1, <4>2
    <3>3. sendLog' = [i \in 1 .. Len(sendLog) |-> row(i)]
      BY <1>2, <3>1 DEF DeleteContact
    <3> HIDE DEF row
    <3> QED
      BY <3>1, <3>2, <3>3
  <2> QED
    BY <1>2, <2>1, <2>2 DEF DeleteContact, TypeOK, JobInv, SpentOK, history
<1>3. ASSUME NEW s \in Settings, SaveSettings(s)
      PROVE  TypeOK' /\ JobInv'
  <2>1. SpentOK'
    BY <1>3, EditTypes DEF SaveSettings
  <2> QED
    BY <1>3, <2>1 DEF SaveSettings, TypeOK, JobInv, SpentOK, history
<1>4. CASE TimePasses
  BY <1>4, NatAssumption DEF TimePasses, Instants, TypeOK, JobInv, store, history
<1>5. CASE Sigterm
  <2>1. SpentOK'
    <3>1. spent.stops + 1 \in 0 .. MaxStops
      BY <1>5, NatAssumption DEF Sigterm, TypeOK
    <3>2. spent \in [faults: 0 .. MaxFaults, stops: 0 .. MaxStops, edits: 0 .. MaxEdits]
      BY DEF TypeOK
    <3> QED
      BY <1>5, <3>1, <3>2 DEF Sigterm, SpentOK
  <2> QED
    BY <1>5, <2>1 DEF Sigterm, TypeOK, JobInv, SpentOK, store, history
<1>6. ASSUME Restart, SpentOK'
      PROVE  TypeOK' /\ JobInv'
  <2>1. snapshot' \in UNION {[S -> Contact] : S \in SUBSET ContactIds}
    <3>1. snapshot' \in [{} -> Contact]
      BY <1>6 DEF Restart
    <3>2. {} \in SUBSET ContactIds
      OBVIOUS
    <3> QED
      BY <3>1, <3>2
  <2>2. pc' \in [Actors -> Labels] /\ job' \in [Actors -> Keys \cup {None}]
    BY <1>6 DEF Restart, Labels
  <2>3. JobInv'
    BY <1>6, ActorAssumption DEF Restart, JobInv, Actors
  <2>4. doubtful' \in [Keys -> Nat]
    <3>1. \A k \in Keys : doubtful[k] + Cardinality(Pending(k)) \in Nat
      BY PendingFinite DEF TypeOK
    <3> QED
      BY <1>6, <3>1 DEF Restart
  <2>5. active' \in BOOLEAN
    BY <1>6 DEF Restart, TypeOK, Settings
  <2> QED
    BY <1>6, <2>1, <2>2, <2>3, <2>4, <2>5 DEF Restart, TypeOK, SpentOK, store
<1>7. CASE Crash
  BY <1>6, <1>7, SpendTypes DEF Crash
<1>8. CASE Exit
  <2>1. SpentOK'
    BY <1>8 DEF Exit, TypeOK, SpentOK
  <2> QED
    BY <1>6, <1>8, <2>1 DEF Exit
<1> QED
  BY <1>1, <1>2, <1>3, <1>4, <1>5, <1>7, <1>8 DEF Operator

(* Every step keeps the types, stuttering included. *)
LEMMA StepTypes ==
  ASSUME TypeOK, JobInv, [Next]_vars
  PROVE  TypeOK' /\ JobInv'
<1>1. CASE UNCHANGED vars
  BY <1>1 DEF vars, TypeOK, JobInv
<1> QED
  BY <1>1, TickerTypes, RequestTypes, DeliverTypes, EnvironmentTypes DEF Next

(* Every reachable state is well typed: among the rest, whatever stops and   *)
(* restarts come, an actor never sends without a contact and an event year,  *)
(* and no row of the send log has a status or a year of its own.             *)
THEOREM TypeCorrect == Spec => []TypeOK
<1>1. Init => TypeOK /\ JobInv
  BY InitTypes
<1>2. (TypeOK /\ JobInv) /\ [Next]_vars => (TypeOK /\ JobInv)'
  BY StepTypes
<1> QED
  BY <1>1, <1>2, PTL DEF Spec

-----------------------------------------------------------------------------
(***************************************************************************)
(* The ledger.  For every key, the recorded messages and those still to be *)
(* recorded were received; and of a year's messages nothing else was       *)
(* received but what an error or the end of the process left doubtful, the *)
(* transport's silent repeats, and the one message behind the key's row.   *)
(* A deleted contact stands for its lost row.  NoSilentDuplicate is not    *)
(* inductive: it says nothing of one message, and does not tie it to a row *)
(* that stops the next one.                                                *)
(***************************************************************************)
Counted(k) == Cardinality(SentRows(k)) + Cardinality(Pending(k)) <= received[k]
Once(k) ==
  k[2] # NoYear =>
    received[k] <= Cardinality(Pending(k)) + doubtful[k] + repeats[k]
                     + (IF Recorded(k) \/ contacts[k[1]] = Deleted THEN 1 ELSE 0)
Ledger == \A k \in Keys : Counted(k) /\ Once(k)

(* A log has finitely many rows, so each key's can be counted. *)
LEMMA RowsFinite ==
  ASSUME TypeOK, NEW k
  PROVE  IsFiniteSet(SentRows(k)) /\ Cardinality(SentRows(k)) \in Nat
<1>1. DOMAIN sendLog = 1 .. Len(sendLog) /\ Len(sendLog) \in Nat
  BY DEF TypeOK
<1>2. IsFiniteSet(1 .. Len(sendLog))
  BY <1>1, FS_Interval
<1>3. SentRows(k) \in SUBSET (1 .. Len(sendLog))
  BY <1>1 DEF SentRows
<1> QED
  BY <1>2, <1>3, FS_Subset, FS_CardinalityType

(* A step that writes no row, sends nothing and ends no send keeps it. *)
LEMMA QuietStep ==
  ASSUME TypeOK, Ledger,
         UNCHANGED <<sendLog, received, doubtful, repeats>>,
         \A c \in ContactIds : contacts[c] = Deleted => contacts'[c] = Deleted,
         \A k \in Keys : Pending(k)' = Pending(k)
  PROVE  Ledger'
<1> SUFFICES ASSUME NEW k \in Keys PROVE Counted(k)' /\ Once(k)'
  BY DEF Ledger
<1>1. Counted(k) /\ Once(k) /\ Pending(k)' = Pending(k)
  BY DEF Ledger
<1>2. SentRows(k)' = SentRows(k) /\ Recorded(k)' = Recorded(k)
  BY DEF SentRows, Recorded
<1>3. Counted(k)'
  BY <1>1, <1>2 DEF Counted
<1>4. k[1] \in ContactIds
  BY DEF Keys
<1>5. /\ received[k] \in Nat /\ doubtful[k] \in Nat /\ repeats[k] \in Nat
      /\ Cardinality(Pending(k)) \in Nat
  BY PendingFinite DEF TypeOK
<1>6. (Recorded(k) \/ contacts[k[1]] = Deleted) => (Recorded(k) \/ contacts[k[1]] = Deleted)'
  BY <1>2, <1>4
<1>7. Once(k)'
  <2>1. SUFFICES ASSUME k[2] # NoYear
                 PROVE  received[k] <= Cardinality(Pending(k)) + doubtful[k] + repeats[k]
                          + (IF (Recorded(k) \/ contacts[k[1]] = Deleted)' THEN 1 ELSE 0)
    BY <1>1 DEF Once
  <2>2. received[k] <= Cardinality(Pending(k)) + doubtful[k] + repeats[k]
                          + (IF Recorded(k) \/ contacts[k[1]] = Deleted THEN 1 ELSE 0)
    BY <1>1, <2>1 DEF Once
  <2> QED
    BY <1>5, <1>6, <2>2
<1> QED
  BY <1>3, <1>7

(* A message goes out: its sender becomes pending, its other copies are repeats. *)
LEMMA SendOkStep ==
  ASSUME TypeOK, JobInv, Ledger, NEW p \in Actors, SendTextOk(p)
  PROVE  Ledger'
<1>1. PICK n \in 1 .. Attempts :
        /\ pc[p] = "send"
        /\ received' = [received EXCEPT ![job[p]] = @ + n]
        /\ repeats' = [repeats EXCEPT ![job[p]] = @ + (n - 1)]
        /\ pc' = [pc EXCEPT ![p] = "logSent"]
        /\ UNCHANGED <<contacts, sendLog, job, doubtful>>
  BY DEF SendTextOk, store
<1>2. job[p] \in Keys
  BY <1>1 DEF JobInv
<1> SUFFICES ASSUME NEW k \in Keys PROVE Counted(k)' /\ Once(k)'
  BY DEF Ledger
<1>3. Counted(k) /\ Once(k)
  BY DEF Ledger
<1>4. SentRows(k)' = SentRows(k) /\ Recorded(k)' = Recorded(k)
  BY <1>1 DEF SentRows, Recorded
<1>5. CASE k = job[p]
  <2>1. Pending(k)' = Pending(k) \cup {p} /\ p \notin Pending(k)
    BY <1>1, <1>5 DEF Pending, TypeOK
  <2>2. Cardinality(Pending(k)') = Cardinality(Pending(k)) + 1
    BY <2>1, PendingFinite, FS_AddElement
  <2>3. received'[k] = received[k] + n /\ repeats'[k] = repeats[k] + (n - 1) /\ doubtful' = doubtful
    BY <1>1, <1>5 DEF TypeOK
  <2>4. /\ received[k] \in Nat /\ doubtful[k] \in Nat /\ repeats[k] \in Nat /\ n \in Nat /\ n >= 1
        /\ Cardinality(Pending(k)) \in Nat /\ Cardinality(SentRows(k)) \in Nat
    BY <1>1, NatAssumption, PendingFinite, RowsFinite DEF TypeOK
  <2>5. Counted(k)'
    BY <1>3, <1>4, <2>2, <2>3, <2>4 DEF Counted
  <2>6. contacts' = contacts
    BY <1>1
  <2>7. Once(k)'
    BY <1>3, <1>4, <2>2, <2>3, <2>4, <2>6 DEF Once
  <2> QED
    BY <2>5, <2>7
<1>6. CASE k # job[p]
  <2>1. Pending(k)' = Pending(k)
    BY <1>1, <1>6 DEF Pending, TypeOK
  <2>2. /\ received'[k] = received[k] /\ repeats'[k] = repeats[k]
        /\ doubtful' = doubtful /\ contacts' = contacts
    BY <1>1, <1>6 DEF TypeOK
  <2> QED
    BY <1>3, <1>4, <2>1, <2>2 DEF Counted, Once
<1> QED
  BY <1>5, <1>6

(* A send that failed pends nowhere: copies that got out are doubtful. *)
LEMMA SendFailsStep ==
  ASSUME TypeOK, JobInv, Ledger, NEW p \in Actors, SendTextFails(p)
  PROVE  Ledger'
<1>1. PICK n \in 0 .. Attempts :
        /\ pc[p] = "send"
        /\ received' = [received EXCEPT ![job[p]] = @ + n]
        /\ doubtful' = [doubtful EXCEPT ![job[p]] = @ + n]
        /\ pc' = [pc EXCEPT ![p] = "logFailed"]
        /\ UNCHANGED <<contacts, sendLog, job, repeats>>
  BY DEF SendTextFails, store
<1>2. job[p] \in Keys
  BY <1>1 DEF JobInv
<1> SUFFICES ASSUME NEW k \in Keys PROVE Counted(k)' /\ Once(k)'
  BY DEF Ledger
<1>3. Counted(k) /\ Once(k)
  BY DEF Ledger
<1>4. SentRows(k)' = SentRows(k) /\ Recorded(k)' = Recorded(k)
  BY <1>1 DEF SentRows, Recorded
<1>5. Pending(k)' = Pending(k)
  BY <1>1 DEF Pending, TypeOK
<1>6. /\ received[k] \in Nat /\ doubtful[k] \in Nat /\ repeats[k] \in Nat /\ n \in Nat
      /\ Cardinality(Pending(k)) \in Nat /\ Cardinality(SentRows(k)) \in Nat
  BY <1>1, NatAssumption, PendingFinite, RowsFinite DEF TypeOK
<1>7. /\ \/ received'[k] = received[k] + n /\ doubtful'[k] = doubtful[k] + n
         \/ received'[k] = received[k] /\ doubtful'[k] = doubtful[k]
      /\ repeats' = repeats /\ contacts' = contacts
  BY <1>1 DEF TypeOK
<1>8. Counted(k)'
  BY <1>3, <1>4, <1>5, <1>6, <1>7 DEF Counted
<1>9. Once(k)'
  BY <1>3, <1>4, <1>5, <1>6, <1>7 DEF Once
<1> QED
  BY <1>8, <1>9

(* What the log says of a key after one more row. *)
LEMMA RowAppended ==
  ASSUME TypeOK, NEW j \in Keys, NEW s \in {"sent", "failed"}, AppendRow(j, s), NEW k \in Keys
  PROVE  /\ SentRows(k)' = IF s = "sent" /\ k = j THEN SentRows(k) \cup {Len(sendLog) + 1}
                                                  ELSE SentRows(k)
         /\ Len(sendLog) + 1 \notin SentRows(k)
         /\ Recorded(k) => Recorded(k)'
         /\ s = "sent" /\ k = j => Recorded(k)'
<1> DEFINE n == Len(sendLog)
           row == [contact |-> j[1], year |-> j[2], status |-> s]
<1>1. n \in Nat /\ DOMAIN sendLog = 1 .. n
  BY DEF TypeOK
<1>2. /\ sendLog' = Append(sendLog, row)
      /\ DOMAIN sendLog' = 1 .. n + 1
      /\ sendLog'[n + 1] = row
      /\ \A i \in 1 .. n : sendLog'[i] = sendLog[i]
  BY <1>1 DEF AppendRow, TypeOK
<1>3. row = [contact |-> k[1], year |-> k[2], status |-> "sent"] <=> (s = "sent" /\ k = j)
  <2>1. k = j <=> k[1] = j[1] /\ k[2] = j[2]
    BY DEF Keys
  <2>2. \A a1, a2, b1, b2, c1, c2 :
           [contact |-> a1, year |-> b1, status |-> c1] = [contact |-> a2, year |-> b2, status |-> c2]
             <=> a1 = a2 /\ b1 = b2 /\ c1 = c2
    OBVIOUS
  <2> QED
    BY <2>1, <2>2
<1>4. n + 1 \notin SentRows(k)
  BY <1>1 DEF SentRows
<1>5. SentRows(k)' = IF s = "sent" /\ k = j THEN SentRows(k) \cup {n + 1} ELSE SentRows(k)
  BY <1>1, <1>2, <1>3 DEF SentRows
<1>6. Recorded(k) => Recorded(k)'
  BY <1>1, <1>2 DEF Recorded
<1>7. s = "sent" /\ k = j => Recorded(k)'
  <2>1. ASSUME s = "sent", k = j
        PROVE  /\ n + 1 \in DOMAIN sendLog'
               /\ sendLog'[n + 1].contact = k[1] /\ sendLog'[n + 1].year = k[2]
               /\ sendLog'[n + 1].status = "sent"
    BY <1>1, <1>2, <2>1
  <2> QED
    BY <2>1 DEF Recorded
<1> QED
  BY <1>4, <1>5, <1>6, <1>7

(* deliver records a message that is out: the row replaces the pending send, *)
(* unless the index or a fault refuses it, which makes the message doubtful. *)
LEMMA LogSentStep ==
  ASSUME TypeOK, JobInv, Ledger, NEW p \in Actors, LogSent(p)
  PROVE  Ledger'
<1>1. /\ pc[p] = "logSent" /\ job[p] \in Keys
      /\ pc' = [pc EXCEPT ![p] = IF p = Ticker THEN "scan" ELSE "done"]
      /\ job' = [job EXCEPT ![p] = None]
      /\ UNCHANGED <<contacts, received, repeats>>
  BY DEF LogSent, Return, JobInv
<1> SUFFICES ASSUME NEW k \in Keys PROVE Counted(k)' /\ Once(k)'
  BY DEF Ledger
<1>2. Counted(k) /\ Once(k)
  BY DEF Ledger
<1>3. Pending(k)' = Pending(k) \ {p} /\ (p \in Pending(k) <=> k = job[p])
  BY <1>1 DEF Pending, TypeOK
<1>4. Cardinality(Pending(k)') = IF k = job[p] THEN Cardinality(Pending(k)) - 1 ELSE Cardinality(Pending(k))
  BY <1>3, PendingFinite, FS_RemoveElement
<1>5. /\ received[k] \in Nat /\ doubtful[k] \in Nat /\ repeats[k] \in Nat
      /\ Cardinality(Pending(k)) \in Nat /\ Cardinality(SentRows(k)) \in Nat
  BY PendingFinite, RowsFinite DEF TypeOK
<1>6. CASE Accepts(job[p], "sent") /\ AppendRow(job[p], "sent") /\ UNCHANGED doubtful
  <2>1. /\ SentRows(k)' = IF k = job[p] THEN SentRows(k) \cup {Len(sendLog) + 1} ELSE SentRows(k)
        /\ Len(sendLog) + 1 \notin SentRows(k)
        /\ Recorded(k) => Recorded(k)'
        /\ k = job[p] => Recorded(k)'
    BY <1>1, <1>6, RowAppended
  <2>2. Cardinality(SentRows(k)') = IF k = job[p] THEN Cardinality(SentRows(k)) + 1 ELSE Cardinality(SentRows(k))
    BY <2>1, RowsFinite, FS_AddElement
  <2>3. Counted(k)'
    BY <1>1, <1>2, <1>4, <1>5, <2>2 DEF Counted
  <2>4. Once(k)'
    <3>1. CASE k = job[p]
      <4>1. k[2] # NoYear => ~Recorded(k) /\ contacts[k[1]] # Deleted
        BY <1>6, <3>1, NoneAssumption DEF Accepts, Exists
      <4> QED
        BY <1>1, <1>2, <1>4, <1>5, <1>6, <2>1, <3>1, <4>1 DEF Once
    <3>2. CASE k # job[p]
      <4>1. (Recorded(k) \/ contacts[k[1]] = Deleted) => (Recorded(k) \/ contacts[k[1]] = Deleted)'
        BY <1>1, <2>1
      <4> QED
        BY <1>1, <1>2, <1>4, <1>5, <1>6, <3>2, <4>1 DEF Once
    <3> QED
      BY <3>1, <3>2
  <2> QED
    BY <2>3, <2>4
<1>7. CASE UNCHANGED sendLog /\ doubtful' = [doubtful EXCEPT ![job[p]] = @ + 1]
  <2>1. SentRows(k)' = SentRows(k) /\ Recorded(k)' = Recorded(k)
    BY <1>7 DEF SentRows, Recorded
  <2>2. Counted(k)'
    BY <1>1, <1>2, <1>4, <1>5, <2>1 DEF Counted
  <2>3. doubtful'[k] = IF k = job[p] THEN doubtful[k] + 1 ELSE doubtful[k]
    BY <1>1, <1>7 DEF TypeOK
  <2>4. Once(k)'
    BY <1>1, <1>2, <1>4, <1>5, <2>1, <2>3 DEF Once
  <2> QED
    BY <2>2, <2>4
<1> QED
  BY <1>6, <1>7 DEF LogSent

(* A failed attempt's row is no record of a message. *)
LEMMA LogFailedStep ==
  ASSUME TypeOK, JobInv, Ledger, NEW p \in Actors, LogFailed(p)
  PROVE  Ledger'
<1>1. /\ pc[p] = "logFailed" /\ job[p] \in Keys
      /\ pc' = [pc EXCEPT ![p] = IF p = Ticker THEN "scan" ELSE "done"]
      /\ job' = [job EXCEPT ![p] = None]
      /\ UNCHANGED <<contacts, received, doubtful, repeats>>
  BY DEF LogFailed, Return, JobInv, history
<1>2. \A k \in Keys : Pending(k)' = Pending(k)
  BY <1>1 DEF Pending, TypeOK
<1>3. CASE AppendRow(job[p], "failed")
  <2> SUFFICES ASSUME NEW k \in Keys PROVE Counted(k)' /\ Once(k)'
    BY DEF Ledger
  <2>1. Counted(k) /\ Once(k)
    BY DEF Ledger
  <2>2. SentRows(k)' = SentRows(k) /\ (Recorded(k) => Recorded(k)')
    BY <1>1, <1>3, RowAppended
  <2>3. /\ received[k] \in Nat /\ doubtful[k] \in Nat /\ repeats[k] \in Nat
        /\ Cardinality(Pending(k)) \in Nat
    BY PendingFinite DEF TypeOK
  <2>4. (Recorded(k) \/ contacts[k[1]] = Deleted) => (Recorded(k) \/ contacts[k[1]] = Deleted)'
    BY <1>1, <2>2
  <2> QED
    BY <1>1, <1>2, <2>1, <2>2, <2>3, <2>4 DEF Counted, Once
<1>4. CASE UNCHANGED sendLog
  BY <1>1, <1>2, <1>4, QuietStep
<1> QED
  BY <1>3, <1>4 DEF LogFailed

(* Deleting a contact leaves its keys no rows, and the others theirs. *)
LEMMA DeletedRows ==
  ASSUME TypeOK, NEW c \in ContactIds, DeleteContact(c), NEW k \in Keys
  PROVE  SentRows(k)' = IF k[1] = c THEN {} ELSE SentRows(k)
<1>1. /\ DOMAIN sendLog' = DOMAIN sendLog
      /\ \A i \in DOMAIN sendLog :
           sendLog'[i] = IF sendLog[i].contact = c THEN [sendLog[i] EXCEPT !.contact = None] ELSE sendLog[i]
  BY DEF DeleteContact
<1>2. \A i \in DOMAIN sendLog : sendLog[i] \in Row
  BY DEF TypeOK
<1>3. k[1] \in ContactIds /\ k[1] # None
  BY NoneAssumption DEF Keys
<1>4. CASE k[1] = c
  <2>1. \A i \in DOMAIN sendLog : sendLog'[i].contact # k[1]
    BY <1>1, <1>2, <1>3, <1>4 DEF Row
  <2> QED BY <1>1, <1>4, <2>1 DEF SentRows
<1>5. CASE k[1] # c
  <2>1. \A i \in DOMAIN sendLog :
          /\ sendLog[i].contact = k[1] => sendLog'[i] = sendLog[i]
          /\ sendLog'[i].contact = k[1] => sendLog'[i] = sendLog[i]
    BY <1>1, <1>2, <1>3, <1>5 DEF Row
  <2> QED BY <1>1, <1>5, <2>1 DEF SentRows
<1> QED BY <1>4, <1>5

(* Deleting a contact takes its name off its rows; it is Deleted from then on. *)
LEMMA DeleteStep ==
  ASSUME TypeOK, Ledger, NEW c \in ContactIds, DeleteContact(c)
  PROVE  Ledger'
<1>1. /\ contacts' = [contacts EXCEPT ![c] = Deleted]
      /\ UNCHANGED <<pc, job, received, doubtful, repeats>>
      /\ DOMAIN sendLog' = DOMAIN sendLog
      /\ \A i \in DOMAIN sendLog :
           sendLog'[i] = IF sendLog[i].contact = c THEN [sendLog[i] EXCEPT !.contact = None] ELSE sendLog[i]
  BY DEF DeleteContact, history
<1>2. \A i \in DOMAIN sendLog : sendLog[i] \in Row
  BY DEF TypeOK
<1> SUFFICES ASSUME NEW k \in Keys PROVE Counted(k)' /\ Once(k)'
  BY DEF Ledger
<1>3. Counted(k) /\ Once(k)
  BY DEF Ledger
<1>4. Pending(k)' = Pending(k)
  BY <1>1 DEF Pending
<1>5. k[1] \in ContactIds /\ k[1] # None
  BY NoneAssumption DEF Keys
<1>6. /\ received[k] \in Nat /\ doubtful[k] \in Nat /\ repeats[k] \in Nat
      /\ Cardinality(Pending(k)) \in Nat /\ Cardinality(SentRows(k)) \in Nat
  BY PendingFinite, RowsFinite DEF TypeOK
<1>7. CASE k[1] = c
  <2>1. SentRows(k)' = {}
    BY <1>7, DeletedRows
  <2>2. contacts'[k[1]] = Deleted
    BY <1>1, <1>5, <1>7 DEF TypeOK
  <2>3. Counted(k)'
    BY <1>1, <1>3, <1>4, <1>6, <2>1, FS_EmptySet DEF Counted
  <2>4. Once(k)'
    BY <1>1, <1>3, <1>4, <1>6, <2>2 DEF Once
  <2> QED
    BY <2>3, <2>4
<1>8. CASE k[1] # c
  <2>1. \A i \in DOMAIN sendLog :
          /\ sendLog[i].contact = k[1] => sendLog'[i] = sendLog[i]
          /\ sendLog'[i].contact = k[1] => sendLog'[i] = sendLog[i]
    BY <1>1, <1>2, <1>5, <1>8 DEF Row
  <2>2. SentRows(k)' = SentRows(k)
    BY <1>8, DeletedRows
  <2>3. Recorded(k)' = Recorded(k)
    BY <1>1, <2>1 DEF Recorded
  <2>4. contacts'[k[1]] = contacts[k[1]]
    BY <1>1, <1>8
  <2> QED
    BY <1>1, <1>3, <1>4, <2>2, <2>3, <2>4 DEF Counted, Once
<1> QED
  BY <1>7, <1>8

(* The end of the process: what was pending is doubtful from then on. *)
LEMMA RestartStep ==
  ASSUME TypeOK, Ledger, Restart
  PROVE  Ledger'
<1>1. /\ \A p \in Actors : pc'[p] # "logSent"
      /\ doubtful' = [l \in Keys |-> doubtful[l] + Cardinality(Pending(l))]
      /\ UNCHANGED <<contacts, sendLog, received, repeats>>
  BY DEF Restart, store
<1> SUFFICES ASSUME NEW k \in Keys PROVE Counted(k)' /\ Once(k)'
  BY DEF Ledger
<1>2. Counted(k) /\ Once(k)
  BY DEF Ledger
<1>3. SentRows(k)' = SentRows(k) /\ Recorded(k)' = Recorded(k)
  BY <1>1 DEF SentRows, Recorded
<1>4. Pending(k)' = {}
  BY <1>1 DEF Pending
<1>5. Cardinality(Pending(k)') = 0
  BY <1>4, FS_EmptySet
<1>6. /\ received[k] \in Nat /\ doubtful[k] \in Nat /\ repeats[k] \in Nat
      /\ Cardinality(Pending(k)) \in Nat /\ Cardinality(SentRows(k)) \in Nat
  BY PendingFinite, RowsFinite DEF TypeOK
<1>7. Counted(k)'
  BY <1>1, <1>2, <1>3, <1>5, <1>6 DEF Counted
<1>8. doubtful'[k] = doubtful[k] + Cardinality(Pending(k))
  BY <1>1
<1>9. Once(k)'
  BY <1>1, <1>2, <1>3, <1>5, <1>6, <1>8 DEF Once
<1> QED
  BY <1>7, <1>9

(* The accounting holds at the start, where nothing was sent. *)
LEMMA InitLedger == Init => Ledger
<1> SUFFICES ASSUME Init, NEW k \in Keys PROVE Counted(k) /\ Once(k)
  BY DEF Ledger
<1>1. /\ SentRows(k) = {} /\ Pending(k) = {}
      /\ received[k] = 0 /\ doubtful[k] = 0 /\ repeats[k] = 0
  BY DEF Init, SentRows, Pending
<1>2. Cardinality(SentRows(k)) = 0 /\ Cardinality(Pending(k)) = 0
  BY <1>1, FS_EmptySet
<1> QED
  BY <1>1, <1>2 DEF Counted, Once

(* Every step keeps the accounting. *)
LEMMA StepLedger ==
  ASSUME TypeOK, JobInv, Ledger, [Next]_vars
  PROVE  Ledger'
<1>0. Ticker \in Actors /\ Requests \subseteq Actors
  BY DEF Actors
<1>1. CASE TickerStep
  <2>1. /\ UNCHANGED <<contacts, sendLog, received, doubtful, repeats>>
        /\ \A p \in Actors : (pc'[p] = "logSent" /\ pc[p] = "logSent") \/ (pc'[p] # "logSent" /\ pc[p] # "logSent")
        /\ \A p \in Actors : pc[p] = "logSent" => job'[p] = job[p]
    BY <1>0, <1>1 DEF TickerStep, TickLoad, TickList, TickAbandon, TickEnd, Visit, TypeOK, store, history
  <2>2. \A k \in Keys : Pending(k)' = Pending(k)
    BY <2>1 DEF Pending
  <2> QED
    BY <2>1, <2>2, QuietStep
<1>2. ASSUME NEW p \in Requests, RequestStep(p)
      PROVE  Ledger'
  <2>1. /\ UNCHANGED <<contacts, sendLog, received, doubtful, repeats>>
        /\ \A q \in Actors : (pc'[q] = "logSent" /\ pc[q] = "logSent") \/ (pc'[q] # "logSent" /\ pc[q] # "logSent")
        /\ \A q \in Actors : pc[q] = "logSent" => job'[q] = job[q]
    BY <1>0, <1>2 DEF RequestStep, CurrentYear, CheckSent, RequestFails, SendNow, Return, TypeOK, store, history
  <2>2. \A k \in Keys : Pending(k)' = Pending(k)
    BY <2>1 DEF Pending
  <2> QED
    BY <2>1, <2>2, QuietStep
<1>3. ASSUME NEW p \in Actors, Prepare(p)
      PROVE  Ledger'
  <2>1. /\ UNCHANGED <<contacts, sendLog, received, doubtful, repeats>>
        /\ \A q \in Actors : (pc'[q] = "logSent" /\ pc[q] = "logSent") \/ (pc'[q] # "logSent" /\ pc[q] # "logSent")
        /\ \A q \in Actors : pc[q] = "logSent" => job'[q] = job[q]
    BY <1>0, <1>3 DEF Prepare, Return, TypeOK, store, history
  <2>2. \A k \in Keys : Pending(k)' = Pending(k)
    BY <2>1 DEF Pending
  <2> QED
    BY <2>1, <2>2, QuietStep
<1>4. ASSUME NEW p \in Actors, Deliver(p)
      PROVE  Ledger'
  BY <1>3, <1>4, SendOkStep, SendFailsStep, LogSentStep, LogFailedStep DEF Deliver
<1>5. ASSUME NEW c \in ContactIds, NEW row \in Contact, SaveContact(c, row)
      PROVE  Ledger'
  <2>1. /\ UNCHANGED <<sendLog, received, doubtful, repeats, pc, job>>
        /\ \A d \in ContactIds : contacts[d] = Deleted => contacts'[d] = Deleted
    BY <1>5 DEF SaveContact, TypeOK, history
  <2>2. \A k \in Keys : Pending(k)' = Pending(k)
    BY <2>1 DEF Pending
  <2> QED
    BY <2>1, <2>2, QuietStep
<1>6. CASE Operator
  <2>1. ASSUME NEW s \in Settings, SaveSettings(s)
        PROVE  Ledger'
    <3>1. UNCHANGED <<contacts, sendLog, received, doubtful, repeats, pc, job>>
      BY <2>1 DEF SaveSettings, history
    <3>2. \A k \in Keys : Pending(k)' = Pending(k)
      BY <3>1 DEF Pending
    <3> QED
      BY <3>1, <3>2, QuietStep
  <2> QED
    BY <1>5, <1>6, <2>1, DeleteStep DEF Operator
<1>7. CASE TimePasses \/ Sigterm \/ UNCHANGED vars
  <2>1. UNCHANGED <<contacts, sendLog, received, doubtful, repeats, pc, job>>
    BY <1>7 DEF TimePasses, Sigterm, vars, store, history
  <2>2. \A k \in Keys : Pending(k)' = Pending(k)
    BY <2>1 DEF Pending
  <2> QED
    BY <2>1, <2>2, QuietStep
<1>8. CASE Crash \/ Exit
  BY <1>8, RestartStep DEF Crash, Exit
<1> QED
  BY <1>1, <1>2, <1>4, <1>6, <1>7, <1>8 DEF Next

(* The accounting holds in every reachable state. *)
LEMMA LedgerInvariant == Spec => [](TypeOK /\ Ledger)
<1>1. Init => TypeOK /\ JobInv /\ Ledger
  BY InitTypes, InitLedger
<1>2. (TypeOK /\ JobInv /\ Ledger) /\ [Next]_vars => (TypeOK /\ JobInv /\ Ledger)'
  BY StepTypes, StepLedger
<1> QED
  BY <1>1, <1>2, PTL DEF Spec

(* However many requests race with the tick loop, however often the process   *)
(* dies and the operator edits, every message a contact gets under one event  *)
(* year but one still owes its row, belongs to a send that ended in an error  *)
(* or with the process, or is a repeat the transport made inside one send     *)
(* that succeeded (the one kind of duplicate that leaves no error).           *)
THEOREM DuplicatesAreNeverSilent == Spec => []NoSilentDuplicate
<1>1. TypeOK /\ Ledger => NoSilentDuplicate
  <2> SUFFICES ASSUME TypeOK, Ledger, NEW k \in Keys, k[2] # NoYear
               PROVE  received[k] <= 1 + Cardinality(Pending(k)) + doubtful[k] + repeats[k]
    BY DEF NoSilentDuplicate
  <2>1. /\ Once(k) /\ received[k] \in Nat /\ doubtful[k] \in Nat /\ repeats[k] \in Nat
        /\ Cardinality(Pending(k)) \in Nat
    BY PendingFinite DEF Ledger, TypeOK
  <2> QED
    BY <2>1 DEF Once
<1> QED
  BY <1>1, LedgerInvariant, PTL

(* The history the operator reads never claims more messages than went out. *)
THEOREM LogIsHonest == Spec => []LogNeverOverclaims
<1>1. TypeOK /\ Ledger => LogNeverOverclaims
  <2> SUFFICES ASSUME TypeOK, Ledger, NEW k \in Keys
               PROVE  Cardinality(SentRows(k)) <= received[k]
    BY DEF LogNeverOverclaims
  <2>1. Counted(k) /\ received[k] \in Nat
    BY DEF Ledger, TypeOK
  <2> QED
    BY <2>1, PendingFinite, RowsFinite DEF Counted
<1> QED
  BY <1>1, LedgerInvariant, PTL

-----------------------------------------------------------------------------
(* Scheduler implements BlessingLedger: the abstract counts are those of the *)
(* sets of actors that hold a claim or owe a row, and a step of one actor    *)
(* moves it in or out of one set.                                            *)

\* A request that has its contact and no year yet is under the forced key.
YearInv == \A p \in Requests : pc[p] = "year" => job[p][2] = NoYear

Inv == TypeOK /\ JobInv /\ YearInv

LEMMA YearStep == Inv /\ [Next]_vars => YearInv'
<1> SUFFICES ASSUME Inv, [Next]_vars, NEW q \in Requests, pc'[q] = "year" PROVE job'[q][2] = NoYear
  BY DEF YearInv
<1> USE ActorAssumption DEF Inv, YearInv, TypeOK, Actors
<1>1. CASE TickerStep
  BY <1>1 DEF TickerStep, TickLoad, TickList, TickAbandon, TickEnd, Visit
<1>2. ASSUME NEW p \in Requests, RequestStep(p) PROVE job'[q][2] = NoYear
  BY <1>2 DEF RequestStep, CurrentYear, CheckSent, RequestFails, SendNow, Return
<1>3. ASSUME NEW p \in Actors, Deliver(p) PROVE job'[q][2] = NoYear
  BY <1>3 DEF Deliver, Prepare, SendTextOk, SendTextFails, LogSent, LogFailed, Return
<1>4. CASE Operator
  BY <1>4 DEF Operator, DeleteContact, SaveContact, SaveSettings
<1>5. CASE TimePasses \/ Sigterm \/ UNCHANGED vars
  BY <1>5 DEF TimePasses, Sigterm, vars
<1>6. CASE Crash \/ Exit
  BY <1>6 DEF Crash, Exit, Restart
<1> QED BY <1>1, <1>2, <1>3, <1>4, <1>5, <1>6 DEF Next

LEMMA Invariance == Spec => []Inv
<1>1. Init => Inv
  BY InitTypes, ActorAssumption DEF Inv, YearInv, Init, Actors
<1>2. Inv /\ [Next]_vars => Inv'
  BY StepTypes, YearStep DEF Inv
<1> QED BY <1>1, <1>2, PTL DEF Spec

-----------------------------------------------------------------------------
(* Counting *)

LEMMA ActorsFinite ==
  ASSUME NEW S \in SUBSET Actors
  PROVE  IsFiniteSet(S) /\ Cardinality(S) \in Nat
<1>1. IsFiniteSet(Actors)
  BY ActorAssumption, FS_AddElement DEF Actors
<1> QED BY <1>1, FS_Subset, FS_CardinalityType

\* An actor takes up a claim.
LEMMA ClaimIn ==
  ASSUME NEW p \in Actors, NEW j \in Keys, p \notin Claimants(j),
         \A k \in Keys : Claimants(k)' = IF k = j THEN Claimants(k) \cup {p} ELSE Claimants(k)
  PROVE  Claims' = [Claims EXCEPT ![j] = @ + 1]
<1>1. Cardinality(Claimants(j) \cup {p}) = Cardinality(Claimants(j)) + 1 /\ Cardinality(Claimants(j)) \in Nat
  BY ActorsFinite, FS_AddElement DEF Claimants
<1>2. \A k \in Keys : Cardinality(Claimants(k)') = IF k = j THEN Cardinality(Claimants(k)) + 1
                                                        ELSE Cardinality(Claimants(k))
  BY <1>1
<1> QED BY <1>1, <1>2 DEF Claims

\* An actor gives its claim up.
LEMMA ClaimOut ==
  ASSUME NEW j \in Keys, NEW p \in Claimants(j),
         \A k \in Keys : Claimants(k)' = IF k = j THEN Claimants(k) \ {p} ELSE Claimants(k)
  PROVE  Claims' = [Claims EXCEPT ![j] = @ - 1] /\ Claims[j] > 0
<1>1. Cardinality(Claimants(j) \ {p}) = Cardinality(Claimants(j)) - 1 /\ Cardinality(Claimants(j)) \in Nat
      /\ Cardinality(Claimants(j) \ {p}) \in Nat
  BY ActorsFinite, FS_RemoveElement DEF Claimants
<1>2. \A k \in Keys : Cardinality(Claimants(k)') = IF k = j THEN Cardinality(Claimants(k)) - 1
                                                        ELSE Cardinality(Claimants(k))
  BY <1>1
<1>3. Claims' = [Claims EXCEPT ![j] = @ - 1]
  BY <1>2 DEF Claims
<1>4. Cardinality(Claimants(j)) > 0
  BY <1>1
<1> QED BY <1>3, <1>4 DEF Claims

\* An actor comes to owe a row.
LEMMA OwedIn ==
  ASSUME NEW p \in Actors, NEW j \in Keys, p \notin Pending(j),
         \A k \in Keys : Pending(k)' = IF k = j THEN Pending(k) \cup {p} ELSE Pending(k)
  PROVE  Owed' = [Owed EXCEPT ![j] = @ + 1]
<1>1. Cardinality(Pending(j) \cup {p}) = Cardinality(Pending(j)) + 1 /\ Cardinality(Pending(j)) \in Nat
  BY ActorsFinite, FS_AddElement DEF Pending
<1>2. \A k \in Keys : Cardinality(Pending(k)') = IF k = j THEN Cardinality(Pending(k)) + 1
                                                        ELSE Cardinality(Pending(k))
  BY <1>1
<1> QED BY <1>1, <1>2 DEF Owed

\* An actor owes its row no more.
LEMMA OwedOut ==
  ASSUME NEW j \in Keys, NEW p \in Pending(j),
         \A k \in Keys : Pending(k)' = IF k = j THEN Pending(k) \ {p} ELSE Pending(k)
  PROVE  Owed' = [Owed EXCEPT ![j] = @ - 1] /\ Owed[j] > 0
<1>1. Cardinality(Pending(j) \ {p}) = Cardinality(Pending(j)) - 1 /\ Cardinality(Pending(j)) \in Nat
      /\ Cardinality(Pending(j) \ {p}) \in Nat
  BY ActorsFinite, FS_RemoveElement DEF Pending
<1>2. \A k \in Keys : Cardinality(Pending(k)') = IF k = j THEN Cardinality(Pending(k)) - 1
                                                        ELSE Cardinality(Pending(k))
  BY <1>1
<1>3. Owed' = [Owed EXCEPT ![j] = @ - 1]
  BY <1>2 DEF Owed
<1>4. Cardinality(Pending(j)) > 0
  BY <1>1
<1> QED BY <1>3, <1>4 DEF Owed

\* What a step of one actor does to the sets.
LEMMA Moved ==
  ASSUME TypeOK, NEW p \in Actors,
         \A q \in Actors \ {p} : pc'[q] = pc[q] /\ job'[q] = job[q]
  PROVE  \A k \in Keys :
           /\ Claimants(k)' = (Claimants(k) \ {p}) \cup
                {q \in {p} : pc'[q] \in {"prepare", "send"} /\ job'[q] = k}
           /\ Pending(k)' = (Pending(k) \ {p}) \cup {q \in {p} : pc'[q] = "logSent" /\ job'[q] = k}
BY DEF Claimants, Pending

\* Nothing moves, nothing is sent or written.
LEMMA QuietBook ==
  ASSUME \A k \in Keys : Claimants(k)' = Claimants(k) /\ Pending(k)' = Pending(k),
         UNCHANGED <<sendLog, received, doubtful, repeats>>,
         \A c \in ContactIds : contacts'[c] = Deleted <=> contacts[c] = Deleted
  PROVE  UNCHANGED <<Claims, Owed, Rows, received, doubtful, repeats, Closed>>
<1>1. Claims' = Claims
  BY DEF Claims
<1>2. Owed' = Owed
  BY DEF Owed
<1>3. \A k \in Keys : SentRows(k)' = SentRows(k)
  BY DEF SentRows
<1>4. Rows' = Rows
  BY <1>3 DEF Rows
<1>5. Closed' = Closed
  BY DEF Closed
<1> QED BY <1>1, <1>2, <1>4, <1>5
-----------------------------------------------------------------------------
(* The steps *)

Abstract == <<Claims, Owed, Rows, received, doubtful, repeats, Closed>>

\* Rows the log has none of, and the ones that may be repeated.
LEMMA NoRow ==
  ASSUME TypeOK, NEW k \in Keys, ~Recorded(k)
  PROVE  Rows[k] = 0
<1>1. SentRows(k) = {}
  BY DEF SentRows, Recorded
<1> QED BY <1>1, FS_EmptySet DEF Rows

\* A step of the tick loop claims a due contact without a row, or is no step of
\* the ledger.
LEMMA TickerBook ==
  ASSUME Inv, TickerStep
  PROVE  (\E k \in Keys : Book!Claim(k)) \/ UNCHANGED Abstract
<1> USE DEF Inv
<1>0. Ticker \in Actors
  BY DEF Actors
<1>1. /\ UNCHANGED <<sendLog, contacts, received, doubtful, repeats>>
      /\ \A q \in Actors \ {Ticker} : pc'[q] = pc[q] /\ job'[q] = job[q]
      /\ pc[Ticker] \in {"idle", "list", "scan"}
  BY DEF TickerStep, TickLoad, TickList, TickAbandon, TickEnd, Visit, store, history, TypeOK
<1>2. CASE pc'[Ticker] # "prepare"
  <2>1. pc'[Ticker] \notin {"prepare", "send", "logSent"}
    BY <1>0, <1>2 DEF TickerStep, TickLoad, TickList, TickAbandon, TickEnd, Visit, TypeOK
  <2>2. \A k \in Keys : Claimants(k)' = Claimants(k) /\ Pending(k)' = Pending(k)
    BY <1>1, <2>1 DEF Claimants, Pending
  <2> QED BY <1>1, <2>2, QuietBook DEF Abstract
<1>3. CASE pc'[Ticker] = "prepare"
  <2>1. PICK c \in ContactIds :
          /\ Visit(c) /\ ~Recorded(<<c, tick.now.year>>) /\ pc[Ticker] = "scan"
          /\ job' = [job EXCEPT ![Ticker] = <<c, tick.now.year>>]
    BY <1>0, <1>3 DEF TickerStep, TickLoad, TickList, TickAbandon, TickEnd, Visit, TypeOK,
                      HasSuccessfulScheduledSend
  <2> DEFINE j == <<c, tick.now.year>>
  <2>2. j \in Keys
    BY <2>1 DEF JobInv, Tick, Keys, Years
  <2>3. job'[Ticker] = j
    BY <1>0, <2>1 DEF TypeOK
  <2> HIDE DEF j
  <2>4. Ticker \notin Claimants(j)
    BY <2>1 DEF Claimants
  <2>5. \A k \in Keys : /\ Claimants(k)' = IF k = j THEN Claimants(k) \cup {Ticker} ELSE Claimants(k)
                        /\ Pending(k)' = Pending(k)
    BY <1>0, <1>1, <1>3, <2>1, <2>3 DEF Claimants, Pending
  <2>6. Claims' = [Claims EXCEPT ![j] = @ + 1]
    BY <1>0, <2>2, <2>4, <2>5, ClaimIn
  <2>7. Rows[j] = 0
    BY <2>1, <2>2, NoRow DEF j
  <2>8. UNCHANGED <<Owed, Rows, Closed>>
    BY <1>1, <2>5 DEF Owed, Rows, SentRows, Closed
  <2>9. Book!Claim(j)
    BY <1>1, <2>6, <2>7, <2>8 DEF Book!Claim, Book!Unrecorded
  <2> QED BY <2>2, <2>9
<1> QED BY <1>2, <1>3

\* A request claims when its check found no row, or when it is forced.
LEMMA RequestBook ==
  ASSUME Inv, NEW p \in Requests, RequestStep(p)
  PROVE  (\E k \in Keys : Book!Claim(k)) \/ UNCHANGED Abstract
<1> USE DEF Inv
<1>0. p \in Actors /\ p # Ticker
  BY ActorAssumption DEF Actors
<1>1. /\ UNCHANGED <<sendLog, contacts, received, doubtful, repeats>>
      /\ \A q \in Actors \ {p} : pc'[q] = pc[q] /\ job'[q] = job[q]
      /\ pc[p] \in {"new", "year", "check"}
  BY DEF RequestStep, CurrentYear, CheckSent, RequestFails, SendNow, Return, store, history, TypeOK
<1>2. CASE pc'[p] # "prepare"
  <2>1. pc'[p] \notin {"prepare", "send", "logSent"}
    BY <1>0, <1>2 DEF RequestStep, CurrentYear, CheckSent, RequestFails, SendNow, Return, TypeOK
  <2>2. \A k \in Keys : Claimants(k)' = Claimants(k) /\ Pending(k)' = Pending(k)
    BY <1>1, <2>1 DEF Claimants, Pending
  <2> QED BY <1>1, <2>2, QuietBook DEF Abstract
<1>3. CASE pc'[p] = "prepare"
  <2>1. /\ job' = job
        /\ (pc[p] = "check" /\ ~Recorded(job[p])) \/ pc[p] = "year"
    BY <1>0, <1>3 DEF RequestStep, CurrentYear, CheckSent, RequestFails, SendNow, Return, TypeOK,
                      HasSuccessfulScheduledSend
  <2> DEFINE j == job[p]
  <2>2. j \in Keys
    BY <1>0, <2>1 DEF JobInv
  <2>3. Rows[j] = 0 \/ j[2] = NoYear
    BY <2>1, <2>2, NoRow DEF YearInv
  <2>4. p \notin Claimants(j)
    BY <1>1 DEF Claimants
  <2>5. \A k \in Keys : /\ Claimants(k)' = IF k = j THEN Claimants(k) \cup {p} ELSE Claimants(k)
                        /\ Pending(k)' = Pending(k)
    BY <1>0, <1>1, <1>3, <2>1 DEF Claimants, Pending
  <2> HIDE DEF j
  <2>6. Claims' = [Claims EXCEPT ![j] = @ + 1]
    BY <1>0, <2>2, <2>4, <2>5, ClaimIn
  <2>7. UNCHANGED <<Owed, Rows, Closed>>
    BY <1>1, <2>5 DEF Owed, Rows, SentRows, Closed
  <2>8. Book!Claim(j)
    BY <1>1, <2>3, <2>6, <2>7 DEF Book!Claim, Book!Unrecorded
  <2> QED BY <2>2, <2>8
<1> QED BY <1>2, <1>3

\* An actor that held a claim holds none after the step.
LEMMA Used ==
  ASSUME TypeOK, NEW p \in Actors, pc[p] \in {"prepare", "send"}, job[p] \in Keys,
         pc'[p] \notin {"prepare", "send"},
         \A q \in Actors \ {p} : pc'[q] = pc[q] /\ job'[q] = job[q]
  PROVE  Claims' = [Claims EXCEPT ![job[p]] = @ - 1] /\ Claims[job[p]] > 0
<1> DEFINE j == job[p]
<1>1. p \in Claimants(j)
  BY DEF Claimants
<1>2. \A k \in Keys : Claimants(k)' = IF k = j THEN Claimants(k) \ {p} ELSE Claimants(k)
  BY DEF Claimants
<1>3. j \in Keys
  OBVIOUS
<1> HIDE DEF j
<1>4. Claims' = [Claims EXCEPT ![j] = @ - 1] /\ Claims[j] > 0
  BY <1>1, <1>2, <1>3, ClaimOut
<1> QED BY <1>4 DEF j

\* Prepare keeps the claim or gives it up.
LEMMA PrepareBook ==
  ASSUME Inv, NEW p \in Actors, Prepare(p)
  PROVE  (\E k \in Keys : Book!Fail(k, 0)) \/ UNCHANGED Abstract
<1> USE DEF Inv
<1>1. /\ UNCHANGED <<sendLog, contacts, received, doubtful, repeats>>
      /\ \A q \in Actors \ {p} : pc'[q] = pc[q] /\ job'[q] = job[q]
      /\ pc[p] = "prepare" /\ job[p] \in Keys
  BY DEF Prepare, Return, store, history, TypeOK, JobInv
<1>2. CASE pc'[p] = "send" /\ job' = job
  <2>1. \A k \in Keys : Claimants(k)' = Claimants(k) /\ Pending(k)' = Pending(k)
    BY <1>1, <1>2 DEF Claimants, Pending
  <2> QED BY <1>1, <2>1, QuietBook DEF Abstract
<1>3. CASE Return(p)
  <2>1. pc'[p] \notin {"prepare", "send", "logSent"}
    BY <1>3 DEF Return, TypeOK
  <2>2. Claims' = [Claims EXCEPT ![job[p]] = @ - 1] /\ Claims[job[p]] > 0
    BY <1>1, <2>1, Used
  <2>3. \A k \in Keys : Pending(k)' = Pending(k)
    BY <1>1, <2>1 DEF Pending
  <2>4. UNCHANGED <<Owed, Rows, Closed>>
    BY <1>1, <2>3 DEF Owed, Rows, SentRows, Closed
  <2>5. received' = [received EXCEPT ![job[p]] = @ + 0]
    <3>1. received[job[p]] + 0 = received[job[p]] /\ received \in [Keys -> Nat]
      BY <1>1 DEF TypeOK
    <3> QED BY <1>1, <3>1
  <2>6. Book!Fail(job[p], 0)
    <3>1. Book!Out(job[p], 0)
      BY <2>5 DEF Book!Out
    <3>2. Book!Doubt(job[p], 0)
      <4>1. doubtful[job[p]] + 0 = doubtful[job[p]] /\ doubtful \in [Keys -> Nat]
        BY <1>1 DEF TypeOK
      <4> QED BY <1>1, <4>1 DEF Book!Doubt
    <3>3. Book!Use(job[p])
      BY <2>2 DEF Book!Use
    <3> QED BY <1>1, <2>4, <3>1, <3>2, <3>3 DEF Book!Fail
  <2> QED BY <1>1, <2>6
<1> QED BY <1>2, <1>3 DEF Prepare, TypeOK

\* SendText puts n copies out and leaves the sender owing a row.
LEMMA SendOkBook ==
  ASSUME Inv, NEW p \in Actors, SendTextOk(p)
  PROVE  \E k \in Keys, n \in 1 .. Attempts : Book!Send(k, n)
<1> USE DEF Inv
<1>1. PICK n \in 1 .. Attempts :
        /\ pc[p] = "send"
        /\ received' = [received EXCEPT ![job[p]] = @ + n]
        /\ repeats' = [repeats EXCEPT ![job[p]] = @ + (n - 1)]
        /\ pc' = [pc EXCEPT ![p] = "logSent"]
        /\ UNCHANGED <<contacts, sendLog, job, doubtful>>
  BY DEF SendTextOk, store
<1> DEFINE j == job[p]
<1>2. j \in Keys
  BY <1>1 DEF JobInv
<1>3. /\ \A q \in Actors \ {p} : pc'[q] = pc[q] /\ job'[q] = job[q]
      /\ pc'[p] = "logSent" /\ job'[p] = j
  BY <1>1 DEF TypeOK
<1>4. Claims' = [Claims EXCEPT ![j] = @ - 1] /\ Claims[j] > 0
  BY <1>1, <1>2, <1>3, Used
<1>5. p \notin Pending(j) /\ \A k \in Keys : Pending(k)' = IF k = j THEN Pending(k) \cup {p} ELSE Pending(k)
  BY <1>1, <1>3 DEF Pending
<1>6. UNCHANGED <<Rows, Closed>>
  BY <1>1 DEF Rows, SentRows, Closed
<1> HIDE DEF j
<1>7. Owed' = [Owed EXCEPT ![j] = @ + 1]
  BY <1>2, <1>5, OwedIn
<1>8. Book!Send(j, n)
  BY <1>1, <1>4, <1>6, <1>7 DEF Book!Send, Book!Out, Book!Use, j
<1> QED BY <1>2, <1>8

\* So does a failure that left copies out, which nobody owes.
LEMMA SendFailsBook ==
  ASSUME Inv, NEW p \in Actors, SendTextFails(p)
  PROVE  \E k \in Keys, n \in 0 .. Attempts : Book!Fail(k, n)
<1> USE DEF Inv
<1>1. PICK n \in 0 .. Attempts :
        /\ pc[p] = "send"
        /\ received' = [received EXCEPT ![job[p]] = @ + n]
        /\ doubtful' = [doubtful EXCEPT ![job[p]] = @ + n]
        /\ pc' = [pc EXCEPT ![p] = "logFailed"]
        /\ UNCHANGED <<contacts, sendLog, job, repeats>>
  BY DEF SendTextFails, store
<1>2. job[p] \in Keys
  BY <1>1 DEF JobInv
<1>3. /\ \A q \in Actors \ {p} : pc'[q] = pc[q] /\ job'[q] = job[q]
      /\ pc'[p] = "logFailed"
  BY <1>1 DEF TypeOK
<1>4. Claims' = [Claims EXCEPT ![job[p]] = @ - 1] /\ Claims[job[p]] > 0
  BY <1>1, <1>2, <1>3, Used
<1>5. \A k \in Keys : Pending(k)' = Pending(k)
  BY <1>1, <1>3 DEF Pending
<1>6. UNCHANGED <<Owed, Rows, Closed>>
  BY <1>1, <1>5 DEF Owed, Rows, SentRows, Closed
<1>7. Book!Fail(job[p], n)
  BY <1>1, <1>4, <1>6 DEF Book!Fail, Book!Out, Book!Doubt, Book!Use
<1> QED BY <1>2, <1>7

\* A message is recorded, or lost from the books when its row is refused.
LEMMA LogSentBook ==
  ASSUME Inv, NEW p \in Actors, LogSent(p)
  PROVE  \E k \in Keys : Book!Record(k) \/ Book!Lose(k)
<1> USE DEF Inv
<1> DEFINE j == job[p]
<1>1. /\ pc[p] = "logSent" /\ j \in Keys /\ UNCHANGED <<contacts, received, repeats>>
      /\ pc'[p] \notin {"prepare", "send", "logSent"}
      /\ \A q \in Actors \ {p} : pc'[q] = pc[q] /\ job'[q] = job[q]
  BY DEF LogSent, Return, TypeOK, JobInv
<1>2. p \in Pending(j) /\ \A k \in Keys : Pending(k)' = IF k = j THEN Pending(k) \ {p} ELSE Pending(k)
  BY <1>1 DEF Pending
<1>3. Owed' = [Owed EXCEPT ![j] = @ - 1] /\ Owed[j] > 0
  <2> HIDE DEF j
  <2> QED BY <1>1, <1>2, OwedOut
<1>4. \A k \in Keys : Claimants(k)' = Claimants(k)
  BY <1>1 DEF Claimants
<1>5. UNCHANGED <<Claims, Closed>>
  BY <1>1, <1>4 DEF Claims, Closed
<1>6. CASE Accepts(j, "sent") /\ AppendRow(j, "sent") /\ UNCHANGED doubtful
  <2>1. Rows[j] = 0 \/ j[2] = NoYear
    BY <1>1, <1>6, NoRow DEF Accepts
  <2>2. j[1] \notin Closed
    BY <1>6, NoneAssumption DEF Accepts, Exists, Closed
  <2>3. \A k \in Keys : Cardinality(SentRows(k)') = IF k = j THEN Cardinality(SentRows(k)) + 1
                                                            ELSE Cardinality(SentRows(k))
    <3> HIDE DEF j
    <3> TAKE k \in Keys
    <3>1. /\ SentRows(k)' = IF k = j THEN SentRows(k) \cup {Len(sendLog) + 1} ELSE SentRows(k)
          /\ Len(sendLog) + 1 \notin SentRows(k)
      BY <1>1, <1>6, RowAppended
    <3> QED BY <3>1, RowsFinite, FS_AddElement
  <2>4. Rows' = [Rows EXCEPT ![j] = @ + 1]
    BY <1>1, <2>3 DEF Rows
  <2>5. Book!Record(j)
    BY <1>1, <1>3, <1>5, <1>6, <2>1, <2>2, <2>4 DEF Book!Record, Book!Settle, Book!Unrecorded
  <2> QED BY <1>1, <2>5
<1>7. CASE UNCHANGED sendLog /\ doubtful' = [doubtful EXCEPT ![j] = @ + 1]
  <2>1. Rows' = Rows
    BY <1>7 DEF Rows, SentRows
  <2>2. Book!Lose(j)
    BY <1>1, <1>3, <1>5, <1>7, <2>1 DEF Book!Lose, Book!Settle, Book!Doubt
  <2> QED BY <1>1, <2>2
<1> QED BY <1>6, <1>7 DEF LogSent

\* A failed attempt's row is no business of the ledger.
LEMMA LogFailedBook ==
  ASSUME Inv, NEW p \in Actors, LogFailed(p)
  PROVE  UNCHANGED Abstract
<1> USE DEF Inv
<1>1. /\ pc[p] = "logFailed" /\ job[p] \in Keys /\ UNCHANGED <<contacts, received, doubtful, repeats>>
      /\ pc'[p] \notin {"prepare", "send", "logSent"}
      /\ \A q \in Actors \ {p} : pc'[q] = pc[q] /\ job'[q] = job[q]
  BY DEF LogFailed, Return, TypeOK, JobInv, history
<1>2. \A k \in Keys : Claimants(k)' = Claimants(k) /\ Pending(k)' = Pending(k)
  BY <1>1 DEF Claimants, Pending
<1>3. \A k \in Keys : SentRows(k)' = SentRows(k)
  <2>1. CASE AppendRow(job[p], "failed")
    BY <1>1, <2>1, RowAppended
  <2>2. CASE UNCHANGED sendLog
    BY <2>2 DEF SentRows
  <2> QED BY <2>1, <2>2 DEF LogFailed
<1>4. Rows' = Rows /\ Claims' = Claims /\ Owed' = Owed /\ Closed' = Closed
  BY <1>1, <1>2, <1>3 DEF Rows, Claims, Owed, Closed
<1> QED BY <1>1, <1>4 DEF Abstract

\* Deleting a contact closes it.
LEMMA DeleteBook ==
  ASSUME Inv, NEW c \in ContactIds, DeleteContact(c)
  PROVE  Book!Close(c)
<1> USE DEF Inv
<1>1. /\ contacts' = [contacts EXCEPT ![c] = Deleted] /\ contacts[c] # Deleted
      /\ UNCHANGED <<pc, job, received, doubtful, repeats>>
  BY NoneAssumption DEF DeleteContact, Exists, history
<1>2. Closed' = Closed \cup {c} /\ c \notin Closed
  BY <1>1 DEF Closed, TypeOK
<1>3. \A k \in Keys : SentRows(k)' = IF k[1] = c THEN {} ELSE SentRows(k)
  BY DeletedRows
<1>4. Rows' = [k \in Keys |-> IF k[1] = c THEN 0 ELSE Rows[k]]
  BY <1>3, FS_EmptySet DEF Rows
<1>5. Claims' = Claims /\ Owed' = Owed
  BY <1>1 DEF Claims, Claimants, Owed, Pending
<1> QED BY <1>1, <1>2, <1>4, <1>5 DEF Book!Close

\* The end of the process makes what was owed doubtful.
LEMMA RestartBook ==
  ASSUME Inv, Restart
  PROVE  Book!Lapse
<1> USE DEF Inv
<1>1. /\ \A p \in Actors : pc'[p] \notin {"prepare", "send", "logSent"}
      /\ doubtful' = [k \in Keys |-> doubtful[k] + Cardinality(Pending(k))]
      /\ UNCHANGED <<contacts, sendLog, received, repeats>>
  BY DEF Restart, store
<1>2. \A k \in Keys : Claimants(k)' = {} /\ Pending(k)' = {}
  BY <1>1 DEF Claimants, Pending
<1>3. Claims' = [k \in Keys |-> 0] /\ Owed' = [k \in Keys |-> 0]
  BY <1>2, FS_EmptySet DEF Claims, Owed
<1>4. doubtful' = [k \in Keys |-> doubtful[k] + Owed[k]]
  BY <1>1 DEF Owed
<1>5. UNCHANGED <<Rows, Closed>>
  BY <1>1 DEF Rows, SentRows, Closed
<1> QED BY <1>1, <1>3, <1>4, <1>5 DEF Book!Lapse

-----------------------------------------------------------------------------
\* Every step of the scheduler is one of the ledger's, or none.
LEMMA StepBook ==
  ASSUME Inv, [Next]_vars
  PROVE  Book!Next \/ UNCHANGED Abstract
<1>1. CASE TickerStep
  BY <1>1, TickerBook DEF Book!Next
<1>2. ASSUME NEW p \in Requests, RequestStep(p) PROVE Book!Next \/ UNCHANGED Abstract
  BY <1>2, RequestBook DEF Book!Next
<1>3. ASSUME NEW p \in Actors, Deliver(p) PROVE Book!Next \/ UNCHANGED Abstract
  <2>1. CASE Prepare(p)
    <3>1. 0 \in 0 .. Attempts
      BY NatAssumption
    <3> QED BY <2>1, <3>1, PrepareBook DEF Book!Next
  <2>2. CASE SendTextOk(p)
    BY <2>2, SendOkBook DEF Book!Next
  <2>3. CASE SendTextFails(p)
    BY <2>3, SendFailsBook DEF Book!Next
  <2>4. CASE LogSent(p)
    BY <2>4, LogSentBook DEF Book!Next
  <2>5. CASE LogFailed(p)
    BY <2>5, LogFailedBook
  <2> QED BY <1>3, <2>1, <2>2, <2>3, <2>4, <2>5 DEF Deliver
<1>4. ASSUME NEW c \in ContactIds, NEW row \in Contact, SaveContact(c, row)
      PROVE  UNCHANGED Abstract
  <2>1. UNCHANGED <<sendLog, received, doubtful, repeats, pc, job>>
    BY <1>4 DEF SaveContact, history
  <2>2. \A d \in ContactIds : contacts'[d] = Deleted <=> contacts[d] = Deleted
    BY <1>4, NoneAssumption DEF SaveContact, Inv, TypeOK
  <2>3. \A k \in Keys : Claimants(k)' = Claimants(k) /\ Pending(k)' = Pending(k)
    BY <2>1 DEF Claimants, Pending
  <2> QED BY <2>1, <2>2, <2>3, QuietBook DEF Abstract
<1>5. ASSUME UNCHANGED <<contacts, sendLog, received, doubtful, repeats, pc, job>> PROVE UNCHANGED Abstract
  <2>1. \A k \in Keys : Claimants(k)' = Claimants(k) /\ Pending(k)' = Pending(k)
    BY <1>5 DEF Claimants, Pending
  <2> QED BY <1>5, <2>1, QuietBook DEF Abstract
<1>6. CASE Operator
  <2>1. ASSUME NEW s \in Settings, SaveSettings(s) PROVE UNCHANGED Abstract
    BY <1>5, <2>1 DEF SaveSettings, history
  <2> QED BY <1>4, <1>6, <2>1, DeleteBook DEF Operator, Book!Next
<1>7. CASE TimePasses \/ Sigterm \/ UNCHANGED vars
  BY <1>5, <1>7 DEF TimePasses, Sigterm, vars, store, history
<1>8. CASE Crash \/ Exit
  BY <1>8, RestartBook DEF Crash, Exit, Book!Next
<1> QED BY <1>1, <1>2, <1>3, <1>6, <1>7, <1>8 DEF Next

\* Scheduler implements the ledger: whatever overlaps, fails, restarts or is
\* deleted, no send is set out on while the log has a row of its year, no year
\* gets a second row, and every message is recorded, owed, doubtful or a repeat.
THEOREM SchedulerImplementsLedger == Spec => KeepsBook
<1>1. Init => Book!Init
  <2> SUFFICES ASSUME Init PROVE Book!Init
    OBVIOUS
  <2>1. \A k \in Keys : Claimants(k) = {} /\ Pending(k) = {} /\ SentRows(k) = {}
    BY DEF Init, Claimants, Pending, SentRows
  <2>2. /\ Claims = [k \in Keys |-> 0] /\ Owed = [k \in Keys |-> 0]
        /\ Rows = [k \in Keys |-> 0]
    BY <2>1, FS_EmptySet DEF Claims, Owed, Rows
  <2>3. Closed = {}
    BY NoneAssumption DEF Init, Closed
  <2> QED BY <2>2, <2>3 DEF Init, Book!Init
<1>2. Inv /\ [Next]_vars => [UNCHANGED Book!books \/ Book!Next]_(Book!books)
  BY StepBook DEF Book!books, Abstract
<1> QED BY <1>1, <1>2, Invariance, PTL DEF Spec, KeepsBook, Book!Spec

-----------------------------------------------------------------------------
(* Dates: an event is observed once a year. *)

\* Every month and day a stored date can have (validator.date); 2000 is a leap year.
StorableDates == {d \in [month: 1 .. 12, day: 1 .. 31] : d.day <= DaysIn(2000, d.month)}

\* The days of a year, as a scheduler that ticks every day sees them.
DaysOf(year) ==
  {d \in [year: {year}, month: 1 .. 12, day: 1 .. 31] : d.day <= DaysIn(year, d.month)}

\* The year 2000 gives February its 29 days, and every other month has the
\* same number in all years.
LEMMA MonthLengths ==
  ASSUME NEW year \in Nat, NEW month \in 1 .. 12
  PROVE  /\ DaysIn(year, month) \in 28 .. 31
         /\ DaysIn(2000, 2) = 29
         /\ month # 2 => DaysIn(year, month) = DaysIn(2000, month)
         /\ isLeapYear(year) => DaysIn(year, 2) = 29
         /\ ~isLeapYear(year) => DaysIn(year, 2) = 28
<1>1. isLeapYear(2000)
  BY DEF isLeapYear
<1>2. QED BY <1>1 DEF DaysIn

\* The day an event is observed in a year: 29 February moves in a common one.
ObservedDay(eventDate, year) ==
  [year |-> year, month |-> eventDate.month,
   day |-> IF eventDate.month = 2 /\ eventDate.day = 29 /\ ~isLeapYear(year) THEN 28 ELSE eventDate.day]

\* The observed day exists in its year.
LEMMA ObservedDayExists ==
  ASSUME NEW eventDate \in StorableDates, NEW year \in Nat
  PROVE  ObservedDay(eventDate, year) \in DaysOf(year)
<1> DEFINE day == ObservedDay(eventDate, year)
<1>1. /\ eventDate.month \in 1 .. 12 /\ eventDate.day \in 1 .. 31
      /\ eventDate.day <= DaysIn(2000, eventDate.month)
  BY DEF StorableDates
<1>2. /\ day.year = year /\ day.month = eventDate.month
      /\ day = [year |-> day.year, month |-> day.month, day |-> day.day]
  BY DEF ObservedDay
<1>3. day.day \in 1 .. 31 /\ day.day <= DaysIn(year, eventDate.month)
  <2>1. CASE eventDate.month # 2
    BY <2>1, <1>1, MonthLengths DEF ObservedDay
  <2>2. CASE eventDate.month = 2 /\ isLeapYear(year)
    BY <2>2, <1>1, MonthLengths DEF ObservedDay
  <2>3. CASE eventDate.month = 2 /\ ~isLeapYear(year)
    BY <2>3, <1>1, MonthLengths DEF ObservedDay
  <2>4. QED BY <2>1, <2>2, <2>3
<1>4. QED BY <1>1, <1>2, <1>3 DEF DaysOf

\* Every event, 29 February included, is due on exactly one day of every year,
\* common, leap and century: isDue gives each year one chance and only one.
THEOREM ObservedOncePerYear ==
  ASSUME NEW eventDate \in StorableDates, NEW year \in Nat
  PROVE  \E day \in DaysOf(year) :
           \A other \in DaysOf(year) : DueOn(eventDate, other) <=> other = day
<1> DEFINE day == ObservedDay(eventDate, year)
<1>1. day \in DaysOf(year)
  BY ObservedDayExists
<1>2. ASSUME NEW other \in DaysOf(year)
      PROVE  DueOn(eventDate, other) <=> other = day
  <2>1. /\ other.year = year
        /\ other = [year |-> other.year, month |-> other.month, day |-> other.day]
    BY DEF DaysOf
  <2>2. DueOn(eventDate, other) <=>
          other.month = eventDate.month /\ other.day = day.day
    BY <2>1 DEF DueOn, ObservedDay
  <2>3. QED BY <2>1, <2>2 DEF ObservedDay
<1>3. QED BY <1>1, <1>2
=============================================================================
