-------------------------- MODULE GroupEchoProofs --------------------------
(***************************************************************************)
(* Theorems of GroupEcho for every value of its constants: any groups and  *)
(* messages, any number of handlers, any settings the validators accept.   *)
(***************************************************************************)
EXTENDS GroupEcho, FiniteSetTheorems, TLAPS

(* What a handler past its lookup holds. *)
JobInv ==
  \A h \in Handlers : pc[h] # "idle" =>
    job[h] \in Job /\ groups[job[h].group] # Unused /\ job[h].at <= now

(* A delivery in flight is of somebody's wish, and younger than Retention. *)
DeliveryInv ==
  /\ \A m \in Messages : first[m] <= now
  /\ \A h \in Handlers : pc[h] = "record" =>
       LET m == job[h].message
       IN OthersWish(m) /\ first[m] # Never /\ now <= first[m] + Retention

(* Every row of wish_events is a wish under the instant it was first recorded, *)
(* and only the janitor and a group's deletion take rows away: this is what    *)
(* makes the unique key enough against late redeliveries.                      *)
EvidenceInv ==
  /\ wishes \subseteq heard
  /\ \A r \in heard :
       /\ OthersWish(r.message) /\ first[r.message] # Never /\ first[r.message] <= r.at
       /\ r \in wishes \/ groups[r.group] = Deleted \/ r.at + Retention < now

(* A posted message of a living group is in the send log, about to be, or     *)
(* known to be lost.                                                           *)
Accounted(p) ==
  Exists(p.group) =>
    \/ <<p.group, p.at>> \in unlogged
    \/ \E k \in DOMAIN sendLog : sendLog[k].group = p.group /\ sendLog[k].at = p.at
    \/ \E h \in Handlers : /\ pc[h] \in {"logSent", "logFailed"}
                           /\ job[h].group = p.group /\ job[h].at = p.at

(* A handler about to send has every row of its group a cooldown behind it.   *)
RowsBehind(h) ==
  \A k \in DOMAIN sendLog :
    sendLog[k].group = job[h].group => job[h].at - sendLog[k].at >= job[h].cooldown

(* With one handler, this is what keeps echoes apart. *)
SpacingInv ==
  /\ EchoesSpaced
  /\ \A i \in DOMAIN posted : groups[posted[i].group] # Unused /\ Accounted(posted[i])
  /\ \A h \in Handlers : pc[h] \in {"prepare", "send"} => RowsBehind(h)

-----------------------------------------------------------------------------
(* Types *)

SpentOK == spent \in [faults: 0 .. MaxFaults, edits: 0 .. MaxEdits, redeliveries: 0 .. MaxRedeliveries]

(* A fault, an edit and a redelivery each stay within their bound. *)
LEMMA SpendTypes ==
  ASSUME TypeOK, Fault \/ SpendEdit
  PROVE  SpentOK'
<1>1. CASE Fault
  <2>1. spent.faults + 1 \in 0 .. MaxFaults
    BY <1>1, NatAssumption DEF TypeOK, Fault
  <2>2. spent' = [spent EXCEPT !.faults = spent.faults + 1]
    BY <1>1 DEF Fault
  <2> QED
    BY <2>1, <2>2 DEF TypeOK, SpentOK
<1>2. CASE SpendEdit
  <2>1. spent.edits + 1 \in 0 .. MaxEdits
    BY <1>2, NatAssumption DEF TypeOK, SpendEdit
  <2>2. spent' = [spent EXCEPT !.edits = spent.edits + 1]
    BY <1>2 DEF SpendEdit
  <2> QED
    BY <2>1, <2>2 DEF TypeOK, SpentOK
<1> QED
  BY <1>1, <1>2

(* A delivery, first or repeated, keeps the types of what it changes. *)
LEMMA DeliveredTypes ==
  ASSUME TypeOK, NEW m \in Messages, Delivered(m)
  PROVE  SpentOK' /\ first' \in [Messages -> Instants \cup {Never}]
<1>1. CASE first[m] = Never /\ first' = [first EXCEPT ![m] = now] /\ UNCHANGED spent
  BY <1>1 DEF TypeOK, SpentOK
<1>2. CASE /\ spent.redeliveries < MaxRedeliveries
           /\ spent' = [spent EXCEPT !.redeliveries = @ + 1]
           /\ UNCHANGED first
  <2>1. spent.redeliveries + 1 \in 0 .. MaxRedeliveries
    BY <1>2, NatAssumption DEF TypeOK
  <2>2. spent' = [spent EXCEPT !.redeliveries = spent.redeliveries + 1]
    BY <1>2
  <2> QED
    BY <1>2, <2>1, <2>2 DEF TypeOK, SpentOK
<1> QED
  BY <1>1, <1>2 DEF Delivered

(* An initial state is well typed. *)
LEMMA InitTypes == Init => TypeOK /\ JobInv
<1> SUFFICES ASSUME Init PROVE TypeOK /\ JobInv
  OBVIOUS
<1>1. now \in Instants /\ spent \in [faults: 0 .. MaxFaults, edits: 0 .. MaxEdits, redeliveries: 0 .. MaxRedeliveries]
  BY NatAssumption DEF Init, Instants
<1>2. groups \in [GroupIds -> Group \cup {Unused, Deleted}]
  BY DEF Init
<1>3. pc \in [Handlers -> Labels] /\ job \in [Handlers -> Job \cup {None}]
  BY DEF Init, Labels
<1>4. first \in [Messages -> Instants \cup {Never}] /\ settings \in EchoSettings /\ active \in BOOLEAN
  BY SettingsAssumption DEF Init
<1>5. wishes \in SUBSET Wish /\ heard \in SUBSET Wish /\ unlogged \in SUBSET (GroupIds \X Instants)
  BY DEF Init
<1>6. sendLog \in Seq(Row) /\ posted \in Seq(Post)
  BY DEF Init
<1>7. JobInv
  BY DEF Init, JobInv
<1> QED
  BY <1>1, <1>2, <1>3, <1>4, <1>5, <1>6, <1>7 DEF TypeOK

(* Going on with the same job, or returning, keeps the types of pc and job. *)
LEMMA GotoTypes ==
  ASSUME TypeOK, JobInv, NEW h \in Handlers, NEW l \in Labels, Goto(h, l),
         UNCHANGED <<now, job, groups>>, pc[h] # "idle"
  PROVE  pc' \in [Handlers -> Labels] /\ job' \in [Handlers -> Job \cup {None}] /\ JobInv'
BY DEF TypeOK, JobInv, Goto

(* A handler that returns holds nothing. *)
LEMMA ReturnTypes ==
  ASSUME TypeOK, JobInv, NEW h \in Handlers, Return(h), UNCHANGED <<now, groups>>
  PROVE  pc' \in [Handlers -> Labels] /\ job' \in [Handlers -> Job \cup {None}] /\ JobInv'
<1>1. "idle" \in Labels
  BY DEF Labels
<1> QED
  BY <1>1 DEF TypeOK, JobInv, Goto, Return

(* Every step of a handler before it decides to echo keeps the types. *)
LEMMA ReceiveTypes ==
  ASSUME TypeOK, JobInv, NEW h \in Handlers, NEW m \in Messages, Receive(h, m)
  PROVE  TypeOK' /\ JobInv'
<1>1. PICK g \in GroupIds :
        /\ pc[h] = "idle" /\ Delivered(m)
        /\ groups[g] \in Group
        /\ job' = [job EXCEPT ![h] = [message |-> m, group |-> g, own |-> groups[g].threshold,
                                      threshold |-> 0, since |-> 0, cooldown |-> 0, at |-> now]]
        /\ Goto(h, "record")
        /\ UNCHANGED <<now, config, wishes, sendLog, heard, posted, unlogged>>
  BY DEF Receive, Watched, Exists
<1>2. groups[g].threshold \in Thresholds \cup {NoThreshold} /\ groups[g] # Unused
  BY <1>1, NoneAssumption DEF Group
<1>3. [message |-> m, group |-> g, own |-> groups[g].threshold,
       threshold |-> 0, since |-> 0, cooldown |-> 0, at |-> now] \in Job
  BY <1>2 DEF Job, TypeOK
<1>4. now <= now
  BY NatAssumption DEF TypeOK, Instants
<1>5. pc' \in [Handlers -> Labels] /\ job' \in [Handlers -> Job \cup {None}]
  BY <1>1, <1>3 DEF TypeOK, Goto, Labels
<1>6. JobInv'
  BY <1>1, <1>2, <1>3, <1>4 DEF TypeOK, JobInv, Goto, config
<1> QED
  BY <1>1, <1>5, <1>6, DeliveredTypes DEF TypeOK, SpentOK, config

(* So does recording the wish. *)
LEMMA RecordTypes ==
  ASSUME TypeOK, JobInv, NEW h \in Handlers, Record(h)
  PROVE  TypeOK' /\ JobInv'
<1> DEFINE wish == [group |-> job[h].group, message |-> job[h].message, at |-> now]
<1>1. job[h] \in Job /\ pc[h] # "idle"
  BY DEF Record, JobInv
<1>2. wish \in Wish
  BY <1>1 DEF Job, Wish, TypeOK
<1>3. wishes' \in SUBSET Wish /\ heard' \in SUBSET Wish
  BY <1>2 DEF Record, TypeOK
<1>4. pc' \in [Handlers -> Labels] /\ job' \in [Handlers -> Job \cup {None}] /\ JobInv'
  <2>1. "load" \in Labels
    BY DEF Labels
  <2> QED
    BY <1>1, <2>1, GotoTypes, ReturnTypes DEF Record, config
<1> QED
  BY <1>3, <1>4 DEF Record, TypeOK, config

(* So does loading the settings, whose window may start before instant 0. *)
LEMMA LoadTypes ==
  ASSUME TypeOK, JobInv, NEW h \in Handlers, Load(h)
  PROVE  TypeOK' /\ JobInv'
<1> DEFINE own == IF job[h].own # NoThreshold THEN job[h].own ELSE settings.threshold
<1> DEFINE loaded == [job[h] EXCEPT !.threshold = own, !.since = now - settings.window,
                                    !.cooldown = settings.cooldown, !.at = now]
<1>1. job[h] \in Job /\ pc[h] = "load"
  BY DEF Load, JobInv
<1>2. /\ settings.threshold \in Nat /\ settings.window \in Nat /\ settings.cooldown \in Nat
      /\ now \in Int /\ now \in Instants /\ now <= now
  BY SettingsAssumption, NatAssumption DEF TypeOK, Instants
<1>3. own \in Nat
  BY <1>1, <1>2, SettingsAssumption DEF Job, NoThreshold
<1>4. now - settings.window \in Int
  BY <1>2
<1>5. loaded \in Job /\ loaded.group = job[h].group /\ loaded.at = now
  BY <1>1, <1>2, <1>3, <1>4 DEF Job
<1>6. job' = [job EXCEPT ![h] = loaded] /\ pc' = [pc EXCEPT ![h] = "count"] /\ UNCHANGED <<now, groups>>
  BY DEF Load, Goto, config
<1>7. pc' \in [Handlers -> Labels] /\ job' \in [Handlers -> Job \cup {None}]
  BY <1>5, <1>6 DEF TypeOK, Labels
<1>8. JobInv'
  BY <1>1, <1>2, <1>5, <1>6 DEF TypeOK, JobInv
<1> QED
  BY <1>7, <1>8 DEF Load, TypeOK, config

(* So do the two decisions and an early end. *)
LEMMA DecideTypes ==
  ASSUME TypeOK, JobInv, NEW h \in Handlers, Count(h) \/ Cooldown(h) \/ Abort(h)
  PROVE  TypeOK' /\ JobInv'
<1>1. {"cooldown", "prepare"} \subseteq Labels
  BY DEF Labels
<1>2. pc[h] # "idle" /\ UNCHANGED <<now, groups>>
  BY DEF Count, Cooldown, Abort, config
<1>3. pc' \in [Handlers -> Labels] /\ job' \in [Handlers -> Job \cup {None}] /\ JobInv'
  BY <1>1, <1>2, GotoTypes, ReturnTypes DEF Count, Cooldown, Abort
<1>4. SpentOK'
  BY SpendTypes DEF Count, Cooldown, Abort, TypeOK, SpentOK
<1> QED
  BY <1>3, <1>4 DEF Count, Cooldown, Abort, TypeOK, SpentOK, config

(* So does every step of postEcho. *)
LEMMA PrepareTypes ==
  ASSUME TypeOK, JobInv, NEW h \in Handlers, Prepare(h)
  PROVE  TypeOK' /\ JobInv'
<1>1. pc[h] # "idle" /\ UNCHANGED <<now, groups>> /\ job[h] \in Job
  BY DEF Prepare, JobInv, config
<1>2. CASE active
  <2>0. now \in Instants /\ now <= now
    BY NatAssumption DEF TypeOK, Instants
  <2>1. [job[h] EXCEPT !.at = now] \in Job /\ now <= now
    BY <1>1, <2>0 DEF Job
  <2>2. job' = [job EXCEPT ![h] = [job[h] EXCEPT !.at = now]] /\ pc' = [pc EXCEPT ![h] = "send"]
    BY <1>2 DEF Prepare, Goto, TypeOK
  <2>3. [job[h] EXCEPT !.at = now].group = job[h].group /\ [job[h] EXCEPT !.at = now].at = now
    BY <1>1 DEF Job
  <2>4. pc' \in [Handlers -> Labels] /\ job' \in [Handlers -> Job \cup {None}]
    BY <2>1, <2>2 DEF TypeOK, Labels
  <2>5. JobInv'
    BY <1>1, <2>1, <2>2, <2>3 DEF JobInv, TypeOK
  <2> QED
    BY <2>4, <2>5 DEF Prepare, TypeOK, config
<1>3. CASE ~active
  BY <1>1, <1>3, ReturnTypes DEF Prepare, TypeOK, config
<1> QED
  BY <1>2, <1>3

(* A post is typed by what the sender holds. *)
LEMMA SendTypes ==
  ASSUME TypeOK, JobInv, NEW h \in Handlers, SendTextOk(h) \/ SendTextFails(h)
  PROVE  TypeOK' /\ JobInv'
<1>1. pc[h] # "idle" /\ UNCHANGED <<now, job, groups>> /\ job[h] \in Job
  BY DEF SendTextOk, SendTextFails, JobInv, config
<1>2. Echo(h) \in Post
  BY <1>1 DEF Echo, Post, Job
<1>3. posted' \in Seq(Post)
  <2>1. posted \in Seq(Post) /\ Append(posted, Echo(h)) \in Seq(Post)
    BY <1>2 DEF TypeOK
  <2> QED
    BY <2>1 DEF SendTextOk, SendTextFails
<1>4. {"logSent", "logFailed"} \subseteq Labels
  BY DEF Labels
<1>5. pc' \in [Handlers -> Labels] /\ job' \in [Handlers -> Job \cup {None}] /\ JobInv'
  BY <1>1, <1>4, GotoTypes DEF SendTextOk, SendTextFails
<1>6. SpentOK'
  BY SpendTypes DEF SendTextOk, SendTextFails, TypeOK, SpentOK
<1> QED
  BY <1>3, <1>5, <1>6 DEF SendTextOk, SendTextFails, TypeOK, SpentOK, config

(* A logged row is typed by what the sender held, a lost one is accounted for. *)
LEMMA LogTypes ==
  ASSUME TypeOK, JobInv, NEW h \in Handlers, Log(h)
  PROVE  TypeOK' /\ JobInv'
<1>1. pc[h] # "idle" /\ UNCHANGED <<now, groups>> /\ job[h] \in Job /\ Return(h)
  BY DEF Log, JobInv, config
<1>2. [group |-> job[h].group, status |-> Status(h), at |-> job[h].at] \in Row
  BY <1>1 DEF Row, Job, Status
<1>3. <<job[h].group, job[h].at>> \in GroupIds \X Instants
  BY <1>1 DEF Job
<1>4. sendLog' \in Seq(Row)
  <2> DEFINE row == [group |-> job[h].group, status |-> Status(h), at |-> job[h].at]
  <2>1. sendLog \in Seq(Row) /\ Append(sendLog, row) \in Seq(Row)
    BY <1>2 DEF TypeOK
  <2> QED
    BY <2>1 DEF Log
<1>6. unlogged' \in SUBSET (GroupIds \X Instants)
  BY <1>3 DEF Log, TypeOK
<1>5. SpentOK'
  BY SpendTypes DEF Log, TypeOK, SpentOK
<1> QED
  BY <1>1, <1>4, <1>5, <1>6, ReturnTypes DEF Log, TypeOK, SpentOK, config

(* And the janitor, the operator, the clock and the end of the process. *)
LEMMA DeleteTypes ==
  ASSUME TypeOK, JobInv, NEW g \in GroupIds, DeleteGroup(g)
  PROVE  TypeOK' /\ JobInv'
<1> DEFINE row(i) == IF sendLog[i].group = g THEN [sendLog[i] EXCEPT !.group = None] ELSE sendLog[i]
<1>1. DOMAIN sendLog = 1 .. Len(sendLog) /\ Len(sendLog) \in Nat
  BY DEF TypeOK
<1>2. ASSUME NEW i \in 1 .. Len(sendLog)
      PROVE  row(i) \in Row
  <2>1. sendLog[i] \in Row
    BY <1>1, <1>2 DEF TypeOK
  <2> QED
    BY <2>1 DEF Row
<1>3. sendLog' = [i \in 1 .. Len(sendLog) |-> row(i)]
  BY <1>1 DEF DeleteGroup
<1>4. sendLog' \in Seq(Row)
  BY <1>1, <1>2, <1>3
<1>5. groups' \in [GroupIds -> Group \cup {Unused, Deleted}]
  BY DEF DeleteGroup, TypeOK
<1>6. JobInv'
  BY NoneAssumption DEF DeleteGroup, JobInv, TypeOK, Job
<1>7. SpentOK'
  BY SpendTypes DEF DeleteGroup
<1> QED
  BY <1>4, <1>5, <1>6, <1>7 DEF DeleteGroup, TypeOK, SpentOK

(* The environment's steps keep the types. *)
LEMMA EnvironmentTypes ==
  ASSUME TypeOK, JobInv, Sweep \/ Operator \/ TimePasses \/ Crash
  PROVE  TypeOK' /\ JobInv'
<1>1. CASE Sweep
  BY <1>1 DEF Sweep, TypeOK, JobInv, config
<1>2. ASSUME NEW g \in GroupIds, NEW row \in Group, SaveGroup(g, row)
      PROVE  TypeOK' /\ JobInv'
  <2>1. SpentOK' /\ groups' = [groups EXCEPT ![g] = row] /\ UNCHANGED <<now, pc, job>>
    BY <1>2, SpendTypes DEF SaveGroup
  <2>2. JobInv'
    BY <2>1, NoneAssumption DEF JobInv, TypeOK, Job
  <2> QED
    BY <1>2, <2>1, <2>2 DEF SaveGroup, TypeOK, SpentOK
<1>3. ASSUME NEW s \in EchoSettings, SaveSettings(s)
      PROVE  TypeOK' /\ JobInv'
  <2>1. SpentOK'
    BY <1>3, SpendTypes DEF SaveSettings
  <2> QED
    BY <1>3, <2>1 DEF SaveSettings, TypeOK, JobInv, SpentOK
<1>4. CASE TimePasses
  <2>1. now' \in Instants /\ now <= now'
    BY <1>4, NatAssumption DEF TimePasses, TypeOK, Instants
  <2>2. ASSUME NEW h \in Handlers, pc[h] # "idle"
        PROVE  job[h].at <= now'
    <3>1. job[h].at <= now /\ job[h].at \in Int /\ now \in Int /\ now' \in Int
      BY <2>1, <2>2, NatAssumption DEF JobInv, Job, Instants, TypeOK
    <3> QED
      BY <2>1, <3>1
  <2>3. JobInv'
    BY <1>4, <2>2 DEF TimePasses, JobInv, config
  <2> QED
    BY <1>4, <2>1, <2>3 DEF TimePasses, TypeOK, config
<1>5. CASE Crash
  <2>1. {<<job[h].group, job[h].at>> : h \in {k \in Handlers : pc[k] \in {"logSent", "logFailed"}}}
          \subseteq GroupIds \X Instants
    BY DEF JobInv, Job
  <2>2. SpentOK'
    BY <1>5, SpendTypes DEF Crash
  <2>3. pc' \in [Handlers -> Labels] /\ job' \in [Handlers -> Job \cup {None}] /\ JobInv'
    BY <1>5 DEF Crash, Labels, JobInv
  <2>4. active' \in BOOLEAN
    BY <1>5, SettingsAssumption DEF Crash, TypeOK
  <2> QED
    BY <1>5, <2>1, <2>2, <2>3, <2>4 DEF Crash, TypeOK, SpentOK
<1> QED
  BY <1>1, <1>2, <1>3, <1>4, <1>5, DeleteTypes DEF Operator

(* Every step keeps the types. *)
LEMMA StepTypes ==
  ASSUME TypeOK, JobInv, [Next]_vars
  PROVE  TypeOK' /\ JobInv'
<1>1. ASSUME NEW h \in Handlers, HandleIncoming(h)
      PROVE  TypeOK' /\ JobInv'
  <2>1. ASSUME NEW m \in Messages, Ignore(h, m)
        PROVE  TypeOK' /\ JobInv'
    BY <2>1, DeliveredTypes DEF Ignore, TypeOK, JobInv, SpentOK, config
  <2> QED
    BY <1>1, <2>1, ReceiveTypes, RecordTypes, LoadTypes, DecideTypes, PrepareTypes, SendTypes, LogTypes
    DEF HandleIncoming
<1>2. CASE UNCHANGED vars
  BY <1>2 DEF vars, config, TypeOK, JobInv
<1> QED
  BY <1>1, <1>2, EnvironmentTypes DEF Next

(* Every reachable state is well typed. *)
THEOREM TypeCorrect == Spec => []TypeOK
<1>1. Init => TypeOK /\ JobInv
  BY InitTypes
<1>2. (TypeOK /\ JobInv) /\ [Next]_vars => (TypeOK /\ JobInv)'
  BY StepTypes
<1> QED
  BY <1>1, <1>2, PTL DEF Spec

-----------------------------------------------------------------------------
(* Echoes are earned *)

Echoing == {"cooldown", "prepare", "send", "logSent", "logFailed"}

(* The voters of a window are some of the senders. *)
LEMMA VotersFinite ==
  ASSUME TypeOK, NEW g, NEW since
  PROVE  IsFiniteSet(Voters(g, since))
<1>1. Voters(g, since) \in SUBSET Senders
  BY ContentAssumption DEF Voters, TypeOK, Wish
<1> QED
  BY <1>1, FiniteAssumption, FS_Subset

(* A vote is never taken back. *)
LEMMA VotersGrow ==
  ASSUME TypeOK, TypeOK', heard \subseteq heard', NEW g, NEW since
  PROVE  /\ Cardinality(Voters(g, since)) \in Nat
         /\ Cardinality(Voters(g, since)') \in Nat
         /\ Cardinality(Voters(g, since)) <= Cardinality(Voters(g, since)')
<1> DEFINE W == Voters(g, since)'
<1>1. IsFiniteSet(W)
  <2>1. W \in SUBSET Senders
    BY ContentAssumption DEF Voters, TypeOK, Wish
  <2> QED
    BY <2>1, FiniteAssumption, FS_Subset
<1>2. Voters(g, since) \in SUBSET W
  BY DEF Voters
<1> HIDE DEF W
<1>3. /\ Cardinality(Voters(g, since)) \in Nat /\ Cardinality(W) \in Nat
      /\ Cardinality(Voters(g, since)) <= Cardinality(W)
  BY <1>1, <1>2, VotersFinite, FS_Subset, FS_CardinalityType
<1> QED
  BY <1>3 DEF W

(* Every row counted is a vote. *)
LEMMA CountedAreVoters ==
  ASSUME TypeOK, EvidenceInv, NEW g, NEW since
  PROVE  /\ CountDistinctWishSenders(g, since) \in Nat
         /\ CountDistinctWishSenders(g, since) <= Cardinality(Voters(g, since))
<1> DEFINE S == {Content[r.message].sender : r \in {w \in wishes : w.group = g /\ w.at >= since}}
<1>1. S \in SUBSET Voters(g, since)
  BY DEF EvidenceInv, OthersWish, Voters
<1> HIDE DEF S
<1>2. IsFiniteSet(S) /\ Cardinality(S) <= Cardinality(Voters(g, since))
  BY <1>1, VotersFinite, FS_Subset
<1>3. Cardinality(S) \in Nat
  BY <1>2, FS_CardinalityType
<1> QED
  BY <1>2, <1>3 DEF S, CountDistinctWishSenders

(* Deliveries stay young until they are recorded. *)
LEMMA DeliveryStep ==
  ASSUME TypeOK, TypeOK', JobInv, DeliveryInv, [Next]_vars
  PROVE  DeliveryInv'
<1>0. /\ now \in Nat /\ now' \in Nat /\ Retention \in Nat /\ now <= now
      /\ \A m \in Messages : first[m] \in Int /\ first'[m] \in Int
  <2>1. Instants \subseteq Nat /\ Instants \cup {Never} \subseteq Int
    BY NatAssumption DEF Instants, Never
  <2>2. now \in Instants /\ now' \in Instants
    BY DEF TypeOK
  <2>3. /\ first \in [Messages -> Instants \cup {Never}]
        /\ first' \in [Messages -> Instants \cup {Never}]
    BY DEF TypeOK
  <2> QED
    BY <2>1, <2>2, <2>3, NatAssumption
<1>1. ASSUME UNCHANGED <<now, first>>,
             \A h \in Handlers : pc'[h] = "record" => pc[h] = "record" /\ job'[h] = job[h]
      PROVE  DeliveryInv'
  BY <1>1 DEF DeliveryInv
<1>2. ASSUME NEW m \in Messages, Delivered(m), now' = now
      PROVE  /\ \A n \in Messages : first'[n] <= now /\ (first[n] # Never => first'[n] = first[n])
             /\ first'[m] # Never /\ now <= first'[m] + Retention
  <2>1. now # Never /\ \A n \in Messages : first[n] <= now
    BY <1>0 DEF DeliveryInv, Never
  <2>2. CASE first[m] = Never /\ first' = [first EXCEPT ![m] = now]
    <3>1. \A n \in Messages : first'[n] = IF n = m THEN now ELSE first[n]
      BY <2>2 DEF TypeOK
    <3> QED
      BY <1>0, <2>1, <2>2, <3>1
  <2>3. CASE first[m] # Never /\ now <= first[m] + Retention /\ UNCHANGED first
    BY <2>1, <2>3
  <2> QED
    BY <1>2, <2>2, <2>3 DEF Delivered
<1>3. ASSUME NEW h \in Handlers, NEW m \in Messages, Receive(h, m)
      PROVE  DeliveryInv'
  <2>1. Delivered(m) /\ now' = now /\ OthersWish(m)
    BY <1>3 DEF Receive
  <2>2. /\ pc'[h] = "record" /\ job'[h].message = m
        /\ \A k \in Handlers \ {h} : pc'[k] = pc[k] /\ job'[k] = job[k]
    BY <1>3 DEF Receive, Goto, TypeOK
  <2>3. \A k \in Handlers : pc[k] = "record" => job[k].message \in Messages
    BY DEF JobInv, Job
  <2> QED
    BY <1>2, <2>1, <2>2, <2>3 DEF DeliveryInv, OthersWish
<1>4. ASSUME NEW h \in Handlers, NEW m \in Messages, Ignore(h, m)
      PROVE  DeliveryInv'
  <2>1. Delivered(m) /\ UNCHANGED <<now, pc, job>>
    BY <1>4 DEF Ignore
  <2>2. \A k \in Handlers : pc[k] = "record" => job[k].message \in Messages
    BY DEF JobInv, Job
  <2> QED
    BY <1>2, <2>1, <2>2 DEF DeliveryInv, OthersWish
<1>5. ASSUME NEW h \in Handlers, Record(h) \/ Load(h) \/ Count(h) \/ Cooldown(h)
      PROVE  DeliveryInv'
  BY <1>1, <1>5 DEF Record, Load, Count, Cooldown, Goto, Return, TypeOK
<1>6. ASSUME NEW h \in Handlers, Prepare(h) \/ Abort(h) \/ SendTextOk(h) \/ SendTextFails(h) \/ Log(h)
      PROVE  DeliveryInv'
  BY <1>1, <1>6 DEF Prepare, Abort, SendTextOk, SendTextFails, Log, Goto, Return, TypeOK
<1>7. CASE Sweep \/ Operator \/ Crash \/ UNCHANGED vars
  BY <1>1, <1>7 DEF Sweep, Operator, SaveGroup, DeleteGroup, SaveSettings, Crash, vars
<1>8. CASE TimePasses
  <2>1. now' = now + 1 /\ UNCHANGED <<pc, job, first>>
    BY <1>8 DEF TimePasses
  <2>2. \A h \in Handlers : pc[h] = "record" => now < first[job[h].message] + Retention
    BY <1>8 DEF TimePasses
  <2>3. \A h \in Handlers : pc[h] = "record" => job[h].message \in Messages
    BY DEF JobInv, Job
  <2>4. ASSUME NEW h \in Handlers, pc[h] = "record"
        PROVE  now' <= first[job[h].message] + Retention
    BY <1>0, <2>1, <2>2, <2>3, <2>4
  <2>5. \A m \in Messages : first[m] <= now'
    BY <1>0, <2>1 DEF DeliveryInv
  <2> QED
    BY <2>1, <2>4, <2>5 DEF DeliveryInv, OthersWish
<1> QED
  BY <1>3, <1>4, <1>5, <1>6, <1>7, <1>8 DEF Next, HandleIncoming

(* A wish recorded now was never recorded before: an earlier row would still   *)
(* be there, for the message is too young to have been swept.                  *)
LEMMA RecordIsFirst ==
  ASSUME TypeOK, JobInv, DeliveryInv, EvidenceInv, NEW h \in Handlers, pc[h] = "record",
         NEW wish, wish = [group |-> job[h].group, message |-> job[h].message, at |-> now],
         Exists(wish.group), ~Same(wishes, wish)
  PROVE  ~Same(heard, wish)
<1> SUFFICES ASSUME NEW r \in heard, r.group = wish.group, r.message = wish.message
             PROVE  FALSE
  BY DEF Same
<1>1. job[h] \in Job /\ job[h].message \in Messages
  BY DEF JobInv, Job
<1>2. now <= first[r.message] + Retention /\ first[r.message] <= r.at
  BY DEF DeliveryInv, EvidenceInv
<1>3. r.at \in Int /\ first[r.message] \in Int /\ now \in Int /\ Retention \in Int
  BY <1>1, NatAssumption DEF TypeOK, Wish, Instants, Never
<1>4. ~(r.at + Retention < now)
  BY <1>2, <1>3
<1>5. groups[r.group] # Deleted
  BY NoneAssumption DEF Exists
<1> QED
  BY <1>4, <1>5 DEF EvidenceInv, Same

(* The evidence stays complete but for sweeps and deleted groups. *)
LEMMA EvidenceStep ==
  ASSUME TypeOK, TypeOK', JobInv, DeliveryInv, EvidenceInv, [Next]_vars
  PROVE  EvidenceInv' /\ heard \subseteq heard'
<1>0. /\ now \in Int /\ now' \in Int /\ Retention \in Int
      /\ \A r \in heard : r.at \in Int /\ r.message \in Messages /\ r.group \in GroupIds
  <2>1. Instants \subseteq Int
    BY NatAssumption DEF Instants
  <2>2. now \in Instants /\ heard \in SUBSET Wish
    BY DEF TypeOK
  <2>3. now' \in Instants
    BY DEF TypeOK
  <2>4. ASSUME NEW r \in heard
        PROVE  r.at \in Instants /\ r.message \in Messages /\ r.group \in GroupIds
    <3>1. r \in Wish
      BY <2>2
    <3> QED
      BY <3>1 DEF Wish
  <2>5. \A r \in heard : r.at \in Int
    BY <2>1, <2>4
  <2>6. now \in Int /\ now' \in Int /\ Retention \in Int
    BY <2>1, <2>2, <2>3, NatAssumption
  <2> QED
    BY <2>4, <2>5, <2>6
<1>1. ASSUME UNCHANGED <<wishes, heard>>, now <= now',
             \A g \in GroupIds : groups[g] = Deleted => groups'[g] = Deleted,
             \A m \in Messages : first[m] # Never => first'[m] = first[m]
      PROVE  EvidenceInv' /\ heard \subseteq heard'
  <2>1. \A r \in heard : r.at + Retention < now => r.at + Retention < now'
    BY <1>0, <1>1
  <2> QED
    BY <1>0, <1>1, <2>1 DEF EvidenceInv, OthersWish
<1>2. ASSUME NEW h \in Handlers, NEW m \in Messages, Receive(h, m) \/ Ignore(h, m)
      PROVE  EvidenceInv' /\ heard \subseteq heard'
  <2>1. Delivered(m) /\ UNCHANGED <<now, groups, wishes, heard>>
    BY <1>2 DEF Receive, Ignore, config
  <2>2. \A n \in Messages : first[n] # Never => first'[n] = first[n]
    BY <2>1 DEF Delivered, TypeOK
  <2>3. now <= now'
    BY <1>0, <2>1
  <2> QED
    BY <1>1, <2>1, <2>2, <2>3
<1>3. ASSUME NEW h \in Handlers, Record(h)
      PROVE  EvidenceInv' /\ heard \subseteq heard'
  <2> DEFINE wish == [group |-> job[h].group, message |-> job[h].message, at |-> now]
  <2>1. pc[h] = "record" /\ UNCHANGED <<now, groups, first>>
    BY <1>3 DEF Record, config
  <2>2. CASE UNCHANGED <<wishes, heard>>
    BY <1>0, <1>1, <2>1, <2>2
  <2>3. CASE /\ Exists(wish.group) /\ ~Same(wishes, wish)
             /\ wishes' = wishes \cup {wish}
             /\ heard' = IF Same(heard, wish) THEN heard ELSE heard \cup {wish}
    <3>1. heard' = heard \cup {wish}
      BY <2>1, <2>3, RecordIsFirst
    <3>2. OthersWish(wish.message) /\ first[wish.message] # Never /\ first[wish.message] <= wish.at
      BY <2>1 DEF DeliveryInv, JobInv, Job
    <3> HIDE DEF wish
    <3> QED
      BY <2>1, <2>3, <3>1, <3>2 DEF EvidenceInv, OthersWish
  <2> QED
    BY <1>3, <2>2, <2>3 DEF Record
<1>4. ASSUME NEW h \in Handlers, \/ Load(h) \/ Count(h) \/ Cooldown(h) \/ Prepare(h) \/ Abort(h)
                                 \/ SendTextOk(h) \/ SendTextFails(h) \/ Log(h)
      PROVE  EvidenceInv' /\ heard \subseteq heard'
  <2>1. UNCHANGED <<now, groups, wishes, heard, first>>
    BY <1>4 DEF Load, Count, Cooldown, Prepare, Abort, SendTextOk, SendTextFails, Log, config
  <2> QED
    BY <1>0, <1>1, <2>1
<1>5. CASE Sweep
  <2>1. wishes' = {r \in wishes : r.at >= now - Retention} /\ UNCHANGED <<now, groups, heard, first>>
    BY <1>5 DEF Sweep, config
  <2>2. \A r \in wishes : r.at \in Int
    BY <1>0 DEF EvidenceInv
  <2>3. \A r \in wishes : r \in wishes' \/ r.at + Retention < now
    BY <1>0, <2>1, <2>2
  <2> QED
    BY <2>1, <2>3 DEF EvidenceInv, OthersWish
<1>6. ASSUME NEW g \in GroupIds, DeleteGroup(g)
      PROVE  EvidenceInv' /\ heard \subseteq heard'
  <2>1. /\ wishes' = {r \in wishes : r.group # g} /\ groups' = [groups EXCEPT ![g] = Deleted]
        /\ UNCHANGED <<now, heard, first>>
    BY <1>6 DEF DeleteGroup
  <2> QED
    BY <1>0, <2>1 DEF EvidenceInv, OthersWish, TypeOK
<1>7. ASSUME NEW g \in GroupIds, NEW row \in Group, SaveGroup(g, row)
      PROVE  EvidenceInv' /\ heard \subseteq heard'
  <2>1. UNCHANGED <<now, wishes, heard, first>> /\ groups[g] # Deleted /\ groups' = [groups EXCEPT ![g] = row]
    BY <1>7 DEF SaveGroup
  <2> QED
    BY <1>0, <1>1, <2>1 DEF TypeOK
<1>8. CASE (\E s \in EchoSettings : SaveSettings(s)) \/ Crash \/ UNCHANGED vars
  <2>1. UNCHANGED <<now, groups, wishes, heard, first>>
    BY <1>8 DEF SaveSettings, Crash, vars, config
  <2> QED
    BY <1>0, <1>1, <2>1
<1>9. CASE TimePasses
  <2>1. now' = now + 1 /\ UNCHANGED <<groups, wishes, heard, first>>
    BY <1>9 DEF TimePasses, config
  <2> QED
    BY <1>0, <1>1, <2>1
<1> QED
  BY <1>2, <1>3, <1>4, <1>5, <1>6, <1>7, <1>8, <1>9 DEF Next, HandleIncoming, Operator

(* A handler that goes on to echo counted enough voters, and none is lost.     *)
LEMMA EarnedStep ==
  ASSUME TypeOK, TypeOK', JobInv, EvidenceInv, EchoIsEarned, [Next]_vars, heard \subseteq heard'
  PROVE  EchoIsEarned'
<1>1. ASSUME NEW h \in Handlers, pc'[h] \in Echoing,
             \/ pc[h] \in Echoing
             \/ pc[h] = "count" /\ CountDistinctWishSenders(job[h].group, job[h].since) >= job[h].threshold,
             job'[h].group = job[h].group, job'[h].since = job[h].since, job'[h].threshold = job[h].threshold,
             NEW g, g = job'[h].group, NEW since, since = job'[h].since
      PROVE  Cardinality(Voters(g, since)') >= job'[h].threshold
  <2>1. job[h].threshold \in Nat /\ g = job[h].group /\ since = job[h].since
    BY <1>1 DEF JobInv, Job, Echoing
  <2>2. Cardinality(Voters(g, since)) >= job[h].threshold
    <3>1. CASE pc[h] \in Echoing
      BY <2>1, <3>1 DEF EchoIsEarned, Echoing
    <3>2. CASE CountDistinctWishSenders(job[h].group, job[h].since) >= job[h].threshold
      <4>1. CountDistinctWishSenders(g, since) >= job[h].threshold
        BY <2>1, <3>2
      <4> HIDE <2>1
      <4>2. CountDistinctWishSenders(g, since) \in Nat
            /\ CountDistinctWishSenders(g, since) <= Cardinality(Voters(g, since))
        BY CountedAreVoters
      <4>3. Cardinality(Voters(g, since)) \in Nat
        BY VotersGrow
      <4> QED
        BY <2>1, <4>1, <4>2, <4>3
    <3> QED
      BY <1>1, <3>1, <3>2
  <2> QED
    BY <1>1, <2>1, <2>2, VotersGrow
<1>2. ASSUME \A h \in Handlers : pc'[h] \in Echoing =>
               /\ \/ pc[h] \in Echoing
                  \/ pc[h] = "count" /\ CountDistinctWishSenders(job[h].group, job[h].since) >= job[h].threshold
               /\ job'[h].group = job[h].group /\ job'[h].since = job[h].since
               /\ job'[h].threshold = job[h].threshold
      PROVE  EchoIsEarned'
  <2> SUFFICES ASSUME NEW h \in Handlers, pc'[h] \in Echoing
               PROVE  Cardinality(Voters(job[h].group, job[h].since)') >= job'[h].threshold
    BY DEF EchoIsEarned, Echoing
  <2> QED
    BY <1>1, <1>2 DEF Voters
<1>3. ASSUME NEW h \in Handlers, \/ \E m \in Messages : Receive(h, m) \/ Ignore(h, m)
                                 \/ Record(h) \/ Load(h) \/ Abort(h)
      PROVE  EchoIsEarned'
  BY <1>2, <1>3 DEF Receive, Ignore, Record, Load, Abort, Goto, Return, TypeOK, Echoing
<1>4. ASSUME NEW h \in Handlers, Count(h)
      PROVE  EchoIsEarned'
  <2>1. job[h].threshold \in Nat
    BY <1>4 DEF Count, JobInv, Job
  <2>2. CountDistinctWishSenders(job[h].group, job[h].since) \in Nat
    BY CountedAreVoters
  <2>3. pc'[h] = "cooldown" => CountDistinctWishSenders(job[h].group, job[h].since) >= job[h].threshold
    BY <1>4, <2>1, <2>2 DEF Count, Goto, Return, TypeOK
  <2> QED
    BY <1>2, <1>4, <2>3 DEF Count, Goto, Return, TypeOK, Echoing
<1>5. ASSUME NEW h \in Handlers, Cooldown(h) \/ Prepare(h) \/ SendTextOk(h) \/ SendTextFails(h) \/ Log(h)
      PROVE  EchoIsEarned'
  <2>1. job[h] \in Job
    BY <1>5 DEF Cooldown, Prepare, SendTextOk, SendTextFails, Log, JobInv
  <2>2. \A k \in Handlers : pc'[k] \in Echoing => pc[k] \in Echoing
    BY <1>5 DEF Cooldown, Prepare, SendTextOk, SendTextFails, Log, Goto, Return, TypeOK, Echoing
  <2>3. \A k \in Handlers : pc'[k] \in Echoing =>
          /\ job'[k].group = job[k].group /\ job'[k].since = job[k].since
          /\ job'[k].threshold = job[k].threshold
    <3>1. CASE Cooldown(h) \/ SendTextOk(h) \/ SendTextFails(h) \/ Log(h)
      BY <3>1 DEF Cooldown, SendTextOk, SendTextFails, Log, Goto, Return, TypeOK, Echoing
    <3>2. CASE Prepare(h)
      <4>1. \A k \in Handlers \ {h} : job'[k] = job[k]
        BY <3>2 DEF Prepare, Return, TypeOK
      <4>2. pc'[h] \in Echoing => job'[h] = [job[h] EXCEPT !.at = now]
        BY <3>2 DEF Prepare, Goto, Return, TypeOK, Echoing
      <4> QED
        BY <2>1, <4>1, <4>2 DEF Job
    <3> QED
      BY <1>5, <3>1, <3>2
  <2> QED
    BY <1>2, <2>2, <2>3
<1>6. CASE Sweep \/ Operator \/ TimePasses \/ Crash \/ UNCHANGED vars
  BY <1>2, <1>6
  DEF Sweep, Operator, SaveGroup, DeleteGroup, SaveSettings, TimePasses, Crash, vars, Echoing
<1> QED
  BY <1>3, <1>4, <1>5, <1>6 DEF Next, HandleIncoming

EarnedInv == TypeOK /\ JobInv /\ DeliveryInv /\ EvidenceInv /\ EchoIsEarned

(* The strengthened invariant holds in every reachable state. *)
LEMMA EarnedInvariant == Spec => []EarnedInv
<1>1. Init => EarnedInv
  <2> SUFFICES ASSUME Init PROVE EarnedInv
    OBVIOUS
  <2>1. DeliveryInv
    BY DEF Init, DeliveryInv, Never
  <2>2. EvidenceInv /\ EchoIsEarned
    BY DEF Init, EvidenceInv, EchoIsEarned
  <2> QED
    BY <2>1, <2>2, InitTypes DEF EarnedInv
<1>2. EarnedInv /\ [Next]_vars => EarnedInv'
  <2> SUFFICES ASSUME EarnedInv, [Next]_vars PROVE EarnedInv'
    OBVIOUS
  <2>1. TypeOK' /\ JobInv'
    BY StepTypes DEF EarnedInv
  <2>2. DeliveryInv' /\ EvidenceInv' /\ heard \subseteq heard'
    BY <2>1, DeliveryStep, EvidenceStep DEF EarnedInv
  <2> QED
    BY <2>1, <2>2, EarnedStep DEF EarnedInv
<1> QED
  BY <1>1, <1>2, PTL DEF Spec

(* However many handlers race and however late a provider repeats a message,   *)
(* the bot joins in only when the threshold of different people have wished    *)
(* within the window, none of them the bot itself.                             *)
THEOREM EchoesAreEarned == Spec => []EchoIsEarned
<1>1. EarnedInv => EchoIsEarned
  BY DEF EarnedInv
<1> QED
  BY <1>1, EarnedInvariant, PTL

-----------------------------------------------------------------------------
(* One handler at a time keeps echoes a cooldown apart *)

Serial == \A h, k \in Handlers : h = k

(* One more post is one more entry, and the earlier ones stay. *)
LEMMA PostedTypes ==
  ASSUME TypeOK
  PROVE  \A i \in DOMAIN posted : posted[i] \in Post /\ posted[i].group \in GroupIds
<1>1. posted \in Seq(Post)
  BY DEF TypeOK
<1>2. \A i \in DOMAIN posted : posted[i] \in Post
  BY <1>1
<1> QED
  BY <1>2 DEF Post

(* A step that posts nothing, loses no row or account of one and starts no     *)
(* send keeps the spacing.                                                     *)
LEMMA QuietSpacing ==
  ASSUME TypeOK, TypeOK', SpacingInv, posted' = posted, unlogged \subseteq unlogged',
         \A g \in GroupIds : groups[g] # Unused /\ Exists(g)' => Exists(g),
         \A g \in GroupIds : groups[g] # Unused => groups'[g] # Unused,
         \A i \in DOMAIN posted : Exists(posted[i].group)' => Accounted(posted[i])',
         \A h \in Handlers : pc'[h] \in {"prepare", "send"} => RowsBehind(h)'
  PROVE  SpacingInv'
<1>1. \A i \in DOMAIN posted : posted[i].group \in GroupIds
  BY PostedTypes
<1>2. EchoesSpaced'
  BY <1>1 DEF SpacingInv, EchoesSpaced
<1>3. \A i \in DOMAIN posted' : groups'[posted'[i].group] # Unused /\ Accounted(posted[i])'
  BY <1>1 DEF SpacingInv, Accounted
<1> QED
  BY <1>2, <1>3 DEF SpacingInv, Accounted

(* Steps of a handler before it sends. *)
LEMMA HandleSpacing ==
  ASSUME TypeOK, TypeOK', JobInv, SpacingInv, NEW h \in Handlers,
         \/ \E m \in Messages : Receive(h, m) \/ Ignore(h, m)
         \/ Record(h) \/ Load(h) \/ Count(h) \/ Cooldown(h) \/ Prepare(h) \/ Abort(h)
  PROVE  SpacingInv'
<1>1. UNCHANGED <<groups, sendLog, posted, unlogged>>
  BY DEF Receive, Ignore, Record, Load, Count, Cooldown, Prepare, Abort, config
<1>2. \A k \in Handlers : pc[k] \in {"logSent", "logFailed"} => pc'[k] = pc[k] /\ job'[k] = job[k]
  BY DEF Receive, Ignore, Record, Load, Count, Cooldown, Prepare, Abort, Goto, Return, TypeOK
<1>3. ASSUME NEW k \in Handlers, pc'[k] \in {"prepare", "send"}
      PROVE  RowsBehind(k)'
  <2>1. CASE pc[k] \in {"prepare", "send"} /\ job'[k] = job[k]
    BY <1>1, <2>1 DEF SpacingInv, RowsBehind
  <2>2. CASE Cooldown(h) /\ k = h
    <3>1. ~inCooldown(job[h].group, job[h].at, job[h].cooldown) /\ job' = job /\ job[h] \in Job
      BY <1>3, <2>2 DEF Cooldown, Return, Goto, TypeOK, JobInv
    <3>2. ASSUME NEW i \in DOMAIN sendLog, sendLog[i].group = job[h].group
          PROVE  job[h].at - sendLog[i].at >= job[h].cooldown
      <4>1. sendLog[i] \in Row
        BY DEF TypeOK
      <4>2. sendLog[i].at \in Int /\ job[h].at \in Int /\ job[h].cooldown \in Int
        BY <3>1, <4>1, NatAssumption DEF Row, Job, Instants
      <4> QED
        BY <3>1, <3>2, <4>2 DEF inCooldown, EchoRows
    <3> QED
      BY <1>1, <2>2, <3>1, <3>2 DEF RowsBehind
  <2>3. CASE Prepare(h) /\ k = h
    <3>1. job[h] \in Job /\ pc[h] = "prepare" /\ job[h].at <= now
      BY <2>3 DEF Prepare, JobInv
    <3>2. job'[h] = [job[h] EXCEPT !.at = now]
      BY <1>3, <2>3 DEF Prepare, Return, Goto, TypeOK
    <3>3. job'[h].at = now /\ job'[h].group = job[h].group /\ job'[h].cooldown = job[h].cooldown
      BY <3>1, <3>2 DEF Job
    <3>4. ASSUME NEW i \in DOMAIN sendLog, sendLog[i].group = job[h].group
          PROVE  now - sendLog[i].at >= job[h].cooldown
      <4>1. sendLog[i] \in Row
        BY DEF TypeOK
      <4>2. /\ sendLog[i].at \in Int /\ job[h].at \in Int /\ job[h].cooldown \in Int
            /\ now \in Int
        BY <3>1, <4>1, NatAssumption DEF Row, Job, Instants, TypeOK
      <4>3. job[h].at - sendLog[i].at >= job[h].cooldown
        BY <3>1, <3>4 DEF SpacingInv, RowsBehind
      <4> QED
        BY <3>1, <4>2, <4>3
    <3> QED
      BY <1>1, <2>3, <3>3, <3>4 DEF RowsBehind
  <2> QED
    BY <1>3, <2>1, <2>2, <2>3
    DEF Receive, Ignore, Record, Load, Count, Cooldown, Prepare, Abort, Goto, Return, TypeOK
<1>4. \A i \in DOMAIN posted : Accounted(posted[i])'
  BY <1>1, <1>2 DEF SpacingInv, Accounted, Exists
<1> QED
  BY <1>1, <1>3, <1>4, QuietSpacing DEF Exists

(* A message is posted: every earlier one of the group has its row, a cooldown *)
(* behind, or was lost.                                                        *)
LEMMA SendSpacing ==
  ASSUME Serial, TypeOK, TypeOK', JobInv, SpacingInv, NEW h \in Handlers, SendTextOk(h) \/ SendTextFails(h)
  PROVE  SpacingInv'
<1>1. /\ pc[h] = "send" /\ job[h] \in Job /\ groups[job[h].group] # Unused
      /\ UNCHANGED <<groups, sendLog, unlogged, job>>
      /\ pc'[h] \in {"logSent", "logFailed"}
  BY DEF SendTextOk, SendTextFails, JobInv, Goto, TypeOK, config
<1>2. \A k \in Handlers : k = h
  BY DEF Serial
<1>3. \A k \in Handlers : pc'[k] \notin {"prepare", "send"}
  BY <1>1, <1>2
<1>4. \A p \in Post : Accounted(p) => Accounted(p)'
  BY <1>1, <1>2 DEF Accounted, Exists
<1>5. CASE posted' = posted
  <2>1. \A i \in DOMAIN posted : Accounted(posted[i])'
    BY <1>4, <1>5, PostedTypes DEF SpacingInv, Accounted, Exists
  <2> QED
    BY <1>1, <1>3, <1>5, <2>1, QuietSpacing DEF Exists
<1>6. CASE posted' = Append(posted, Echo(h))
  <2> DEFINE n == Len(posted)
  <2>1. n \in Nat /\ DOMAIN posted = 1 .. n /\ DOMAIN posted' = 1 .. n + 1
        /\ posted'[n + 1] = Echo(h) /\ \A i \in 1 .. n : posted'[i] = posted[i]
    BY <1>6 DEF TypeOK
  <2>2. ASSUME NEW i \in 1 .. n, posted[i].group = job[h].group, Exists(posted[i].group)
        PROVE  \/ job[h].at - posted[i].at >= job[h].cooldown
               \/ <<posted[i].group, posted[i].at>> \in unlogged
    BY <1>1, <1>2, <2>1, <2>2 DEF SpacingInv, Accounted, RowsBehind
  <2>3. EchoesSpaced'
    <3> SUFFICES ASSUME NEW i \in 1 .. n + 1, NEW j \in 1 .. n + 1, i < j,
                        posted'[i].group = posted'[j].group, Exists(posted'[i].group)
                 PROVE  \/ posted'[j].at - posted'[i].at >= posted'[j].cooldown
                        \/ <<posted'[i].group, posted'[i].at>> \in unlogged
      BY <1>1, <2>1 DEF EchoesSpaced, Exists
    <3>1. i \in 1 .. n
      BY <2>1
    <3>2. CASE j = n + 1
      BY <2>1, <2>2, <3>1, <3>2 DEF Echo
    <3>3. CASE j \in 1 .. n
      BY <2>1, <3>1, <3>3 DEF SpacingInv, EchoesSpaced
    <3> QED
      BY <2>1, <3>2, <3>3
  <2>5. ASSUME NEW i \in 1 .. n, NEW p, p = posted[i]
        PROVE  groups'[p.group] # Unused /\ Accounted(p)'
    <3>1. p \in Post /\ Accounted(p) /\ groups[p.group] # Unused
      BY <2>1, <2>5, PostedTypes DEF SpacingInv
    <3> QED
      BY <1>1, <1>4, <3>1
  <2>6. ASSUME NEW i \in 1 .. n + 1, NEW p, p = posted'[i]
        PROVE  groups'[p.group] # Unused /\ Accounted(p)'
    <3>1. CASE i \in 1 .. n
      BY <2>1, <2>5, <2>6, <3>1
    <3>2. CASE i = n + 1
      BY <1>1, <2>1, <2>6, <3>2 DEF Echo, Accounted
    <3> QED
      BY <2>1, <3>1, <3>2
  <2>7. \A i \in DOMAIN posted' : groups'[posted'[i].group] # Unused /\ Accounted(posted[i])'
    BY <2>1, <2>6 DEF Accounted
  <2> QED
    BY <1>3, <2>3, <2>7 DEF SpacingInv
<1> QED
  BY <1>5, <1>6 DEF SendTextOk, SendTextFails

(* The send gets its row, or joins the lost ones. *)
LEMMA LogSpacing ==
  ASSUME Serial, TypeOK, TypeOK', JobInv, SpacingInv, NEW h \in Handlers, Log(h)
  PROVE  SpacingInv'
<1>1. /\ pc'[h] = "idle" /\ UNCHANGED <<groups, posted>>
  BY DEF Log, Return, Goto, TypeOK, config
<1>2. \A k \in Handlers : k = h
  BY DEF Serial
<1>3. \A k \in Handlers : pc'[k] \notin {"prepare", "send"}
  BY <1>1, <1>2
<1> DEFINE n == Len(sendLog)
           row == [group |-> job[h].group, status |-> Status(h), at |-> job[h].at]
<1>4. CASE Exists(row.group) /\ sendLog' = Append(sendLog, row) /\ unlogged' = unlogged
  <2>1. n \in Nat /\ DOMAIN sendLog = 1 .. n /\ DOMAIN sendLog' = 1 .. n + 1
        /\ sendLog'[n + 1] = row /\ \A i \in 1 .. n : sendLog'[i] = sendLog[i]
    BY <1>4 DEF TypeOK
  <2>2. n + 1 \in DOMAIN sendLog' /\ row.group = job[h].group /\ row.at = job[h].at
    BY <2>1
  <2>3. \A i \in DOMAIN posted : Accounted(posted[i])'
    BY <1>1, <1>2, <1>4, <2>1, <2>2 DEF SpacingInv, Accounted, Exists
  <2> QED
    BY <1>1, <1>3, <1>4, <2>3, QuietSpacing DEF Exists
<1>5. CASE unlogged' = unlogged \cup {<<job[h].group, job[h].at>>} /\ UNCHANGED sendLog
  <2>1. \A i \in DOMAIN posted : Accounted(posted[i])'
    BY <1>1, <1>2, <1>5 DEF SpacingInv, Accounted, Exists
  <2> QED
    BY <1>1, <1>3, <1>5, <2>1, QuietSpacing DEF Exists
<1> QED
  BY <1>4, <1>5 DEF Log

(* The rest of the system never hides a row of a group that still exists. *)
LEMMA EnvironmentSpacing ==
  ASSUME TypeOK, TypeOK', JobInv, SpacingInv, Sweep \/ Operator \/ TimePasses \/ Crash \/ UNCHANGED vars
  PROVE  SpacingInv'
<1>1. CASE Sweep \/ TimePasses \/ UNCHANGED vars \/ \E s \in EchoSettings : SaveSettings(s)
  <2>1. UNCHANGED <<groups, sendLog, posted, unlogged, pc, job>>
    BY <1>1 DEF Sweep, TimePasses, vars, SaveSettings, config
  <2>2. \A i \in DOMAIN posted : Accounted(posted[i])'
    BY <2>1 DEF SpacingInv, Accounted, Exists
  <2>3. \A h \in Handlers : pc'[h] \in {"prepare", "send"} => RowsBehind(h)'
    BY <2>1 DEF SpacingInv, RowsBehind
  <2> QED
    BY <2>1, <2>2, <2>3, QuietSpacing DEF Exists
<1>2. ASSUME NEW g \in GroupIds, NEW row \in Group, SaveGroup(g, row)
      PROVE  SpacingInv'
  <2>1. UNCHANGED <<sendLog, posted, unlogged, pc, job>> /\ groups[g] # Deleted /\ groups' = [groups EXCEPT ![g] = row]
    BY <1>2 DEF SaveGroup
  <2>2. ASSUME NEW d \in GroupIds, groups[d] # Unused
        PROVE  (Exists(d)' => Exists(d)) /\ groups'[d] # Unused
    <3>1. groups[d] \in Group \cup {Deleted} /\ row # Unused
      BY <2>2, NoneAssumption DEF TypeOK
    <3>2. groups'[d] = IF d = g THEN row ELSE groups[d]
      BY <2>1 DEF TypeOK
    <3> QED
      BY <2>1, <2>2, <3>1, <3>2 DEF Exists
  <2>3. \A i \in DOMAIN posted : posted[i].group \in GroupIds
    BY PostedTypes
  <2>4. \A i \in DOMAIN posted : Accounted(posted[i])'
    BY <2>1, <2>2, <2>3 DEF SpacingInv, Accounted
  <2>5. \A h \in Handlers : pc'[h] \in {"prepare", "send"} => RowsBehind(h)'
    BY <2>1 DEF SpacingInv, RowsBehind
  <2> QED
    BY <2>1, <2>2, <2>4, <2>5, QuietSpacing
<1>3. ASSUME NEW g \in GroupIds, DeleteGroup(g)
      PROVE  SpacingInv'
  <2>1. UNCHANGED <<posted, unlogged, pc, job>> /\ groups' = [groups EXCEPT ![g] = Deleted]
        /\ sendLog' = [i \in DOMAIN sendLog |->
                        IF sendLog[i].group = g THEN [sendLog[i] EXCEPT !.group = None] ELSE sendLog[i]]
    BY <1>3 DEF DeleteGroup
  <2>2. \A i \in DOMAIN sendLog : sendLog[i] \in Row
    BY DEF TypeOK
  <2>3. /\ DOMAIN sendLog' = DOMAIN sendLog
        /\ \A i \in DOMAIN sendLog : /\ sendLog[i].group # g => sendLog'[i] = sendLog[i]
                                     /\ sendLog[i].group = g => sendLog'[i].group = None
    BY <2>1, <2>2 DEF Row
  <2>4. ASSUME NEW d \in GroupIds
        PROVE  (Exists(d)' => Exists(d) /\ d # g) /\ (groups[d] # Unused => groups'[d] # Unused)
    <3>1. groups'[d] = IF d = g THEN Deleted ELSE groups[d]
      BY <2>1 DEF TypeOK
    <3> QED
      BY <3>1, NoneAssumption DEF Exists
  <2>5. \A i \in DOMAIN posted : posted[i].group \in GroupIds
    BY PostedTypes
  <2>6. \A i \in DOMAIN posted : Accounted(posted[i])'
    BY <2>1, <2>3, <2>4, <2>5 DEF SpacingInv, Accounted
  <2>7. \A h \in Handlers : pc'[h] \in {"prepare", "send"} => RowsBehind(h)'
    <3>1. \A h \in Handlers : pc[h] \in {"prepare", "send"} => job[h].group \in GroupIds
      BY DEF JobInv, Job
    <3> QED
      BY <2>1, <2>3, <3>1, NoneAssumption DEF SpacingInv, RowsBehind
  <2> QED
    BY <2>1, <2>4, <2>6, <2>7, QuietSpacing
<1>4. CASE Crash
  <2>1. UNCHANGED <<groups, sendLog, posted>> /\ pc' = [h \in Handlers |-> "idle"]
        /\ unlogged' = unlogged \cup {<<job[h].group, job[h].at>> :
                                      h \in {k \in Handlers : pc[k] \in {"logSent", "logFailed"}}}
    BY <1>4 DEF Crash, config
  <2>2. \A i \in DOMAIN posted : Accounted(posted[i])'
    BY <2>1 DEF SpacingInv, Accounted, Exists
  <2> QED
    BY <2>1, <2>2, QuietSpacing DEF Exists
<1> QED
  BY <1>1, <1>2, <1>3, <1>4 DEF Operator

(* When messages are handled one at a time (polling is the only source), two   *)
(* echoes to a group that still exists are a cooldown apart unless the earlier *)
(* one's row was lost.                                                         *)
THEOREM SerialEchoesAreSpaced ==
  ASSUME Serial
  PROVE  Spec => []EchoesSpaced
<1> DEFINE Inv == TypeOK /\ JobInv /\ SpacingInv
<1>1. Init => Inv
  <2> SUFFICES ASSUME Init PROVE SpacingInv
    BY InitTypes
  <2> QED
    BY DEF Init, SpacingInv, EchoesSpaced
<1>2. Inv /\ [Next]_vars => Inv'
  <2> SUFFICES ASSUME TypeOK, JobInv, SpacingInv, [Next]_vars PROVE Inv'
    OBVIOUS
  <2>1. TypeOK' /\ JobInv'
    BY StepTypes
  <2>2. SpacingInv'
    BY <2>1, HandleSpacing, SendSpacing, LogSpacing, EnvironmentSpacing DEF Next, HandleIncoming
  <2> QED
    BY <2>1, <2>2
<1>3. Inv => EchoesSpaced
  BY DEF SpacingInv
<1> QED
  BY <1>1, <1>2, <1>3, PTL DEF Spec

-----------------------------------------------------------------------------
(* No burst is missed *)

Quiet == active /\ spent.faults = 0 /\ spent.edits = 0

Burst(g) == {r \in heard : r.group = g /\ r.at >= now - settings.window}
Wishers(g) == {Content[r.message].sender : r \in Burst(g)}

(* A handler works with the row and the settings that are still in force.      *)
Agrees(h) ==
  /\ pc[h] # "idle" /\ Exists(job[h].group) => job[h].own = groups[job[h].group].threshold
  /\ pc[h] = "count" =>
       /\ job[h].since = job[h].at - settings.window
       /\ job[h].threshold = IF job[h].own # NoThreshold THEN job[h].own ELSE settings.threshold
  /\ pc[h] \in {"count", "cooldown"} => job[h].cooldown = settings.cooldown

Deciding == {"count", "cooldown", "prepare", "send", "logSent", "logFailed"}

(* A handler whose decision takes in every wish of the group: its latest       *)
(* reading of the clock is no older than any of them, or still to come.        *)
Covers(h, g) ==
  \/ pc[h] = "load" /\ job[h].group = g
  \/ /\ pc[h] \in Deciding /\ job[h].group = g
     /\ \A r \in heard : r.group = g => r.at <= job[h].at

(* A row young enough to hold back an echo for any wish of the group.          *)
Answered(g) ==
  \E i \in EchoRows(g) : \A r \in heard : r.group = g => sendLog[i].at > r.at - settings.cooldown

Below(g) == Cardinality(Wishers(g)) < EffectiveThreshold(groups[g])

(* While nothing fails and nothing is edited, every group is answered, has no  *)
(* burst, or has a handler that will decide about all of its wishes: the one   *)
(* that recorded last, since each records before it counts.                    *)
BurstInv ==
  /\ \A r \in heard : r.at <= now
  /\ Quiet =>
       /\ \A h \in Handlers : Agrees(h)
       /\ \A g \in GroupIds :
            Exists(g) => (\E h \in Handlers : Covers(h, g)) \/ Answered(g) \/ Below(g)

(* The arithmetic the steps below do is on integers.                           *)
LEMMA ClockTypes ==
  ASSUME TypeOK
  PROVE  /\ now \in Int /\ settings.window \in Int /\ settings.cooldown \in Int
         /\ settings.cooldown > 0 /\ settings.threshold \in Int /\ settings.threshold > 0
         /\ \A r \in heard : r.at \in Int /\ r.group \in GroupIds
         /\ \A h \in Handlers : job[h] \in Job => job[h].at \in Int /\ job[h].group \in GroupIds
         /\ \A i \in DOMAIN sendLog : sendLog[i].at \in Int
<1>1. Instants \subseteq Int
  BY NatAssumption DEF Instants
<1>2. \A r \in heard : r.at \in Int /\ r.group \in GroupIds
  <2> SUFFICES ASSUME NEW r \in heard PROVE r.at \in Int /\ r.group \in GroupIds
    OBVIOUS
  <2>1. r \in Wish
    BY DEF TypeOK
  <2> QED
    BY <1>1, <2>1 DEF Wish
<1>3. \A i \in DOMAIN sendLog : sendLog[i].at \in Int
  <2> SUFFICES ASSUME NEW i \in DOMAIN sendLog PROVE sendLog[i].at \in Int
    OBVIOUS
  <2>1. sendLog[i] \in Row
    BY DEF TypeOK
  <2> QED
    BY <1>1, <2>1 DEF Row
<1>4. now \in Int
  BY <1>1 DEF TypeOK
<1>5. settings.window \in Nat \ {0} /\ settings.cooldown \in Nat \ {0} /\ settings.threshold \in Nat \ {0}
  BY SettingsAssumption DEF TypeOK
<1>6. \A h \in Handlers : job[h] \in Job => job[h].at \in Int /\ job[h].group \in GroupIds
  BY <1>1 DEF Job
<1> QED
  BY <1>2, <1>3, <1>4, <1>5, <1>6

(* A burst has finitely many members.                                          *)
LEMMA WishersFinite ==
  ASSUME TypeOK, NEW g
  PROVE  IsFiniteSet(Wishers(g))
<1>1. Wishers(g) \in SUBSET Senders
  BY ContentAssumption DEF Wishers, Burst, TypeOK, Wish
<1> QED
  BY <1>1, FiniteAssumption, FS_Subset

(* A burst only shrinks until somebody wishes.                                 *)
LEMMA BelowStays ==
  ASSUME TypeOK, TypeOK', NEW g \in GroupIds, Exists(g), Below(g), now <= now',
         UNCHANGED <<groups, settings>>, \A r \in heard' : r.group = g => r \in heard
  PROVE  Below(g)'
<1> DEFINE old == Wishers(g)
<1> DEFINE new == Wishers(g)'
<1>1. now \in Int /\ now' \in Int /\ settings.window \in Int
  <2>1. now' \in Int
    BY NatAssumption DEF TypeOK, Instants
  <2> QED
    BY <2>1, ClockTypes
<1>2. \A r \in heard : r.at \in Int
  BY ClockTypes
<1>3. \A r \in heard : r.at >= now' - settings.window => r.at >= now - settings.window
  BY <1>1, <1>2
<1>4. new \in SUBSET old
  BY <1>3 DEF Wishers, Burst
<1>5. IsFiniteSet(old)
  BY WishersFinite
<1>6. EffectiveThreshold(groups[g]) \in Int
  <2>1. groups[g].threshold \in Thresholds \cup {NoThreshold}
    BY DEF Exists, Group
  <2>2. settings.threshold \in Int /\ Thresholds \cup {NoThreshold} \subseteq Int
    BY ClockTypes, SettingsAssumption DEF NoThreshold
  <2> QED
    BY <2>1, <2>2 DEF EffectiveThreshold
<1>7. Cardinality(old) < EffectiveThreshold(groups[g])
  BY DEF Below
<1>8. EffectiveThreshold(groups[g])' = EffectiveThreshold(groups[g])
  BY DEF EffectiveThreshold
<1> HIDE DEF old, new
<1>9. Cardinality(new) < EffectiveThreshold(groups[g])
  <2>1. Cardinality(new) <= Cardinality(old) /\ Cardinality(new) \in Nat /\ Cardinality(old) \in Nat
    BY <1>4, <1>5, FS_Subset, FS_CardinalityType
  <2> QED
    BY <1>6, <1>7, <2>1
<1> QED
  BY <1>8, <1>9 DEF new, Below

(* A step without a fault or an edit came from a quiet state.                  *)
LEMMA QuietBefore ==
  ASSUME TypeOK, [Next]_vars, Quiet'
  PROVE  /\ Quiet /\ UNCHANGED config
         /\ ~Fault /\ ~SpendEdit
<1>1. spent.faults \in Nat /\ spent.edits \in Nat
  BY NatAssumption DEF TypeOK
<1>2. ~Fault
  <2> SUFFICES ASSUME Fault PROVE FALSE
    OBVIOUS
  <2>1. spent'.faults = spent.faults + 1
    BY DEF Fault, TypeOK
  <2> QED
    BY <1>1, <2>1 DEF Quiet
<1>3. ~SpendEdit
  <2> SUFFICES ASSUME SpendEdit PROVE FALSE
    OBVIOUS
  <2>1. spent'.edits = spent.edits + 1
    BY DEF SpendEdit, TypeOK
  <2> QED
    BY <1>1, <2>1 DEF Quiet
<1>4. ASSUME NEW h \in Handlers, NEW m \in Messages, Receive(h, m) \/ Ignore(h, m)
      PROVE  Quiet /\ UNCHANGED config
  <2>1. spent' = spent \/ spent' = [spent EXCEPT !.redeliveries = @ + 1]
    BY <1>4 DEF Receive, Ignore, Delivered
  <2>2. spent'.faults = spent.faults /\ spent'.edits = spent.edits
    BY <2>1 DEF TypeOK
  <2>3. UNCHANGED config
    BY <1>4 DEF Receive, Ignore
  <2> QED
    BY <2>2, <2>3 DEF Quiet, config
<1>5. ASSUME NEW h \in Handlers, \/ Record(h) \/ Load(h) \/ Count(h) \/ Cooldown(h) \/ Prepare(h)
                                 \/ SendTextOk(h) \/ Log(h)
      PROVE  Quiet /\ UNCHANGED config
  <2>1. spent' = spent
    <3>1. CASE Log(h)
      BY <1>2, <3>1 DEF Log
    <3>2. CASE Record(h)
      BY <3>2 DEF Record
    <3> QED
      BY <1>5, <3>1, <3>2 DEF Load, Count, Cooldown, Prepare, SendTextOk
  <2>2. UNCHANGED config
    BY <1>5 DEF Record, Load, Count, Cooldown, Prepare, SendTextOk, Log
  <2> QED
    BY <2>1, <2>2 DEF Quiet, config
<1>6. ASSUME NEW h \in Handlers
      PROVE  ~Abort(h) /\ ~SendTextFails(h)
  BY <1>2 DEF Abort, SendTextFails
<1>7. ~Crash /\ ~Operator
  BY <1>2, <1>3 DEF Crash, Operator, SaveGroup, DeleteGroup, SaveSettings
<1>8. ASSUME Sweep \/ TimePasses \/ UNCHANGED vars
      PROVE  Quiet /\ UNCHANGED config
  BY <1>8 DEF Sweep, TimePasses, vars, Quiet, config
<1>9. ASSUME NEW h \in Handlers, HandleIncoming(h)
      PROVE  Quiet /\ UNCHANGED config
  BY <1>4, <1>5, <1>6, <1>9 DEF HandleIncoming
<1>10. Quiet /\ UNCHANGED config
  BY <1>7, <1>8, <1>9 DEF Next
<1> QED
  BY <1>2, <1>3, <1>10

(* A quiet step that records no wish keeps the invariant, if whoever covered a *)
(* group covers it still or leaves it answered or below the threshold.         *)
LEMMA FrameBurst ==
  ASSUME TypeOK, TypeOK', BurstInv, Quiet, UNCHANGED <<groups, settings, heard>>, now <= now',
         \A h \in Handlers : Agrees(h)',
         \A g \in GroupIds : Answered(g) => Answered(g)',
         \A g \in GroupIds : \A h \in Handlers : Exists(g) /\ Covers(h, g) =>
            (\E k \in Handlers : Covers(k, g)') \/ Answered(g)' \/ Below(g)'
  PROVE  BurstInv'
<1>1. \A r \in heard' : r.at <= now'
  <2>1. now' \in Int
    BY NatAssumption DEF TypeOK, Instants
  <2>2. now \in Int /\ \A r \in heard : r.at \in Int
    BY ClockTypes
  <2> QED
    BY <2>1, <2>2 DEF BurstInv
<1>2. ASSUME NEW g \in GroupIds, Exists(g)'
      PROVE  (\E h \in Handlers : Covers(h, g)') \/ Answered(g)' \/ Below(g)'
  <2>1. Exists(g)
    BY <1>2 DEF Exists
  <2>2. CASE \E h \in Handlers : Covers(h, g)
    BY <2>1, <2>2
  <2>3. CASE Answered(g)
    BY <2>3
  <2>4. CASE Below(g)
    BY <2>1, <2>4, BelowStays
  <2> QED
    BY <2>1, <2>2, <2>3, <2>4 DEF BurstInv
<1> QED
  BY <1>1, <1>2 DEF BurstInv

(* The same for a step of one handler at one instant.                          *)
LEMMA HandlerFrame ==
  ASSUME TypeOK, TypeOK', BurstInv, Quiet, UNCHANGED <<now, groups, settings, heard>>,
         sendLog' = sendLog \/ \E row \in Row : sendLog' = Append(sendLog, row),
         NEW h \in Handlers,
         \A k \in Handlers \ {h} : pc'[k] = pc[k] /\ job'[k] = job[k],
         Agrees(h)',
         \A g \in GroupIds : Exists(g) /\ Covers(h, g) => Covers(h, g)' \/ Answered(g)' \/ Below(g)'
  PROVE  BurstInv'
<1>1. \A k \in Handlers : Agrees(k)'
  <2> SUFFICES ASSUME NEW k \in Handlers, k # h PROVE Agrees(k)'
    OBVIOUS
  <2>1. Agrees(k) /\ pc'[k] = pc[k] /\ job'[k] = job[k]
    BY DEF BurstInv
  <2> QED
    BY <2>1 DEF Agrees, Exists
<1>2. \A g \in GroupIds : Answered(g) => Answered(g)'
  <2>1. DOMAIN sendLog \subseteq DOMAIN sendLog' /\ \A i \in DOMAIN sendLog : sendLog'[i] = sendLog[i]
    <3>1. sendLog \in Seq(Row)
      BY DEF TypeOK
    <3>2. ASSUME NEW row \in Row, sendLog' = Append(sendLog, row)
          PROVE  DOMAIN sendLog \subseteq DOMAIN sendLog' /\ \A i \in DOMAIN sendLog : sendLog'[i] = sendLog[i]
      BY <3>1, <3>2
    <3> QED
      BY <3>2
  <2> QED
    BY <2>1 DEF Answered, EchoRows
<1>3. ASSUME NEW g \in GroupIds, NEW k \in Handlers, Exists(g), Covers(k, g)
      PROVE  (\E l \in Handlers : Covers(l, g)') \/ Answered(g)' \/ Below(g)'
  <2>1. CASE k = h
    BY <1>3, <2>1
  <2>2. CASE k # h
    <3>1. pc'[k] = pc[k] /\ job'[k] = job[k]
      BY <2>2
    <3> QED
      BY <1>3, <3>1 DEF Covers
  <2> QED
    BY <2>1, <2>2
<1>4. now <= now'
  BY ClockTypes
<1> QED
  BY <1>1, <1>2, <1>3, <1>4, FrameBurst

(* Wishes are recorded under the instant of the clock, which never goes back.  *)
LEMMA HeardPast ==
  ASSUME TypeOK, JobInv, BurstInv, [Next]_vars
  PROVE  /\ now <= now' /\ heard' \subseteq heard \cup [group: GroupIds, message: Messages, at: {now}]
         /\ \A r \in heard' : r.at <= now'
<1>1. now \in Int /\ \A r \in heard : r.at \in Int
  BY ClockTypes
<1>2. ASSUME NEW h \in Handlers, HandleIncoming(h), ~Record(h)
      PROVE  UNCHANGED <<now, heard>>
  BY <1>2 DEF HandleIncoming, Receive, Ignore, Load, Count, Cooldown, Prepare, Abort,
              SendTextOk, SendTextFails, Log
<1>3. ASSUME NEW h \in Handlers, Record(h)
      PROVE  now' = now /\ heard' \subseteq heard \cup [group: GroupIds, message: Messages, at: {now}]
  <2>1. job[h].group \in GroupIds /\ job[h].message \in Messages
    BY <1>3 DEF Record, JobInv, Job
  <2> QED
    BY <1>3, <2>1 DEF Record
<1>4. ASSUME Sweep \/ Operator \/ TimePasses \/ Crash \/ UNCHANGED vars
      PROVE  heard' = heard /\ (now' = now \/ now' = now + 1)
  BY <1>4 DEF Sweep, Operator, SaveGroup, DeleteGroup, SaveSettings, TimePasses, Crash, vars
<1>5. now' \in {now, now + 1} /\ heard' \subseteq heard \cup [group: GroupIds, message: Messages, at: {now}]
  BY <1>2, <1>3, <1>4 DEF Next
<1>6. \A r \in heard' : r.at <= now
  BY <1>1, <1>5 DEF BurstInv
<1>7. \A r \in heard' : r.at \in Int
  BY <1>1, <1>5
<1> QED
  BY <1>1, <1>5, <1>6, <1>7

(* A delivery read the row it works with just now.                             *)
LEMMA ReceiveBurst ==
  ASSUME TypeOK, TypeOK', BurstInv, Quiet, NEW h \in Handlers, NEW m \in Messages,
         Receive(h, m) \/ Ignore(h, m)
  PROVE  BurstInv'
<1>1. UNCHANGED <<now, groups, settings, heard, sendLog>> /\ pc[h] = "idle"
  BY DEF Receive, Ignore, config
<1>2. \A k \in Handlers \ {h} : pc'[k] = pc[k] /\ job'[k] = job[k]
  BY DEF Receive, Ignore, Goto, TypeOK
<1>3. \A g \in GroupIds : ~Covers(h, g)
  BY <1>1 DEF Covers, Deciding
<1>4. Agrees(h)'
  <2>1. CASE Receive(h, m)
    <3>1. pc'[h] = "record" /\ \E g \in GroupIds : job'[h].group = g /\ job'[h].own = groups[g].threshold
      BY <2>1 DEF Receive, Goto, TypeOK
    <3> QED
      BY <1>1, <3>1 DEF Agrees
  <2>2. CASE Ignore(h, m)
    BY <1>1, <2>2 DEF Ignore, Agrees
  <2> QED
    BY <2>1, <2>2
<1> QED
  BY <1>1, <1>2, <1>3, <1>4, HandlerFrame

(* Whoever records a wish will decide about every wish of the group.           *)
LEMMA RecordBurst ==
  ASSUME TypeOK, TypeOK', JobInv, BurstInv, Quiet, NEW h \in Handlers, Record(h),
         \A r \in heard' : r.at <= now'
  PROVE  BurstInv'
<1> DEFINE g0 == job[h].group
<1>1. UNCHANGED <<now, groups, settings, sendLog>> /\ pc[h] = "record" /\ g0 \in GroupIds
  BY DEF Record, config, JobInv, Job
<1>2. \A k \in Handlers \ {h} : pc'[k] = pc[k] /\ job'[k] = job[k]
  BY DEF Record, Goto, Return, TypeOK
<1>3. \A g \in GroupIds : ~Covers(h, g)
  BY <1>1 DEF Covers, Deciding
<1>4. CASE Return(h) /\ UNCHANGED heard
  <2>1. Agrees(h)'
    BY <1>4 DEF Return, Goto, TypeOK, Agrees
  <2> QED
    BY <1>1, <1>2, <1>3, <1>4, <2>1, HandlerFrame
<1>5. CASE /\ Goto(h, "load") /\ UNCHANGED job
           /\ heard' \subseteq heard \cup {[group |-> g0, message |-> job[h].message, at |-> now]}
  <2>1. pc'[h] = "load" /\ job'[h] = job[h]
    BY <1>5 DEF Goto, TypeOK
  <2>2. \A k \in Handlers : Agrees(k)'
    <3> SUFFICES ASSUME NEW k \in Handlers PROVE Agrees(k)'
      OBVIOUS
    <3>1. Agrees(k)
      BY DEF BurstInv
    <3>2. CASE k = h
      BY <1>1, <2>1, <3>1, <3>2 DEF Agrees, Exists
    <3>3. CASE k # h
      BY <1>1, <1>2, <3>1, <3>3 DEF Agrees, Exists
    <3> QED
      BY <3>2, <3>3
  <2>3. ASSUME NEW g \in GroupIds, g = g0
        PROVE  Covers(h, g)'
    BY <2>1, <2>3 DEF Covers
  <2>4. ASSUME NEW g \in GroupIds, g # g0, Exists(g)'
        PROVE  (\E k \in Handlers : Covers(k, g)') \/ Answered(g)' \/ Below(g)'
    <3>1. \A r \in heard' : r.group = g => r \in heard
      BY <1>5, <2>4
    <3>2. Exists(g) /\ now <= now'
      BY <1>1, <2>4, ClockTypes DEF Exists
    <3>3. CASE \E k \in Handlers : Covers(k, g)
      <4>1. PICK k \in Handlers : Covers(k, g)
        BY <3>3
      <4>2. pc'[k] = pc[k] /\ job'[k] = job[k]
        BY <1>2, <1>3, <4>1
      <4>3. Covers(k, g)'
        BY <3>1, <4>1, <4>2 DEF Covers
      <4> QED
        BY <4>3
    <3>4. CASE Answered(g)
      BY <1>1, <3>1, <3>4 DEF Answered, EchoRows
    <3>5. CASE Below(g)
      BY <1>1, <3>1, <3>2, <3>5, BelowStays
    <3> QED
      BY <3>2, <3>3, <3>4, <3>5 DEF BurstInv
  <2> QED
    BY <2>2, <2>3, <2>4 DEF BurstInv
<1> QED
  BY <1>4, <1>5 DEF Record

(* Loading reads the clock, the row and the settings that are still in force.  *)
LEMMA LoadBurst ==
  ASSUME TypeOK, TypeOK', JobInv, BurstInv, Quiet, NEW h \in Handlers, Load(h)
  PROVE  BurstInv'
<1>1. UNCHANGED <<now, groups, settings, heard, sendLog>> /\ pc[h] = "load" /\ pc'[h] = "count"
      /\ job[h] \in Job
  BY DEF Load, config, Goto, TypeOK, JobInv
<1>2. \A k \in Handlers \ {h} : pc'[k] = pc[k] /\ job'[k] = job[k]
  BY DEF Load, Goto, TypeOK
<1>3. job'[h] = [job[h] EXCEPT
               !.threshold = IF job[h].own # NoThreshold THEN job[h].own ELSE settings.threshold,
               !.since = now - settings.window,
               !.cooldown = settings.cooldown,
               !.at = now]
  BY DEF Load, TypeOK
<1>4. /\ job'[h].group = job[h].group /\ job'[h].own = job[h].own /\ job'[h].at = now
      /\ job'[h].since = now - settings.window /\ job'[h].cooldown = settings.cooldown
      /\ job'[h].threshold = IF job[h].own # NoThreshold THEN job[h].own ELSE settings.threshold
  BY <1>1, <1>3 DEF Job
<1>5. Agrees(h)'
  <2>1. Agrees(h)
    BY DEF BurstInv
  <2> QED
    BY <1>1, <1>4, <2>1 DEF Agrees, Exists
<1>6. ASSUME NEW g \in GroupIds, Covers(h, g)
      PROVE  Covers(h, g)'
  <2>1. job[h].group = g
    BY <1>6 DEF Covers
  <2>2. \A r \in heard : r.at <= now
    BY DEF BurstInv
  <2> QED
    BY <1>1, <1>4, <2>1, <2>2 DEF Covers, Deciding
<1> QED
  BY <1>1, <1>2, <1>5, <1>6, HandlerFrame

(* What a decider counts takes in the whole burst: the rows the janitor took   *)
(* are older than the window, and the window it computed began no later.       *)
LEMMA CountedBurst ==
  ASSUME TypeOK, JobInv, EvidenceInv, BurstInv, Quiet, settings.window <= Retention,
         NEW h \in Handlers, NEW g \in GroupIds, Exists(g), pc[h] = "count", job[h].group = g,
         CountDistinctWishSenders(g, job[h].since) < job[h].threshold
  PROVE  Below(g)
<1> DEFINE counted == {Content[r.message].sender : r \in {w \in wishes : w.group = g /\ w.at >= job[h].since}}
<1>1. now \in Int /\ settings.window \in Int /\ job[h].at \in Int /\ Retention \in Int
  <2>1. job[h] \in Job
    BY DEF JobInv
  <2> QED
    BY <2>1, ClockTypes, NatAssumption
<1>2. job[h].at <= now
  BY DEF JobInv
<1>3. job[h].since = job[h].at - settings.window /\ job[h].threshold = EffectiveThreshold(groups[g])
  <2>1. Agrees(h)
    BY DEF BurstInv
  <2> QED
    BY <2>1 DEF Agrees, EffectiveThreshold
<1>4. Burst(g) \subseteq {w \in wishes : w.group = g /\ w.at >= job[h].since}
  <2> SUFFICES ASSUME NEW r \in heard, r.group = g, r.at >= now - settings.window
               PROVE  r \in wishes /\ r.at >= job[h].since
    BY DEF Burst
  <2>1. r.at \in Int
    BY ClockTypes
  <2>2. ~(r.at + Retention < now)
    BY <1>1, <2>1
  <2>3. groups[g] # Deleted
    BY NoneAssumption DEF Exists
  <2>4. r \in wishes
    BY <2>2, <2>3 DEF EvidenceInv
  <2> QED
    BY <1>1, <1>2, <1>3, <2>1, <2>4
<1>5. Wishers(g) \subseteq counted
  BY <1>4 DEF Wishers
<1>6. counted \in SUBSET Senders
  BY ContentAssumption DEF TypeOK, Wish
<1>7. IsFiniteSet(counted)
  BY <1>6, FiniteAssumption, FS_Subset
<1>8. Cardinality(counted) < EffectiveThreshold(groups[g])
  BY <1>3 DEF CountDistinctWishSenders
<1>9. EffectiveThreshold(groups[g]) \in Int
  <2>1. groups[g].threshold \in Thresholds \cup {NoThreshold}
    BY DEF Exists, Group
  <2>2. settings.threshold \in Int /\ Thresholds \cup {NoThreshold} \subseteq Int
    BY ClockTypes, SettingsAssumption DEF NoThreshold
  <2> QED
    BY <2>1, <2>2 DEF EffectiveThreshold
<1> HIDE DEF counted
<1>10. Cardinality(Wishers(g)) <= Cardinality(counted) /\ Cardinality(Wishers(g)) \in Nat
       /\ Cardinality(counted) \in Nat
  BY <1>5, <1>7, FS_Subset, FS_CardinalityType
<1> QED
  BY <1>8, <1>9, <1>10 DEF Below

(* A decider that returns leaves its group below the threshold.                *)
LEMMA CountBurst ==
  ASSUME TypeOK, TypeOK', JobInv, EvidenceInv, BurstInv, Quiet, settings.window <= Retention,
         NEW h \in Handlers, Count(h)
  PROVE  BurstInv'
<1>1. UNCHANGED <<now, groups, settings, heard, sendLog>> /\ pc[h] = "count"
  BY DEF Count, config
<1>2. \A k \in Handlers \ {h} : pc'[k] = pc[k] /\ job'[k] = job[k]
  BY DEF Count, Goto, Return, TypeOK
<1>3. Agrees(h)
  BY DEF BurstInv
<1>4. CASE /\ CountDistinctWishSenders(job[h].group, job[h].since) < job[h].threshold
           /\ Return(h)
  <2>1. Agrees(h)'
    BY <1>4 DEF Return, Goto, TypeOK, Agrees
  <2>2. ASSUME NEW g \in GroupIds, Exists(g), Covers(h, g)
        PROVE  Below(g)'
    <3>1. job[h].group = g
      BY <2>2 DEF Covers
    <3>2. Below(g)
      BY <1>1, <1>4, <2>2, <3>1, CountedBurst
    <3> QED
      BY <1>1, <3>2 DEF Below, Wishers, Burst, EffectiveThreshold
  <2> QED
    BY <1>1, <1>2, <2>1, <2>2, HandlerFrame
<1>5. CASE Goto(h, "cooldown") /\ UNCHANGED job
  <2>1. pc'[h] = "cooldown"
    BY <1>5 DEF Goto, TypeOK
  <2>2. Agrees(h)'
    BY <1>1, <1>3, <1>5, <2>1 DEF Agrees, Exists
  <2>3. \A g \in GroupIds : Covers(h, g) => Covers(h, g)'
    BY <1>1, <1>5, <2>1 DEF Covers, Deciding
  <2> QED
    BY <1>1, <1>2, <2>2, <2>3, HandlerFrame
<1> QED
  BY <1>4, <1>5 DEF Count

(* A decider within a cooldown leaves its group answered.                      *)
LEMMA CooldownBurst ==
  ASSUME TypeOK, TypeOK', JobInv, BurstInv, Quiet, NEW h \in Handlers, Cooldown(h)
  PROVE  BurstInv'
<1>1. UNCHANGED <<now, groups, settings, heard, sendLog>> /\ pc[h] = "cooldown" /\ job[h] \in Job
  BY DEF Cooldown, config, JobInv
<1>2. \A k \in Handlers \ {h} : pc'[k] = pc[k] /\ job'[k] = job[k]
  BY DEF Cooldown, Goto, Return, TypeOK
<1>3. Agrees(h)
  BY DEF BurstInv
<1>4. CASE inCooldown(job[h].group, job[h].at, job[h].cooldown) /\ Return(h)
  <2>1. Agrees(h)'
    BY <1>4 DEF Return, Goto, TypeOK, Agrees
  <2>2. ASSUME NEW g \in GroupIds, Covers(h, g)
        PROVE  Answered(g)'
    <3>1. job[h].group = g /\ \A r \in heard : r.group = g => r.at <= job[h].at
      BY <1>1, <2>2 DEF Covers
    <3>2. job[h].cooldown = settings.cooldown
      BY <1>1, <1>3 DEF Agrees
    <3>3. PICK i \in EchoRows(g) : job[h].at - sendLog[i].at < settings.cooldown
      BY <1>4, <3>1, <3>2 DEF inCooldown
    <3>4. sendLog[i].at \in Int /\ job[h].at \in Int /\ settings.cooldown \in Int
          /\ \A r \in heard : r.at \in Int
      BY <1>1, ClockTypes DEF EchoRows
    <3>5. \A r \in heard : r.group = g => sendLog[i].at > r.at - settings.cooldown
      BY <3>1, <3>3, <3>4
    <3> QED
      BY <1>1, <3>5 DEF Answered, EchoRows
  <2> QED
    BY <1>1, <1>2, <2>1, <2>2, HandlerFrame
<1>5. CASE Goto(h, "prepare") /\ UNCHANGED job
  <2>1. pc'[h] = "prepare"
    BY <1>5 DEF Goto, TypeOK
  <2>2. Agrees(h)'
    BY <1>1, <1>3, <1>5, <2>1 DEF Agrees, Exists
  <2>3. \A g \in GroupIds : Covers(h, g) => Covers(h, g)'
    BY <1>1, <1>5, <2>1 DEF Covers, Deciding
  <2> QED
    BY <1>1, <1>2, <2>2, <2>3, HandlerFrame
<1> QED
  BY <1>4, <1>5 DEF Cooldown

(* With a provider installed a decider goes on to send.                        *)
LEMMA SendBurst ==
  ASSUME TypeOK, TypeOK', JobInv, BurstInv, Quiet, NEW h \in Handlers, Prepare(h) \/ SendTextOk(h)
  PROVE  BurstInv'
<1>1. UNCHANGED <<now, groups, settings, heard, sendLog>> /\ pc[h] \in {"prepare", "send"} /\ job[h] \in Job
  BY DEF Prepare, SendTextOk, config, JobInv
<1>2. \A k \in Handlers \ {h} : pc'[k] = pc[k] /\ job'[k] = job[k]
  BY DEF Prepare, SendTextOk, Goto, Return, TypeOK
<1>3. /\ pc'[h] \in {"send", "logSent"}
      /\ job'[h].group = job[h].group /\ job'[h].own = job[h].own /\ job'[h].at \in {job[h].at, now}
  <2>1. CASE Prepare(h)
    <3>1. pc'[h] = "send" /\ job'[h] = [job[h] EXCEPT !.at = now]
      BY <2>1 DEF Prepare, Quiet, Goto, TypeOK
    <3> QED
      BY <1>1, <3>1 DEF Job
  <2>2. CASE SendTextOk(h)
    BY <2>2 DEF SendTextOk, Goto, TypeOK
  <2> QED
    BY <2>1, <2>2
<1>4. Agrees(h)'
  <2>1. Agrees(h)
    BY DEF BurstInv
  <2> QED
    BY <1>1, <1>3, <2>1 DEF Agrees, Exists
<1>5. ASSUME NEW g \in GroupIds, Covers(h, g)
      PROVE  Covers(h, g)'
  <2>1. job[h].group = g /\ \A r \in heard : r.group = g => r.at <= job[h].at
    BY <1>1, <1>5 DEF Covers
  <2>2. \A r \in heard : r.at <= now
    BY DEF BurstInv
  <2>3. \A r \in heard : r.group = g => r.at <= job'[h].at
    BY <1>3, <2>1, <2>2
  <2> QED
    BY <1>1, <1>3, <2>1, <2>3 DEF Covers, Deciding
<1> QED
  BY <1>1, <1>2, <1>4, <1>5, HandlerFrame

(* The row of a send is young enough for every wish its decider covered.       *)
LEMMA LogBurst ==
  ASSUME TypeOK, TypeOK', JobInv, BurstInv, Quiet, ~Fault, NEW h \in Handlers, Log(h)
  PROVE  BurstInv'
<1> DEFINE row == [group |-> job[h].group, status |-> Status(h), at |-> job[h].at]
<1>1. /\ UNCHANGED <<now, groups, settings, heard>> /\ Return(h) /\ job[h] \in Job
      /\ pc[h] \in {"logSent", "logFailed"}
  BY DEF Log, config, JobInv
<1>2. \A k \in Handlers \ {h} : pc'[k] = pc[k] /\ job'[k] = job[k]
  BY <1>1 DEF Goto, Return, TypeOK
<1>3. Agrees(h)'
  BY <1>1 DEF Return, Goto, TypeOK, Agrees
<1>4. sendLog \in Seq(Row) /\ row \in Row /\ row.at = job[h].at /\ row.group = job[h].group
  BY <1>1 DEF TypeOK, Row, Job, Status
<1> HIDE DEF row
<1>5. CASE Exists(job[h].group) /\ sendLog' = Append(sendLog, row)
  <2>1. ASSUME NEW g \in GroupIds, Covers(h, g)
        PROVE  Answered(g)'
    <3>1. job[h].group = g /\ \A r \in heard : r.group = g => r.at <= job[h].at
      BY <1>1, <2>1 DEF Covers
    <3>2. job[h].at \in Int /\ settings.cooldown \in Int /\ settings.cooldown > 0
          /\ \A r \in heard : r.at \in Int
      BY <1>1, ClockTypes
    <3>3. \A r \in heard : r.group = g => job[h].at > r.at - settings.cooldown
      BY <3>1, <3>2
    <3>4. Len(sendLog) + 1 \in DOMAIN sendLog' /\ sendLog'[Len(sendLog) + 1] = row
      BY <1>4, <1>5
    <3> QED
      BY <1>1, <1>4, <3>1, <3>3, <3>4 DEF Answered, EchoRows
  <2> QED
    BY <1>1, <1>2, <1>3, <1>4, <1>5, <2>1, HandlerFrame
<1>6. CASE ~Exists(job[h].group) /\ UNCHANGED sendLog
  <2>1. \A g \in GroupIds : Exists(g) => ~Covers(h, g)
    BY <1>6 DEF Covers
  <2> QED
    BY <1>1, <1>2, <1>3, <1>6, <2>1, HandlerFrame
<1> QED
  BY <1>5, <1>6 DEF Log, row

(* The janitor and the clock disturb nobody's decision.                        *)
LEMMA ClockBurst ==
  ASSUME TypeOK, TypeOK', BurstInv, Quiet, now <= now', Sweep \/ TimePasses \/ UNCHANGED vars
  PROVE  BurstInv'
<1>1. UNCHANGED <<groups, settings, heard, sendLog, pc, job>>
  BY DEF Sweep, TimePasses, vars, config
<1>2. \A h \in Handlers : Agrees(h)'
  BY <1>1 DEF BurstInv, Agrees, Exists
<1>3. \A g \in GroupIds : Answered(g) => Answered(g)'
  BY <1>1 DEF Answered, EchoRows
<1>4. \A g \in GroupIds : \A h \in Handlers : Covers(h, g) => Covers(h, g)'
  BY <1>1 DEF Covers
<1> QED
  BY <1>1, <1>2, <1>3, <1>4, FrameBurst

(* The step of the invariant, by who moves.                                    *)
LEMMA BurstStep ==
  ASSUME EarnedInv, EarnedInv', BurstInv, settings.window <= Retention, [Next]_vars
  PROVE  BurstInv'
<1>1. TypeOK /\ TypeOK' /\ JobInv /\ EvidenceInv
  BY DEF EarnedInv
<1>2. now <= now' /\ \A r \in heard' : r.at <= now'
  BY <1>1, HeardPast
<1>3. CASE ~Quiet'
  BY <1>2, <1>3 DEF BurstInv
<1>4. CASE Quiet'
  <2>1. Quiet /\ ~Fault /\ ~SpendEdit
    BY <1>1, <1>4, QuietBefore
  <2>2. ASSUME NEW h \in Handlers, HandleIncoming(h)
        PROVE  BurstInv'
    <3>1. ~Abort(h) /\ ~SendTextFails(h)
      BY <2>1 DEF Abort, SendTextFails
    <3>2. CASE \E m \in Messages : Receive(h, m) \/ Ignore(h, m)
      BY <1>1, <2>1, <3>2, ReceiveBurst
    <3>3. CASE Record(h)
      BY <1>1, <1>2, <2>1, <3>3, RecordBurst
    <3>4. CASE Load(h)
      BY <1>1, <2>1, <3>4, LoadBurst
    <3>5. CASE Count(h)
      BY <1>1, <2>1, <3>5, CountBurst
    <3>6. CASE Cooldown(h)
      BY <1>1, <2>1, <3>6, CooldownBurst
    <3>7. CASE Prepare(h) \/ SendTextOk(h)
      BY <1>1, <2>1, <3>7, SendBurst
    <3>8. CASE Log(h)
      BY <1>1, <2>1, <3>8, LogBurst
    <3> QED
      BY <2>2, <3>1, <3>2, <3>3, <3>4, <3>5, <3>6, <3>7, <3>8 DEF HandleIncoming
  <2>3. ~Crash /\ ~Operator
    BY <2>1 DEF Crash, Operator, SaveGroup, DeleteGroup, SaveSettings
  <2>4. CASE Sweep \/ TimePasses \/ UNCHANGED vars
    BY <1>1, <1>2, <2>1, <2>4, ClockBurst
  <2> QED
    BY <2>2, <2>3, <2>4 DEF Next
<1> QED
  BY <1>3, <1>4

(* However many handlers race, as long as nothing fails and nothing is edited  *)
(* no burst goes unanswered, unless the evaluation window is longer than the   *)
(* week the evidence is kept: the last handler to record its wish counts       *)
(* everybody's, and it either echoes or finds a row young enough.              *)
THEOREM BurstsAreAnswered ==
  ASSUME \A s \in EchoSettings : s.window <= Retention
  PROVE  Spec => []BurstIsAnswered
<1>1. Init => BurstInv
  <2> SUFFICES ASSUME Init PROVE BurstInv
    OBVIOUS
  <2>1. \A h \in Handlers : Agrees(h)
    BY DEF Init, Agrees
  <2>2. ASSUME NEW g \in GroupIds, Exists(g)
        PROVE  Below(g)
    <3>1. Wishers(g) = {}
      BY DEF Wishers, Burst, Init
    <3>2. Cardinality(Wishers(g)) = 0
      BY <3>1, FS_EmptySet
    <3>3. groups[g].threshold \in Thresholds \cup {NoThreshold} /\ settings.threshold \in Nat \ {0}
      BY <2>2, SettingsAssumption DEF Init, Exists, Group
    <3>4. EffectiveThreshold(groups[g]) \in Nat \ {0}
      BY <3>3, SettingsAssumption DEF EffectiveThreshold, NoThreshold
    <3> QED
      BY <3>2, <3>4 DEF Below
  <2> QED
    BY <2>1, <2>2 DEF Init, BurstInv
<1>2. EarnedInv /\ EarnedInv' /\ BurstInv /\ [Next]_vars => BurstInv'
  <2> SUFFICES ASSUME EarnedInv, EarnedInv', BurstInv, [Next]_vars PROVE BurstInv'
    OBVIOUS
  <2>1. settings.window <= Retention
    BY DEF EarnedInv, TypeOK
  <2> QED
    BY <2>1, BurstStep
<1>3. EarnedInv /\ BurstInv => BurstIsAnswered
  <2> SUFFICES ASSUME EarnedInv, BurstInv, Quiet, \A h \in Handlers : pc[h] = "idle",
                      NEW g \in GroupIds, Exists(g),
                      Cardinality(Wishers(g)) >= EffectiveThreshold(groups[g])
               PROVE  \E i \in EchoRows(g) : \A r \in Burst(g) : sendLog[i].at > r.at - settings.cooldown
    BY DEF BurstIsAnswered, Quiet, Burst, Wishers
  <2>1. \A h \in Handlers : ~Covers(h, g)
    BY DEF Covers, Deciding
  <2>2. ~Below(g)
    <3>1. TypeOK
      BY DEF EarnedInv
    <3>2. Cardinality(Wishers(g)) \in Nat
      BY <3>1, WishersFinite, FS_CardinalityType
    <3>3. groups[g].threshold \in Thresholds \cup {NoThreshold}
      BY DEF Exists, Group
    <3>4. settings.threshold \in Int /\ Thresholds \cup {NoThreshold} \subseteq Int
      BY <3>1, ClockTypes, SettingsAssumption DEF NoThreshold
    <3>5. EffectiveThreshold(groups[g]) \in Int
      BY <3>3, <3>4 DEF EffectiveThreshold
    <3> QED
      BY <3>2, <3>5 DEF Below
  <2>3. Answered(g)
    BY <2>1, <2>2 DEF BurstInv
  <2> QED
    BY <2>3 DEF Answered, Burst
<1> QED
  BY <1>1, <1>2, <1>3, EarnedInvariant, PTL DEF Spec

=============================================================================
