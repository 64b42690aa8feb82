--------------------------- MODULE OutboundProofs ---------------------------
(***************************************************************************)
(* Theorems about Outbound, for every number of calls, attempts and        *)
(* providers, every interval and every lag of the timers: its type         *)
(* correctness, the spacing of what passes one limiter, and what a call's  *)
(* answer says of the messages that went out.                              *)
(***************************************************************************)
EXTENDS Outbound, TLAPS

Waiting(c) == pc[c] = "wait"

\* What a call that is where c is has done so far.
CopyInv(c) ==
  /\ pc[c] \in {"new", "ready", "wait"} => tries[c] = 0 /\ faults[c] = 0 /\ copies[c] = 0
  /\ pc[c] = "attempt" => /\ tries[c] \in 1 .. Attempts /\ faults[c] = tries[c] - 1
                          /\ copies[c] <= faults[c]
  /\ pc[c] = "sleep" => /\ tries[c] \in 1 .. Attempts - 1 /\ faults[c] = tries[c]
                        /\ copies[c] <= faults[c]
  /\ pc[c] = "ok" => copies[c] >= 1 /\ copies[c] <= faults[c] + 1
  /\ pc[c] = "failed" => copies[c] <= faults[c]
  /\ pc[c] = "aborted" => copies[c] <= faults[c] + 1

\* A call past Active holds a provider, and one that waits a slot of its
\* limiter, which the limiter has behind it.
SlotInv(c) ==
  /\ pc[c] \in {"ready", "wait"} => via[c] \in Installs
  /\ Waiting(c) => /\ slot[c] + Interval <= free[via[c]]
                   /\ now <= slot[c] + MaxLag
                   /\ last[via[c]] # Never /\ MaxLag < Interval
                        => slot[c] >= last[via[c]] + (Interval - MaxLag)

\* Slots of one limiter are an interval apart.
SlotsApart ==
  \A c, d \in Calls :
    c # d /\ Waiting(c) /\ Waiting(d) /\ via[c] = via[d]
      => slot[c] + Interval <= slot[d] \/ slot[d] + Interval <= slot[c]

\* A limiter's next token is an interval behind the last call it let through.
LastInv ==
  \A i \in Installs :
    last[i] # Never => /\ last[i] <= now
                       /\ MaxLag < Interval => last[i] + (Interval - MaxLag) <= free[i]

IInv ==
  /\ TypeOK
  /\ \A c \in Calls : CopyInv(c)
  /\ \A c \in Calls : SlotInv(c)
  /\ SlotsApart
  /\ LastInv

\* Every initial state satisfies the invariant.
LEMMA InitInv == Init => IInv
BY IntervalAssumption, AttemptsAssumption, BoundsAssumption
   DEF Init, IInv, TypeOK, CopyInv, SlotInv, SlotsApart, LastInv, Waiting, Phases, Instants,
       Installs, NoProvider, Never

\* A limiter hands out an instant.
LEMMA NextSlotType ==
  ASSUME IInv, NEW i \in Installs
  PROVE  NextSlot(i) \in Nat /\ NextSlot(i) >= now /\ NextSlot(i) >= free[i]
BY BoundsAssumption DEF IInv, TypeOK, NextSlot, Instants

\* The end of a call keeps the types of what it resets.
LEMMA FinishType ==
  ASSUME IInv, NEW c \in Calls, NEW phase \in Phases, Finish(c, phase)
  PROVE  /\ pc' \in [Calls -> Phases] /\ via' \in [Calls -> Installs \cup {NoProvider}]
         /\ slot' \in [Calls -> Nat] /\ tries' \in [Calls -> 0 .. Attempts]
         /\ deadline' \in [Calls -> Nat] /\ cancelled' \subseteq Calls
BY AttemptsAssumption DEF Finish, IInv, TypeOK

\* Each action keeps the types.
LEMMA TypeStep == IInv /\ [Next]_vars => TypeOK'
<1> SUFFICES ASSUME IInv, [Next]_vars PROVE TypeOK'
  OBVIOUS
<1> USE IntervalAssumption, AttemptsAssumption, BoundsAssumption
<1>1. ASSUME NEW c \in Calls, Active(c) PROVE TypeOK'
  <2>1. CASE Finish(c, "failed")
    BY <1>1, <2>1, FinishType DEF Active, IInv, TypeOK, Phases, manager, outcome
  <2>2. CASE active # NoProvider
    <3>1. active \in Installs
      BY <2>2 DEF IInv, TypeOK, Installs, NoProvider
    <3>2. \A left \in TimeLimits : now + left \in Nat
      BY DEF IInv, TypeOK, Instants
    <3>3. deadline' \in [Calls -> Nat] /\ pc' \in [Calls -> Phases]
          /\ via' \in [Calls -> Installs \cup {NoProvider}]
      BY <1>1, <2>2, <3>1, <3>2 DEF Active, IInv, TypeOK, Phases
    <3> QED BY <1>1, <2>2, <3>3 DEF Active, IInv, TypeOK, manager, outcome
  <2> QED BY <1>1, <2>1, <2>2 DEF Active
<1>2. ASSUME NEW c \in Calls, Reserve(c) PROVE TypeOK'
  <2>1. via[c] \in Installs
    BY <1>2 DEF Reserve, IInv, SlotInv
  <2>2. NextSlot(via[c]) \in Nat
    BY <2>1, NextSlotType
  <2>3. CASE Finish(c, "aborted") /\ UNCHANGED free
    BY <1>2, <2>3, FinishType DEF Reserve, IInv, TypeOK, Phases, manager, outcome
  <2>4. CASE Goto(c, "wait") /\ UNCHANGED tries
             /\ slot' = [slot EXCEPT ![c] = NextSlot(via[c])]
             /\ free' = [free EXCEPT ![via[c]] = NextSlot(via[c]) + Interval]
    BY <1>2, <2>1, <2>2, <2>4 DEF Reserve, Goto, context, IInv, TypeOK, Phases, manager, outcome
  <2> QED BY <1>2, <2>3, <2>4 DEF Reserve
<1>3. ASSUME NEW c \in Calls, Dispatch(c) PROVE TypeOK'
  <2>1. via[c] \in Installs
    BY <1>3 DEF Dispatch, IInv, SlotInv
  <2> QED BY <1>3, <2>1 DEF Dispatch, Finish, Goto, context, IInv, TypeOK, Phases, NoProvider, manager, outcome
<1>4. ASSUME NEW c \in Calls, GiveUp(c) PROVE TypeOK'
  <2>1. free' \in [Installs -> Nat]
    BY <1>4 DEF GiveUp, IInv, TypeOK
  <2> QED BY <1>4, <2>1, FinishType DEF GiveUp, IInv, TypeOK, Phases, manager, outcome
<1>5. ASSUME NEW c \in Calls, AttemptOk(c) PROVE TypeOK'
  BY <1>5 DEF AttemptOk, Finish, Copies, IInv, TypeOK, CopyInv, Phases, NoProvider, manager
<1>6. ASSUME NEW c \in Calls, AttemptLost(c) PROVE TypeOK'
  BY <1>6 DEF AttemptLost, Fault, Finish, Goto, context, Copies, IInv, TypeOK, CopyInv, Phases, NoProvider, manager
<1>7. ASSUME NEW c \in Calls, AttemptRefused(c) PROVE TypeOK'
  BY <1>7 DEF AttemptRefused, Fault, Finish, Copies, IInv, TypeOK, CopyInv, Phases, NoProvider, manager
<1>8. ASSUME NEW c \in Calls, Abort(c) PROVE TypeOK'
  BY <1>8 DEF Abort, Finish, Copies, IInv, TypeOK, CopyInv, Phases, NoProvider, manager
<1>9. ASSUME NEW c \in Calls, Retry(c) PROVE TypeOK'
  BY <1>9 DEF Retry, Finish, Goto, context, IInv, TypeOK, CopyInv, Phases, NoProvider, manager, outcome
<1>10. ASSUME NEW c \in Calls, Cancel(c) PROVE TypeOK'
  BY <1>10 DEF Cancel, IInv, TypeOK, manager, limiter, outcome
<1>11. CASE Rebuild
  BY <1>11 DEF Rebuild, IInv, TypeOK, context, limiter, outcome, NoProvider
<1>12. CASE Restart
  BY <1>12 DEF Restart, IInv, TypeOK, outcome, Phases, NoProvider
<1>13. CASE TimePasses
  BY <1>13 DEF TimePasses, IInv, TypeOK, manager, limiter, context, outcome, Instants
<1>14. CASE UNCHANGED vars
  BY <1>14 DEF vars, IInv, TypeOK
<1> QED
  BY <1>1, <1>2, <1>3, <1>4, <1>5, <1>6, <1>7, <1>8, <1>9, <1>10, <1>11, <1>12, <1>13, <1>14
     DEF Next, SendText

-----------------------------------------------------------------------------
(* What calls have done *)

\* Every step keeps what each call has copied.
LEMMA CopyStep == IInv /\ [Next]_vars => \A c \in Calls : CopyInv(c)'
<1> SUFFICES ASSUME IInv, [Next]_vars, NEW e \in Calls PROVE CopyInv(e)'
  OBVIOUS
<1> USE AttemptsAssumption DEF IInv, TypeOK, CopyInv, Phases
<1>1. ASSUME NEW c \in Calls, Active(c) PROVE CopyInv(e)'
  BY <1>1 DEF Active, Finish, outcome
<1>2. ASSUME NEW c \in Calls, Reserve(c) PROVE CopyInv(e)'
  BY <1>2 DEF Reserve, Finish, Goto, outcome
<1>3. ASSUME NEW c \in Calls, Dispatch(c) PROVE CopyInv(e)'
  BY <1>3 DEF Dispatch, Finish, Goto, outcome
<1>4. ASSUME NEW c \in Calls, GiveUp(c) PROVE CopyInv(e)'
  BY <1>4 DEF GiveUp, Finish, outcome
<1>5. ASSUME NEW c \in Calls, AttemptOk(c) PROVE CopyInv(e)'
  BY <1>5 DEF AttemptOk, Finish, Copies
<1>6. ASSUME NEW c \in Calls, AttemptLost(c) PROVE CopyInv(e)'
  <2>1. CASE AnotherAttempt(c) /\ Goto(c, "sleep") /\ UNCHANGED tries
    BY <1>6, <2>1 DEF AttemptLost, AnotherAttempt, Fault, Goto, Copies
  <2>2. CASE Finish(c, "aborted") \/ Finish(c, "failed")
    BY <1>6, <2>2 DEF AttemptLost, Fault, Finish, Copies
  <2> QED BY <1>6, <2>1, <2>2 DEF AttemptLost
<1>7. ASSUME NEW c \in Calls, AttemptRefused(c) PROVE CopyInv(e)'
  BY <1>7 DEF AttemptRefused, Fault, Finish, Copies
<1>8. ASSUME NEW c \in Calls, Abort(c) PROVE CopyInv(e)'
  BY <1>8 DEF Abort, Finish, Copies
<1>9. ASSUME NEW c \in Calls, Retry(c) PROVE CopyInv(e)'
  BY <1>9 DEF Retry, Finish, Goto, outcome
<1>10. ASSUME NEW c \in Calls, Cancel(c) PROVE CopyInv(e)'
  BY <1>10 DEF Cancel, outcome
<1>11. CASE Rebuild
  BY <1>11 DEF Rebuild, outcome
<1>12. CASE Restart
  BY <1>12 DEF Restart, UnderWay, outcome
<1>13. CASE TimePasses
  BY <1>13 DEF TimePasses, outcome
<1>14. CASE UNCHANGED vars
  BY <1>14 DEF vars
<1> QED
  BY <1>1, <1>2, <1>3, <1>4, <1>5, <1>6, <1>7, <1>8, <1>9, <1>10, <1>11, <1>12, <1>13, <1>14
     DEF Next, SendText

-----------------------------------------------------------------------------
(* Spacing *)

Spacing == (\A c \in Calls : SlotInv(c)) /\ SlotsApart /\ LastInv

\* A step that leaves the limiters alone and lets nobody wait who did not.
LEMMA QuietStep ==
  ASSUME IInv, UNCHANGED <<now, free, last>>,
         \A c \in Calls : /\ pc'[c] \in {"ready", "wait"} => via'[c] \in Installs
                          /\ pc'[c] = "wait" => pc[c] = "wait" /\ via'[c] = via[c] /\ slot'[c] = slot[c]
  PROVE  Spacing'
<1>0. \A c \in Calls : Waiting(c)' => Waiting(c) /\ via'[c] = via[c] /\ slot'[c] = slot[c]
  BY DEF Waiting
<1>1. \A c \in Calls : SlotInv(c)'
  <2> SUFFICES ASSUME NEW c \in Calls PROVE SlotInv(c)'
    OBVIOUS
  <2>1. CASE Waiting(c)'
    BY <1>0, <2>1 DEF IInv, TypeOK, SlotInv
  <2>2. CASE ~Waiting(c)'
    BY <2>2 DEF SlotInv
  <2> QED BY <2>1, <2>2
<1>2. SlotsApart'
  BY <1>0 DEF IInv, TypeOK, SlotsApart
<1>3. LastInv'
  BY DEF IInv, LastInv
<1> QED BY <1>1, <1>2, <1>3 DEF Spacing

\* A reserved slot lies an interval behind every other of its limiter.
LEMMA ReserveSpacing ==
  ASSUME IInv, NEW c \in Calls, Reserve(c)
  PROVE  Spacing'
<1>1. CASE Finish(c, "aborted") /\ UNCHANGED free
  BY <1>1, QuietStep DEF Reserve, Finish, IInv, TypeOK, SlotInv
<1>2. CASE Goto(c, "wait") /\ UNCHANGED tries
           /\ slot' = [slot EXCEPT ![c] = NextSlot(via[c])]
           /\ free' = [free EXCEPT ![via[c]] = NextSlot(via[c]) + Interval]
  <2> DEFINE turn == NextSlot(via[c])
  <2>1. via[c] \in Installs
    BY DEF Reserve, IInv, SlotInv
  <2>2. turn \in Nat /\ turn >= now /\ turn >= free[via[c]]
    BY <2>1, NextSlotType
  <2>3. /\ pc' = [pc EXCEPT ![c] = "wait"] /\ via' = via /\ slot' = [slot EXCEPT ![c] = turn]
        /\ free' = [free EXCEPT ![via[c]] = turn + Interval] /\ now' = now /\ last' = last
        /\ pc[c] = "ready"
    BY <1>2 DEF Reserve, Goto
  <2> HIDE DEF turn
  <2> USE <2>1, <2>2, <2>3, IntervalAssumption, BoundsAssumption DEF IInv, TypeOK, SlotInv, SlotsApart, LastInv, Waiting, Instants
  <2>4. \A d \in Calls : SlotInv(d)'
    OBVIOUS
  <2>5. SlotsApart'
    OBVIOUS
  <2>6. LastInv'
    OBVIOUS
  <2> QED BY <2>4, <2>5, <2>6 DEF Spacing
<1> QED BY <1>1, <1>2 DEF Reserve

\* What takes its turn keeps that distance.
LEMMA DispatchSpacing ==
  ASSUME IInv, NEW c \in Calls, Dispatch(c)
  PROVE  Spacing'
<1>1. CASE Finish(c, "aborted") /\ UNCHANGED last
  BY <1>1, QuietStep DEF Dispatch, Finish, IInv, TypeOK, SlotInv
<1>2. CASE Goto(c, "attempt") /\ last' = [last EXCEPT ![via[c]] = now]
           /\ slot' = [slot EXCEPT ![c] = 0]
  <2>1. via[c] \in Installs
    BY DEF Dispatch, IInv, SlotInv
  <2>2. /\ pc' = [pc EXCEPT ![c] = "attempt"] /\ via' = via /\ free' = free /\ now' = now
        /\ now >= slot[c] /\ pc[c] = "wait"
    BY <1>2 DEF Dispatch, Goto
  <2> USE <1>2, <2>1, <2>2, IntervalAssumption, BoundsAssumption DEF IInv, TypeOK, SlotInv, SlotsApart, LastInv, Waiting, Instants
  <2>4. \A d \in Calls : SlotInv(d)'
    OBVIOUS
  <2>5. SlotsApart'
    OBVIOUS
  <2>6. LastInv'
    OBVIOUS
  <2> QED BY <2>4, <2>5, <2>6 DEF Spacing
<1> QED BY <1>1, <1>2 DEF Dispatch

\* So does a call that gives up its slot.
LEMMA GiveUpSpacing ==
  ASSUME IInv, NEW c \in Calls, GiveUp(c)
  PROVE  Spacing'
<1>1. CASE free' = free
  BY <1>1, QuietStep DEF GiveUp, Finish, IInv, TypeOK, SlotInv
<1>2. CASE free[via[c]] = slot[c] + Interval /\ free' = [free EXCEPT ![via[c]] = slot[c]]
  <2>1. via[c] \in Installs
    BY DEF GiveUp, IInv, SlotInv
  <2>2. /\ pc' = [pc EXCEPT ![c] = "aborted"] /\ via' = [via EXCEPT ![c] = NoProvider]
        /\ slot' = [slot EXCEPT ![c] = 0] /\ now' = now /\ last' = last /\ pc[c] = "wait"
    BY DEF GiveUp, Finish
  <2> USE <1>2, <2>1, <2>2, IntervalAssumption, BoundsAssumption DEF IInv, TypeOK, SlotInv, SlotsApart, LastInv, Waiting, Instants
  <2>4. \A d \in Calls : SlotInv(d)'
    OBVIOUS
  <2>5. SlotsApart'
    OBVIOUS
  <2>6. LastInv'
    OBVIOUS
  <2> QED BY <2>4, <2>5, <2>6 DEF Spacing
<1> QED BY <1>1, <1>2 DEF GiveUp

\* No step brings two slots closer.
LEMMA SpacingStep == IInv /\ [Next]_vars => Spacing'
<1> SUFFICES ASSUME IInv, [Next]_vars PROVE Spacing'
  OBVIOUS
<1>1. ASSUME NEW c \in Calls, Active(c) PROVE Spacing'
  <2>1. active # NoProvider => active \in Installs
    BY DEF IInv, TypeOK, Installs, NoProvider
  <2> QED BY <1>1, <2>1, QuietStep DEF Active, Finish, IInv, TypeOK, SlotInv
<1>2. ASSUME NEW c \in Calls, \/ AttemptOk(c) \/ AttemptLost(c) \/ AttemptRefused(c)
                              \/ Abort(c) \/ Retry(c)
      PROVE  Spacing'
  BY <1>2, QuietStep DEF AttemptOk, AttemptLost, AttemptRefused, Abort, Retry, Finish, Goto, IInv, TypeOK, SlotInv
<1>3. ASSUME NEW c \in Calls, Cancel(c) PROVE Spacing'
  BY <1>3, QuietStep DEF Cancel, IInv, TypeOK, SlotInv, limiter
<1>4. CASE Rebuild
  BY <1>4, QuietStep DEF Rebuild, IInv, TypeOK, SlotInv, limiter
<1>5. CASE Restart
  BY <1>5, QuietStep DEF Restart, UnderWay, IInv, TypeOK
<1>6. CASE TimePasses
  BY <1>6, IntervalAssumption, BoundsAssumption
     DEF TimePasses, limiter, IInv, TypeOK, Spacing, SlotInv, SlotsApart, LastInv, Waiting, Instants
<1>7. CASE UNCHANGED vars
  BY <1>7, QuietStep DEF vars, IInv, SlotInv
<1> QED
  BY <1>1, <1>2, <1>3, <1>4, <1>5, <1>6, <1>7, ReserveSpacing, DispatchSpacing, GiveUpSpacing
     DEF Next, SendText

-----------------------------------------------------------------------------
(* The theorems *)

\* The invariant holds of every reachable state.
THEOREM Invariance == Spec => []IInv
<1>1. IInv /\ [Next]_vars => IInv'
  BY TypeStep, CopyStep, SpacingStep DEF IInv, Spacing
<1> QED BY <1>1, InitInv, PTL DEF Spec

\* Every variable keeps its type; slots and free instants are never negative, and
\* no call makes or delivers more than Attempts attempts.
THEOREM TypeCorrect == Spec => []TypeOK
BY Invariance, PTL DEF IInv

\* An answer of SendText bounds the messages that went out: what Scheduler's
\* and GroupEcho's SendTextOk and SendTextFails assume of the layers below.
THEOREM AnswersAreHonest == Spec => []AnswersBoundCopies
<1>1. IInv => AnswersBoundCopies
  BY DEF IInv, TypeOK, CopyInv, AnswersBoundCopies
<1> QED BY <1>1, Invariance, PTL

\* Nothing passes a limiter within an interval of what passed before it.
THEOREM SendsArePaced == Spec => Paced
<1> DEFINE Gap ==
      \A c \in Calls :
        pc[c] = "wait" /\ pc'[c] = "attempt" =>
          \/ last[via[c]] = Never
          \/ now >= last[via[c]] + (Interval - MaxLag)
<1>1. IInv /\ [Next]_vars => Gap
  <2> SUFFICES ASSUME IInv, [Next]_vars, NEW d \in Calls, pc[d] = "wait", pc'[d] = "attempt",
                      last[via[d]] # Never
               PROVE  now >= last[via[d]] + (Interval - MaxLag)
    OBVIOUS
  <2>1. now >= slot[d]
    BY DEF Next, SendText, vars, Active, Reserve, Dispatch, GiveUp, AttemptOk, AttemptLost,
           AttemptRefused, Abort, Retry, Cancel, Rebuild, Restart, TimePasses, Finish, Goto, IInv,
           TypeOK, UnderWay, limiter
  <2>2. via[d] \in Installs
    BY DEF IInv, SlotInv
  <2> QED BY <2>1, <2>2, IntervalAssumption DEF IInv, TypeOK, SlotInv, LastInv, Waiting, Instants
<1>2. IInv /\ [Next]_vars => [Gap]_vars
  BY <1>1
<1> QED BY <1>2, Invariance, PTL DEF Spec, Paced
=============================================================================
