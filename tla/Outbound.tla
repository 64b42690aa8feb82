------------------------------ MODULE Outbound ------------------------------
(***************************************************************************)
(* The way out of internal/provider: the Manager that names the active     *)
(* provider, the rate limiter the factory wraps every provider in, and the *)
(* retrying Transport under both clients.  A call is one SendText, made by *)
(* a tick's deliver, an echo's postEcho or the settings page's test        *)
(* message; calls run concurrently and each has a context of its own.      *)
(*                                                                         *)
(* Time is counted in ticks.  Only the limiter measures it: how long an    *)
(* attempt or a backoff lasts is left open.                                *)
(***************************************************************************)
EXTENDS Integers, FiniteSets

CONSTANTS
  Calls,        \* calls of SendText
  Interval,     \* DefaultSendInterval: one token per Interval, a burst of one
  MaxLag,       \* how late a timer can wake its goroutine
  Attempts,     \* Transport.attempts
  TimeLimits,   \* how long a context can have left when its call begins
  MaxFaults, MaxCancels,  \* bounds on failed attempts and cancelled contexts
  MaxInstalls,  \* bound on the providers installed, one after the other
  LastInstant   \* the clock runs through the instants 0 .. LastInstant

ASSUME IntervalAssumption == Interval \in Nat /\ MaxLag \in Nat
ASSUME AttemptsAssumption == Attempts \in Nat \ {0}
ASSUME BoundsAssumption ==
  /\ TimeLimits \subseteq Nat /\ MaxFaults \in Nat /\ MaxCancels \in Nat
  /\ MaxInstalls \in Nat \ {0} /\ LastInstant \in Nat

Instants == 0 .. LastInstant
\* Every Rebuild installs a provider with a limiter of its own.
Installs == 1 .. MaxInstalls
NoProvider == 0
\* A limiter that let no call through yet.
Never == -1
Phases == {"new", "ready", "wait", "attempt", "sleep", "ok", "failed", "aborted", "gone"}

VARIABLES
  now,        \* the monotonic clock
  installed,  \* how many providers were installed so far
  active,     \* Manager.active: the latest of them, or none
  free,       \* free[i]: when limiter i has its token back
  pc,         \* pc[c]: where call c is
  via,        \* via[c]: the provider Active gave to c
  deadline,   \* deadline[c]: when c's context ends by itself
  cancelled,  \* the calls whose context was cancelled
  slot,       \* slot[c]: the instant the limiter reserved for c
  last,       \* last[i]: when limiter i last let a call through (history)
  tries,      \* tries[c]: attempts c has begun
  copies,     \* copies[c]: messages of c the gateway delivered (history)
  faults,     \* faults[c]: attempts of c that failed (history)
  spent       \* how many attempts and contexts failed so far

vars == <<now, installed, active, free, pc, via, deadline, cancelled, slot,
          last, tries, copies, faults, spent>>
manager == <<installed, active>>
context == <<deadline, cancelled>>
limiter == <<free, last, slot>>
outcome == <<copies, faults>>

TypeOK ==
  /\ now \in Instants
  /\ installed \in 0 .. MaxInstalls
  /\ active \in {NoProvider, installed}
  /\ free \in [Installs -> Nat]
  /\ pc \in [Calls -> Phases]
  /\ via \in [Calls -> Installs \cup {NoProvider}]
  /\ deadline \in [Calls -> Nat]
  /\ cancelled \subseteq Calls
  /\ slot \in [Calls -> Nat]
  /\ last \in [Installs -> Instants \cup {Never}]
  /\ tries \in [Calls -> 0 .. Attempts]
  /\ copies \in [Calls -> 0 .. Attempts]
  /\ faults \in [Calls -> 0 .. Attempts]
  /\ spent \in [faults: 0 .. MaxFaults, cancels: 0 .. MaxCancels]

Init ==
  /\ now = 0
  /\ installed \in {0, 1} /\ active = installed
  /\ free = [i \in Installs |-> 0]
  /\ pc = [c \in Calls |-> "new"]
  /\ via = [c \in Calls |-> NoProvider]
  /\ deadline = [c \in Calls |-> 0]
  /\ cancelled = {}
  /\ slot = [c \in Calls |-> 0]
  /\ last = [i \in Installs |-> Never]
  /\ tries = [c \in Calls |-> 0]
  /\ copies = [c \in Calls |-> 0]
  /\ faults = [c \in Calls |-> 0]
  /\ spent = [faults |-> 0, cancels |-> 0]

-----------------------------------------------------------------------------
Done(c) == c \in cancelled \/ now >= deadline[c]
UnderWay(c) == pc[c] \in {"ready", "wait", "attempt", "sleep"}
Goto(c, phase) == pc' = [pc EXCEPT ![c] = phase] /\ UNCHANGED <<via, context>>

\* SendText returns, and its locals and its context go with it.
Finish(c, phase) ==
  /\ pc' = [pc EXCEPT ![c] = phase]
  /\ via' = [via EXCEPT ![c] = NoProvider]
  /\ slot' = [slot EXCEPT ![c] = 0]
  /\ tries' = [tries EXCEPT ![c] = 0]
  /\ deadline' = [deadline EXCEPT ![c] = 0]
  /\ cancelled' = cancelled \ {c}

\* A failed attempt; the bound on them is in the guard.
Fault(c) ==
  /\ spent.faults < MaxFaults /\ spent' = [spent EXCEPT !.faults = @ + 1]
  /\ faults' = [faults EXCEPT ![c] = @ + 1]
Copies(c, n) == copies' = [copies EXCEPT ![c] = @ + n]

\* Manager.Active, and the context the caller was given.
Active(c) ==
  /\ pc[c] = "new"
  /\ \/ active = NoProvider /\ Finish(c, "failed")
     \/ /\ active # NoProvider
        /\ pc' = [pc EXCEPT ![c] = "ready"]
        /\ via' = [via EXCEPT ![c] = active]
        /\ \E left \in TimeLimits : deadline' = [deadline EXCEPT ![c] = now + left]
        /\ UNCHANGED <<cancelled, slot, tries>>
  /\ UNCHANGED <<now, manager, free, last, outcome, spent>>

\* Mutant: the calls that wait for their slots are forgotten.
NextSlotNoQueue(i) == now

\* When limiter i has a token for one more.
NextSlot(i) == IF free[i] > now THEN free[i] ELSE now

\* rateLimited.SendText, limiter.Wait: an ended context, or one that would end
\* before the token comes, is turned away at once and costs no token.
Reserve(c) ==
  LET turn == NextSlot(via[c])
  IN /\ pc[c] = "ready"
     /\ \/ (Done(c) \/ turn > deadline[c]) /\ Finish(c, "aborted") /\ UNCHANGED free
        \/ /\ ~Done(c) /\ turn <= deadline[c] /\ Goto(c, "wait")
           /\ slot' = [slot EXCEPT ![c] = turn]
           /\ free' = [free EXCEPT ![via[c]] = turn + Interval]
           /\ UNCHANGED tries
     /\ UNCHANGED <<now, manager, last, outcome, spent>>

\* Its timer fired: Wait returns and the client's SendText makes the first
\* attempt, unless the context has ended, which fails it before it goes out.
Dispatch(c) ==
  /\ pc[c] = "wait" /\ now >= slot[c]
  /\ \/ /\ ~Done(c) /\ Goto(c, "attempt")
        /\ last' = [last EXCEPT ![via[c]] = now]
        /\ tries' = [tries EXCEPT ![c] = 1]
        /\ slot' = [slot EXCEPT ![c] = 0]
     \/ Done(c) /\ Finish(c, "aborted") /\ UNCHANGED last
  /\ UNCHANGED <<now, manager, free, outcome, spent>>

\* Mutant: the token comes back although later calls were promised slots behind it.
GiveUpAnyToken(c) ==
  /\ pc[c] = "wait" /\ Done(c) /\ Finish(c, "aborted")
  /\ free' = [free EXCEPT ![via[c]] = slot[c]]
  /\ UNCHANGED <<now, manager, last, outcome, spent>>

\* The context ends first: Wait cancels its reservation, which gives the token
\* back when no later call was promised one after it.
GiveUp(c) ==
  /\ pc[c] = "wait" /\ Done(c) /\ Finish(c, "aborted")
  /\ free' = IF slot[c] >= now /\ free[via[c]] = slot[c] + Interval
             THEN [free EXCEPT ![via[c]] = slot[c]] ELSE free
  /\ UNCHANGED <<now, manager, last, outcome, spent>>

\* attemptOnce: any status below 400 with a body that could be read.  The code
\* does not tell a redirect from a 2xx; the gateway is assumed to answer so
\* only when it took the message.
AttemptOk(c) ==
  /\ pc[c] = "attempt" /\ Finish(c, "ok")
  /\ Copies(c, 1)
  /\ UNCHANGED <<now, manager, free, last, faults, spent>>

\* There is an attempt left and the context lasts.
AnotherAttempt(c) == tries[c] < Attempts /\ ~Done(c)

\* A network error, an unreadable body, a 5xx or 429: the gateway may have
\* taken the message all the same.
AttemptLost(c) ==
  /\ pc[c] = "attempt"
  /\ \/ AnotherAttempt(c) /\ Goto(c, "sleep") /\ UNCHANGED <<slot, tries>>
     \/ ~AnotherAttempt(c) /\ Finish(c, IF Done(c) THEN "aborted" ELSE "failed")
  /\ \E n \in {0, 1} : Copies(c, n)
  /\ Fault(c)
  /\ UNCHANGED <<now, manager, free, last>>

\* Mutant: the comparison with 400 is strict, a refusal passes as an answer.
AttemptRefusedOk(c) ==
  /\ pc[c] = "attempt" /\ Finish(c, "ok")
  /\ \E n \in {0, 1} : Copies(c, n)
  /\ Fault(c)
  /\ UNCHANGED <<now, manager, free, last>>

\* Another 4xx (nothing delivered), or a 2xx whose body is not JSON (delivered):
\* final.
AttemptRefused(c) ==
  /\ pc[c] = "attempt" /\ Finish(c, "failed")
  /\ \E n \in {0, 1} : Copies(c, n)
  /\ Fault(c)
  /\ UNCHANGED <<now, manager, free, last>>

\* The context ends during the attempt, before or after the gateway has it.
Abort(c) ==
  /\ pc[c] = "attempt" /\ Done(c) /\ Finish(c, "aborted")
  /\ \E n \in {0, 1} : Copies(c, n)
  /\ UNCHANGED <<now, manager, free, last, faults, spent>>

\* sleepCtx: the backoff is over and the next attempt begins, or the context
\* ended first.
Retry(c) ==
  /\ pc[c] = "sleep"
  /\ \/ ~Done(c) /\ Goto(c, "attempt") /\ tries' = [tries EXCEPT ![c] = @ + 1] /\ UNCHANGED slot
     \/ Done(c) /\ Finish(c, "aborted")
  /\ UNCHANGED <<now, manager, free, last, outcome, spent>>

-----------------------------------------------------------------------------
\* SIGTERM, a client that hangs up, a poller that is replaced.
Cancel(c) ==
  /\ UnderWay(c) /\ c \notin cancelled
  /\ spent.cancels < MaxCancels /\ spent' = [spent EXCEPT !.cancels = @ + 1]
  /\ cancelled' = cancelled \cup {c}
  /\ UNCHANGED <<now, manager, limiter, pc, via, deadline, tries, outcome>>

\* Mutant: the provider is built and never handed to the manager.
RebuildWithoutSet ==
  /\ installed < MaxInstalls
  /\ installed' = installed + 1
  /\ UNCHANGED <<now, active, limiter, pc, via, context, tries, outcome, spent>>

\* factory.Rebuild after saved settings: the new provider's limiter starts with
\* its token; calls under way keep the provider they were given.
Rebuild ==
  /\ installed < MaxInstalls
  /\ installed' = installed + 1 /\ active' = installed'
  /\ UNCHANGED <<now, limiter, pc, via, context, tries, outcome, spent>>

\* The process ends with every call under way, and the next one builds its
\* provider, if it can.
Restart ==
  /\ installed < MaxInstalls
  /\ installed' = installed + 1 /\ active' \in {NoProvider, installed'}
  /\ pc' = [c \in Calls |-> IF UnderWay(c) THEN "gone" ELSE pc[c]]
  /\ via' = [c \in Calls |-> NoProvider]
  /\ slot' = [c \in Calls |-> 0]
  /\ tries' = [c \in Calls |-> 0]
  /\ deadline' = [c \in Calls |-> 0]
  /\ cancelled' = {}
  /\ UNCHANGED <<now, free, last, outcome, spent>>

\* No timer is later than MaxLag.
TimePasses ==
  /\ now < LastInstant
  /\ \A c \in Calls : pc[c] = "wait" => now < slot[c] + MaxLag
  /\ now' = now + 1
  /\ UNCHANGED <<manager, limiter, pc, via, context, tries, outcome, spent>>

SendText(c) ==
  \/ Active(c) \/ Reserve(c) \/ Dispatch(c) \/ GiveUp(c)
  \/ AttemptOk(c) \/ AttemptLost(c) \/ AttemptRefused(c) \/ Abort(c) \/ Retry(c)

Next ==
  \/ \E c \in Calls : SendText(c) \/ Cancel(c)
  \/ Rebuild
  \/ Restart
  \/ TimePasses

Spec == Init /\ [][Next]_vars

-----------------------------------------------------------------------------
(* Properties *)

\* What is left of "one message every three seconds": no call passes a limiter
\* less than an interval (but for the lag of its timer) after another one, in
\* whatever order calls queue, run out of time and give their tokens back.  Two
\* calls closer than that go out through different providers, of which a settings
\* change or a restart replaced one.
Paced ==
  [][\A c \in Calls :
       pc[c] = "wait" /\ pc'[c] = "attempt" =>
         \/ last[via[c]] = Never
         \/ now >= last[via[c]] + (Interval - MaxLag)]_vars

\* What the callers may conclude from SendText's answer, and what the models of
\* scheduler and echo engine take for granted: success means one message, and
\* one more at most for every lost answer; an error means none but those, and
\* one more at most if the context ended during an attempt.
AnswersBoundCopies ==
  \A c \in Calls :
    /\ pc[c] = "ok" => copies[c] \in 1 .. Attempts /\ copies[c] <= faults[c] + 1
    /\ pc[c] = "failed" => copies[c] <= Attempts /\ copies[c] <= faults[c]
    /\ pc[c] = "aborted" => copies[c] <= Attempts /\ copies[c] <= faults[c] + 1
=============================================================================
