------------------------------ MODULE Settings ------------------------------
(***************************************************************************)
(* putSettings of internal/handlers over internal/service/settings and the *)
(* settings table.  A PUT is a long sequence of single-statement database  *)
(* calls with no transaction and no lock around them: two loads to build   *)
(* the new configuration, a write per key, one load for the answer and one *)
(* for factory.Rebuild.  Each call is one step; steps of several requests  *)
(* interleave, every call can fail, and the process can die between two.   *)
(***************************************************************************)
EXTENDS Sections

CONSTANTS
  Requests,             \* HTTP requests of PUT /api/settings
  MaxFaults, MaxStops   \* bounds on failed calls and on crashes

ASSUME BoundAssumption == MaxFaults \in Nat /\ MaxStops \in Nat

VARIABLES
  stored,   \* the settings table, one value per key (absent reads as the default)
  active,   \* the provider the manager holds
  pc,       \* the call a request makes next
  req,      \* its payload
  loaded,   \* the configuration its current Load has put together so far
  left,     \* the keys this Load, or this Save, has not reached yet
  next,     \* the document merge, and then Save, works on
  spent     \* faults and stops so far

vars == <<stored, active, pc, req, loaded, left, next, spent>>
\* LoadMasked of putSettings, Load and the writes of Save, LoadMasked for the
\* answer, Load for the rebuild.
Labels == {"idle", "base", "current", "write", "answer", "plain"}
Loads == {"base", "current", "plain"}

TypeOK ==
  /\ stored \in [Keys -> StoredSection]
  /\ active \in Providers \cup {None}
  /\ pc \in [Requests -> Labels]
  /\ req \in [Requests -> Payloads \cup {None}]
  /\ loaded \in [Requests -> Config]
  /\ left \in [Requests -> SUBSET Keys]
  /\ next \in [Requests -> [Keys -> Document]]
  /\ spent \in [faults: 0 .. MaxFaults, stops: 0 .. MaxStops]

Opened == [k \in Keys |-> Decrypt(stored[k])]
Serving(config) == IF Buildable(config) THEN Build(config) ELSE None

Init ==
  /\ stored = [k \in Keys |-> Encrypt(DefaultConfig[k])]
  /\ active = Serving(Opened)
  /\ pc = [r \in Requests |-> "idle"]
  /\ req = [r \in Requests |-> None]
  /\ loaded = [r \in Requests |-> DefaultConfig]
  /\ left = [r \in Requests |-> {}]
  /\ next = [r \in Requests |-> DefaultConfig]
  /\ spent = [faults |-> 0, stops |-> 0]

-----------------------------------------------------------------------------
(* Helpers *)

SpendFault ==
  /\ spent.faults < MaxFaults
  /\ spent' = [spent EXCEPT !.faults = @ + 1]

\* Mutant: Load starts from the zero Settings, not from Defaults().
StartLoadEmpty(r, label) ==
  /\ pc' = [pc EXCEPT ![r] = label]
  /\ loaded' = [loaded EXCEPT ![r] = [k \in Keys |-> [id |-> Blank, mode |-> "", secret |-> Empty]]]
  /\ left' = [left EXCEPT ![r] = Keys]

\* Load starts from Defaults() and has every key to read.
StartLoad(r, label) ==
  /\ pc' = [pc EXCEPT ![r] = label]
  /\ loaded' = [loaded EXCEPT ![r] = DefaultConfig]
  /\ left' = [left EXCEPT ![r] = Keys]

\* The request is answered; its locals are gone.
Finish(r) ==
  /\ pc' = [pc EXCEPT ![r] = "idle"]
  /\ req' = [req EXCEPT ![r] = None]
  /\ loaded' = [loaded EXCEPT ![r] = DefaultConfig]
  /\ left' = [left EXCEPT ![r] = {}]
  /\ next' = [next EXCEPT ![r] = DefaultConfig]

\* Save and Load take the provider key first, the others in map order.
InOrder(r, k) == k \in left[r] /\ ("provider" \in left[r] => k = "provider")

\* Mutant: a section the client did not send is the zero value.
mergeZero(doc, base) ==
  [k \in Keys |->
    IF k \in DOMAIN doc THEN doc[k]
    ELSE [id |-> base[k].id, mode |-> base[k].mode, secret |-> Empty]]

\* The sections the client sent over the masked configuration.
merge(doc, base) ==
  [k \in Keys |-> IF k \in DOMAIN doc THEN doc[k] ELSE Masked(base[k])]

-----------------------------------------------------------------------------
(* PUT /api/settings *)

PutSettings(r, doc) ==
  /\ pc[r] = "idle"
  /\ req' = [req EXCEPT ![r] = doc]
  /\ StartLoad(r, "base")
  /\ UNCHANGED <<stored, active, next, spent>>

\* GetSetting, inside a Load, and the decryption of its secret.
GetSetting(r, k) ==
  /\ pc[r] \in Loads /\ InOrder(r, k)
  /\ loaded' = [loaded EXCEPT ![r][k] = Decrypt(stored[k])]
  /\ left' = [left EXCEPT ![r] = @ \ {k}]
  /\ UNCHANGED <<stored, active, pc, req, next, spent>>

\* The base is complete: merge, and Save loads again.
Merge(r) ==
  /\ pc[r] = "base" /\ left[r] = {}
  /\ next' = [next EXCEPT ![r] = merge(req[r], loaded[r])]
  /\ StartLoad(r, "current")
  /\ UNCHANGED <<stored, active, req, spent>>

\* Mutant: Save leaves the masks as they came.
SaveUnresolved(r) ==
  /\ pc[r] = "current" /\ left[r] = {}
  /\ IF validate(next[r])
     THEN /\ pc' = [pc EXCEPT ![r] = "write"]
          /\ left' = [left EXCEPT ![r] = Keys]
          /\ UNCHANGED <<req, loaded, next>>
     ELSE Finish(r)
  /\ UNCHANGED <<stored, active, spent>>

\* Save: masks resolved against what it has loaded, then validation.
Save(r) ==
  LET resolved == [k \in Keys |-> Resolve(next[r][k], loaded[r][k])]
  IN /\ pc[r] = "current" /\ left[r] = {}
     /\ IF validate(resolved)
        THEN /\ next' = [next EXCEPT ![r] = resolved]
             /\ pc' = [pc EXCEPT ![r] = "write"]
             /\ left' = [left EXCEPT ![r] = Keys]
             /\ UNCHANGED <<req, loaded>>
        ELSE Finish(r)
     /\ UNCHANGED <<stored, active, spent>>

\* One upsert of Save.  After the last, putSettings loads for the answer.
SetSetting(r, k) ==
  /\ pc[r] = "write" /\ InOrder(r, k)
  /\ stored' = [stored EXCEPT ![k] = Encrypt(next[r][k])]
  /\ left' = [left EXCEPT ![r] = @ \ {k}]
  /\ pc' = [pc EXCEPT ![r] = IF left[r] = {k} THEN "answer" ELSE "write"]
  /\ UNCHANGED <<active, req, loaded, next, spent>>

\* LoadMasked for the answer: what it reads goes to the client only.
LoadAnswer(r) ==
  /\ pc[r] = "answer"
  /\ StartLoad(r, "plain")
  /\ UNCHANGED <<stored, active, req, next, spent>>

\* Mutant: the rebuild works from the request's document, not from a fresh Load.
RebuildFromRequest(r) ==
  /\ pc[r] = "plain" /\ left[r] = {}
  /\ active' = IF Buildable(merge(req[r], loaded[r]))
               THEN Build(merge(req[r], loaded[r])) ELSE active
  /\ Finish(r)
  /\ UNCHANGED <<stored, spent>>

\* factory.Rebuild: a configuration it cannot build leaves the provider there was.
Rebuild(r) ==
  /\ pc[r] = "plain" /\ left[r] = {}
  /\ active' = IF Buildable(loaded[r]) THEN Build(loaded[r]) ELSE active
  /\ Finish(r)
  /\ UNCHANGED <<stored, spent>>

\* A database call fails: the request ends there, whatever it has written.
CallFails(r) ==
  /\ pc[r] \in Loads \cup {"write", "answer"} /\ (left[r] = {} => pc[r] = "answer")
  /\ SpendFault
  /\ Finish(r)
  /\ UNCHANGED <<stored, active>>

\* A new process: no request is under way, and main builds the provider of
\* the stored settings.
Boot ==
  /\ active' = Serving(Opened)
  /\ pc' = [r \in Requests |-> "idle"]
  /\ req' = [r \in Requests |-> None]
  /\ loaded' = [r \in Requests |-> DefaultConfig]
  /\ left' = [r \in Requests |-> {}]
  /\ next' = [r \in Requests |-> DefaultConfig]
  /\ UNCHANGED stored

Crash ==
  /\ spent.stops < MaxStops
  /\ spent' = [spent EXCEPT !.stops = @ + 1]
  /\ Boot

PutStep(r) ==
  \/ \E doc \in Payloads : PutSettings(r, doc)
  \/ \E k \in Keys : GetSetting(r, k)
  \/ Merge(r)
  \/ Save(r)
  \/ \E k \in Keys : SetSetting(r, k)
  \/ LoadAnswer(r)
  \/ CallFails(r)

Next ==
  \/ \E r \in Requests : PutStep(r)
  \/ \E r \in Requests : Rebuild(r)
  \/ Crash

Spec == Init /\ [][Next]_vars

-----------------------------------------------------------------------------
(* Properties *)

\* The mask is a stand-in: it is never what the table or the provider in use
\* holds as a credential, however requests overlap and wherever they are cut.
MaskStaysOutside ==
  /\ \A k \in Keys : stored[k].secret \in {Empty} \cup [sealed: Secrets]
  /\ active # None => active.section.secret # Mask

\* Every section in the table passes validation, so the next process can
\* start from it, also after a save that stopped half-way.
StoredIsValid == \A k \in Keys : <<k, stored[k].id>> \notin Refused

\* The document being saved, when there is one request at a time.
Saving ==
  IF \E r \in Requests : pc[r] # "idle"
  THEN req[CHOOSE r \in Requests : pc[r] # "idle"]
  ELSE None

\* With one request at a time, the loads, the merge, the mask, the writes of
\* Save and the rebuild together are the atomic sections of ConfigStore.
Store == INSTANCE ConfigStore WITH config <- Opened, put <- Saving
SavesAsPromised == Store!Spec

\* What the comment on settingsRequest says of a section the client did not
\* send (handlers/settings.go:20): it keeps its stored value.
AbsentSectionKept ==
  [][\A r \in Requests, k \in Keys :
       SetSetting(r, k) /\ k \notin DOMAIN req[r] => stored'[k] = stored[k]]_vars
=============================================================================
