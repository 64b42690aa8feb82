--------------------------- MODULE SettingsProofs ---------------------------
(***************************************************************************)
(* Theorems of Settings for any number of overlapping requests, failed     *)
(* calls and crashes; and, for one request at a time, that it implements   *)
(* ConfigStore.                                                            *)
(***************************************************************************)
EXTENDS Settings, TLAPS

-----------------------------------------------------------------------------
(* The conversions of a section: sealed by Save, opened by Load, masked for *)
(* clients and resolved again, and what is built of it.                     *)

(* What Save stores is sealed and well typed, and Load opens it again. *)
LEMMA EncryptDecrypt ==
  ASSUME NEW s \in Section
  PROVE  /\ Encrypt(s) \in [id: Ids, mode: Modes, secret: {Empty} \cup [sealed: Secrets]]
         /\ Encrypt(s).id = s.id
         /\ Decrypt(Encrypt(s)) = s
<1>1. CASE s.secret = Empty
  BY <1>1 DEF Section, Encrypt, Decrypt
<1>2. CASE s.secret # Empty
  <2> DEFINE t == [s EXCEPT !.secret = [sealed |-> @]]
  <2>1. s.secret \in Secrets
    BY <1>2 DEF Section
  <2>2. Encrypt(s) = t
    BY <1>2 DEF Encrypt
  <2>3. t.secret = [sealed |-> s.secret] /\ t.id = s.id /\ t.mode = s.mode
    BY DEF Section
  <2>4. [sealed |-> s.secret] \in [sealed: Secrets]
    BY <2>1
  <2>5. t \in [id: Ids, mode: Modes, secret: {Empty} \cup [sealed: Secrets]]
    BY <2>4 DEF Section
  <2>6. t.secret # Empty
    BY <2>3, <2>4, <2>1, SecretAssumption
  <2>7. Decrypt(t) = s
    BY <2>3, <2>6 DEF Decrypt, Section
  <2> QED
    BY <2>2, <2>3, <2>5, <2>7
<1> QED
  BY <1>1, <1>2

(* Load turns a sealed section of the table into a section without a mask. *)
LEMMA DecryptType ==
  ASSUME NEW s \in [id: Ids, mode: Modes, secret: {Empty} \cup [sealed: Secrets]]
  PROVE  Decrypt(s) \in Section /\ Decrypt(s).id = s.id
<1>1. CASE s.secret = Empty
  BY <1>1 DEF Decrypt, Section
<1>2. CASE s.secret # Empty
  BY <1>2 DEF Decrypt, Section
<1> QED
  BY <1>1, <1>2

(* The mask is resolved to the current secret, everything else is kept. *)
LEMMA ResolveType ==
  ASSUME NEW d \in Document, NEW s \in Section
  PROVE  Resolve(d, s) \in Section /\ Resolve(d, s).id = d.id
<1>1. CASE d.secret = Mask
  BY <1>1 DEF Resolve, Document, Section
<1>2. CASE d.secret # Mask
  BY <1>2 DEF Resolve, Document, Section
<1> QED
  BY <1>1, <1>2

(* A masked section is a document of the same section. *)
LEMMA MaskedType ==
  ASSUME NEW s \in Section
  PROVE  Masked(s) \in Document /\ Masked(s).id = s.id
BY DEF Masked, Section, Document

(* The mask of a section resolves to the section it was made of. *)
LEMMA ResolveMasked ==
  ASSUME NEW s \in Section
  PROVE  Resolve(Masked(s), s) = s
<1>1. CASE s.secret = Empty
  BY <1>1, SecretAssumption DEF Masked, Resolve
<1>2. CASE s.secret # Empty
  <2>1. Masked(s) = [s EXCEPT !.secret = Mask]
    BY <1>2 DEF Masked
  <2>2. Masked(s).secret = Mask
    BY <2>1 DEF Section
  <2>3. Resolve(Masked(s), s) = [Masked(s) EXCEPT !.secret = s.secret]
    BY <2>2 DEF Resolve
  <2> QED
    BY <2>1, <2>3 DEF Section
<1> QED
  BY <1>1, <1>2

(* A valid configuration names one of its own provider sections. *)
LEMMA BuildType ==
  ASSUME NEW config \in Config, validate(config)
  PROVE  Build(config) \in Providers
<1>1. "provider" \in Keys /\ ProviderNames \subseteq Keys
  BY KeyAssumption DEF Keys
<1>2. config["provider"].id \in ProviderNames
  BY <1>1, RefusedAssumption DEF validate, Config, Section
<1>3. config[config["provider"].id] \in Section
  BY <1>1, <1>2 DEF Config
<1> QED
  BY <1>2, <1>3 DEF Build, Providers

-----------------------------------------------------------------------------
(* What the table and the requests hold: the table is sealed and valid, a  *)
(* Load in progress has put together a valid configuration, and what Save  *)
(* writes has been resolved and validated.                                 *)
TableInv ==
  /\ stored \in [Keys -> [id: Ids, mode: Modes, secret: {Empty} \cup [sealed: Secrets]]]
  /\ \A k \in Keys : <<k, stored[k].id>> \notin Refused
RequestInv ==
  /\ \A r \in Requests : validate(loaded[r])
  /\ \A r \in Requests : pc[r] # "idle" => req[r] \in Payloads
  /\ \A r \in Requests : pc[r] = "write" => next[r] \in Config /\ validate(next[r])
Inv == TypeOK /\ TableInv /\ RequestInv

(* What a Load of the table returns is a valid configuration. *)
LEMMA OpenedIsConfig ==
  ASSUME TableInv
  PROVE  Opened \in Config /\ validate(Opened) /\ \A k \in Keys : Opened[k] = Decrypt(stored[k])
<1>1. \A k \in Keys : Decrypt(stored[k]) \in Section /\ Decrypt(stored[k]).id = stored[k].id
  BY DecryptType DEF TableInv
<1> QED
  BY <1>1 DEF Opened, Config, validate, TableInv

(* The defaults are a valid configuration. *)
LEMMA DefaultsAreValid == DefaultConfig \in Config /\ validate(DefaultConfig)
BY DefaultAssumption DEF validate

(* A section without a mask is a document too. *)
LEMMA ConfigIsDocument == ASSUME NEW c \in Config PROVE c \in [Keys -> Document]
BY DEF Config, Section, Document

(* A sealed table is one the type invariant knows. *)
LEMMA SealedIsStored ==
  ASSUME NEW t \in [Keys -> [id: Ids, mode: Modes, secret: {Empty} \cup [sealed: Secrets]]]
  PROVE  t \in [Keys -> StoredSection]
BY DEF StoredSection

(* The initial state, and a new process over the table. *)
LEMMA InitInv == Init => Inv
<1> SUFFICES ASSUME Init PROVE Inv
  OBVIOUS
<1>1. TableInv
  <2>1. \A k \in Keys : DefaultConfig[k] \in Section /\ <<k, DefaultConfig[k].id>> \notin Refused
    BY DefaultAssumption DEF Config
  <2> QED
    BY <2>1, EncryptDecrypt DEF Init, TableInv
<1>2. active \in Providers \cup {None}
  BY <1>1, OpenedIsConfig, BuildType DEF Init, Serving
<1>3. RequestInv
  BY DefaultsAreValid DEF Init, RequestInv
<1>4. TypeOK
  <2>1. stored \in [Keys -> StoredSection]
    BY <1>1, SealedIsStored DEF TableInv
  <2>2. pc \in [Requests -> Labels] /\ req \in [Requests -> Payloads \cup {None}]
    BY DEF Init, Labels
  <2>3. loaded \in [Requests -> Config] /\ left \in [Requests -> SUBSET Keys]
    BY DefaultsAreValid DEF Init
  <2>4. next \in [Requests -> [Keys -> Document]]
    BY DefaultsAreValid, ConfigIsDocument DEF Init
  <2>5. spent \in [faults: 0 .. MaxFaults, stops: 0 .. MaxStops]
    BY BoundAssumption DEF Init
  <2> QED
    BY <1>2, <2>1, <2>2, <2>3, <2>4, <2>5 DEF TypeOK
<1> QED
  BY <1>1, <1>3, <1>4 DEF Inv

(* The end of a request, and the start of a Load, keep the types of its locals. *)
LEMMA FinishInv ==
  ASSUME Inv, NEW r \in Requests, Finish(r), UNCHANGED stored,
         active' \in Providers \cup {None},
         spent' \in [faults: 0 .. MaxFaults, stops: 0 .. MaxStops]
  PROVE  Inv'
<1>1. TypeOK'
  BY DefaultsAreValid, ConfigIsDocument DEF Inv, TypeOK, Finish, Labels
<1>2. TableInv'
  BY DEF Inv, TableInv
<1>3. RequestInv'
  BY DefaultsAreValid DEF Inv, TypeOK, RequestInv, Finish
<1> QED
  BY <1>1, <1>2, <1>3 DEF Inv

LEMMA StartLoadInv ==
  ASSUME Inv, NEW r \in Requests, NEW l \in Loads, StartLoad(r, l), UNCHANGED <<stored, active, spent>>,
         req' \in [Requests -> Payloads \cup {None}], req'[r] \in Payloads,
         \A q \in Requests \ {r} : req'[q] = req[q] /\ next'[q] = next[q],
         next' \in [Requests -> [Keys -> Document]]
  PROVE  Inv'
<1>1. TypeOK'
  BY DefaultsAreValid DEF Inv, TypeOK, StartLoad, Labels, Loads
<1>2. TableInv'
  BY DEF Inv, TableInv
<1>3. RequestInv'
  BY DefaultsAreValid DEF Inv, TypeOK, RequestInv, StartLoad, Loads
<1> QED
  BY <1>1, <1>2, <1>3 DEF Inv

(* A fault keeps the counters within their bounds. *)
LEMMA SpendFaultType ==
  ASSUME TypeOK, SpendFault
  PROVE  spent' \in [faults: 0 .. MaxFaults, stops: 0 .. MaxStops]
BY BoundAssumption DEF TypeOK, SpendFault

(* Every step keeps the invariant. *)
LEMMA StepInv == Inv /\ [Next]_vars => Inv'
<1> SUFFICES ASSUME Inv, [Next]_vars PROVE Inv'
  OBVIOUS
<1> USE DEF Inv
<1>1. ASSUME NEW r \in Requests, NEW doc \in Payloads, PutSettings(r, doc) PROVE Inv'
  <2>1. /\ req' \in [Requests -> Payloads \cup {None}] /\ req'[r] \in Payloads
        /\ \A q \in Requests \ {r} : req'[q] = req[q] /\ next'[q] = next[q]
        /\ next' \in [Requests -> [Keys -> Document]]
    BY <1>1 DEF PutSettings, TypeOK
  <2> QED
    BY <1>1, <2>1, StartLoadInv DEF PutSettings, Loads
<1>2. ASSUME NEW r \in Requests, NEW k \in Keys, GetSetting(r, k) PROVE Inv'
  <2>1. Decrypt(stored[k]) \in Section /\ <<k, Decrypt(stored[k]).id>> \notin Refused
    BY DecryptType DEF TableInv
  <2>2. /\ loaded' \in [Requests -> Config] /\ \A q \in Requests : validate(loaded'[q])
    BY <1>2, <2>1 DEF GetSetting, TypeOK, RequestInv, validate, Config
  <2>3. left' \in [Requests -> SUBSET Keys]
    BY <1>2 DEF GetSetting, TypeOK
  <2> QED
    BY <1>2, <2>2, <2>3 DEF GetSetting, TypeOK, TableInv, RequestInv
<1>3. ASSUME NEW r \in Requests, Merge(r) PROVE Inv'
  <2>1. req[r] \in Payloads /\ loaded[r] \in Config
    BY <1>3 DEF Merge, RequestInv, TypeOK
  <2>2. merge(req[r], loaded[r]) \in [Keys -> Document]
    BY <2>1, PayloadAssumption, MaskedType DEF merge, Config
  <2>3. next' \in [Requests -> [Keys -> Document]] /\ \A q \in Requests \ {r} : next'[q] = next[q]
    BY <1>3, <2>2 DEF Merge, TypeOK
  <2> QED
    BY <1>3, <2>1, <2>3, StartLoadInv DEF Merge, TypeOK, Loads
<1>4. ASSUME NEW r \in Requests, Save(r) PROVE Inv'
  <2> DEFINE resolved == [k \in Keys |-> Resolve(next[r][k], loaded[r][k])]
  <2>1. resolved \in Config
    BY ResolveType DEF TypeOK, Config
  <2>2. CASE validate(resolved)
    <3>1. /\ next' = [next EXCEPT ![r] = resolved]
          /\ pc' = [pc EXCEPT ![r] = "write"] /\ left' = [left EXCEPT ![r] = Keys]
          /\ UNCHANGED <<req, loaded, stored, active, spent>> /\ pc[r] = "current"
      BY <1>4, <2>2 DEF Save
    <3>2. resolved \in [Keys -> Document]
      BY <2>1, ConfigIsDocument
    <3> HIDE DEF resolved
    <3>3. TypeOK'
      BY <3>1, <3>2 DEF TypeOK, Labels
    <3>4. RequestInv'
      BY <2>1, <2>2, <3>1 DEF TypeOK, RequestInv
    <3> QED
      BY <3>1, <3>3, <3>4 DEF TableInv
  <2>3. CASE ~validate(resolved)
    BY <1>4, <2>3, FinishInv DEF Save, TypeOK
  <2> QED
    BY <2>2, <2>3
<1>5. ASSUME NEW r \in Requests, NEW k \in Keys, SetSetting(r, k) PROVE Inv'
  <2>1. next[r][k] \in Section /\ <<k, next[r][k].id>> \notin Refused
    BY <1>5 DEF SetSetting, RequestInv, validate, Config
  <2>2. TableInv'
    BY <1>5, <2>1, EncryptDecrypt DEF SetSetting, TableInv
  <2>3. stored' \in [Keys -> StoredSection]
    BY <2>2, SealedIsStored DEF TableInv
  <2>4. TypeOK'
    BY <1>5, <2>3 DEF SetSetting, TypeOK, Labels
  <2>5. RequestInv'
    BY <1>5 DEF SetSetting, TypeOK, RequestInv
  <2> QED
    BY <2>2, <2>4, <2>5
<1>6. ASSUME NEW r \in Requests, LoadAnswer(r) PROVE Inv'
  <2>1. req[r] \in Payloads
    BY <1>6 DEF LoadAnswer, RequestInv
  <2> QED
    BY <1>6, <2>1, StartLoadInv DEF LoadAnswer, TypeOK, Loads
<1>7. ASSUME NEW r \in Requests, CallFails(r) PROVE Inv'
  BY <1>7, SpendFaultType, FinishInv DEF CallFails, TypeOK
<1>8. ASSUME NEW r \in Requests, Rebuild(r) PROVE Inv'
  <2>1. Build(loaded[r]) \in Providers
    BY BuildType DEF TypeOK, RequestInv
  <2> QED
    BY <1>8, <2>1, FinishInv DEF Rebuild, TypeOK
<1>9. ASSUME Crash PROVE Inv'
  <2>1. active' \in Providers \cup {None}
    BY <1>9, OpenedIsConfig, BuildType DEF Crash, Boot, Serving
  <2>2. spent' \in [faults: 0 .. MaxFaults, stops: 0 .. MaxStops]
    BY <1>9, BoundAssumption DEF Crash, TypeOK
  <2>3. TypeOK'
    BY <1>9, <2>1, <2>2, DefaultsAreValid, ConfigIsDocument DEF Crash, Boot, TypeOK, Labels
  <2>4. RequestInv'
    BY <1>9, DefaultsAreValid DEF Crash, Boot, RequestInv
  <2> QED
    BY <1>9, <2>3, <2>4 DEF Crash, Boot, TableInv
<1>10. CASE UNCHANGED vars
  BY <1>10 DEF vars, TypeOK, TableInv, RequestInv
<1> QED
  BY <1>1, <1>2, <1>3, <1>4, <1>5, <1>6, <1>7, <1>8, <1>9, <1>10 DEF Next, PutStep

-----------------------------------------------------------------------------
(* Every reachable state is well typed. *)
THEOREM TypeCorrect == Spec => []TypeOK
<1>1. Inv => TypeOK
  BY DEF Inv
<1> QED
  BY <1>1, InitInv, StepInv, PTL DEF Spec

(* No PUT, whatever it overlaps with and wherever it is cut short, stores  *)
(* the mask as a credential, or has a provider built with it.              *)
THEOREM MaskNeverStored == Spec => []MaskStaysOutside
<1>1. Inv => MaskStaysOutside
  <2> SUFFICES ASSUME Inv PROVE MaskStaysOutside
    OBVIOUS
  <2>1. \A k \in Keys : stored[k].secret \in {Empty} \cup [sealed: Secrets]
    BY DEF Inv, TableInv
  <2>2. active \in Providers => active.section.secret \in Secrets \cup {Empty}
    BY DEF Providers, Section
  <2> QED
    BY <2>1, <2>2, SecretAssumption DEF Inv, TypeOK, MaskStaysOutside
<1> QED
  BY <1>1, InitInv, StepInv, PTL DEF Spec

(* The table always passes the validation of Save, section by section.     *)
THEOREM TableStaysValid == Spec => []StoredIsValid
<1>1. Inv => StoredIsValid
  BY DEF Inv, TableInv, StoredIsValid
<1> QED
  BY <1>1, InitInv, StepInv, PTL DEF Spec

-----------------------------------------------------------------------------
(* One request at a time.  Nothing moves under its loads, so what it has     *)
(* loaded is the table, the document it works on is the table with the       *)
(* client's sections laid over it, and what it has written is there.         *)
LoadsAgree(r) ==
  pc[r] \in Loads => \A k \in Keys \ left[r] : loaded[r][k] = Opened[k]
NextAgrees(r) ==
  /\ pc[r] = "current" =>
       \A k \in Keys : next[r][k] = IF k \in DOMAIN req[r] THEN req[r][k] ELSE Masked(Opened[k])
  /\ pc[r] = "write" =>
       \A k \in Keys : next[r][k] = IF k \in DOMAIN req[r] \cap left[r]
                                    THEN Resolve(req[r][k], Opened[k]) ELSE Opened[k]
WritesAgree(r) ==
  pc[r] \in {"write", "answer", "plain"} =>
    /\ Store!Acceptable(req[r])
    /\ \A k \in DOMAIN req[r] :
         Opened[k] = Resolve(req[r][k], Opened[k]) \/ (pc[r] = "write" /\ k \in left[r])
SerialInv(r) == LoadsAgree(r) /\ NextAgrees(r) /\ WritesAgree(r)

(* The document being saved is that of the only request. *)
LEMMA SavingIs ==
  ASSUME NEW r, Requests = {r}
  PROVE  Saving = IF pc[r] # "idle" THEN req[r] ELSE None
BY DEF Saving

LEMMA SavingIsNext ==
  ASSUME NEW r, Requests = {r}
  PROVE  Saving' = IF pc'[r] # "idle" THEN req'[r] ELSE None
BY DEF Saving

(* Resolving a resolved section changes nothing: a section can be found written. *)
LEMMA ResolveTwice ==
  ASSUME NEW d \in Document, NEW s \in Section
  PROVE  Resolve(d, Resolve(d, s)) = Resolve(d, s)
<1>1. CASE d.secret = Mask
  BY <1>1 DEF Resolve, Document, Section
<1>2. CASE d.secret # Mask
  BY <1>2 DEF Resolve
<1> QED
  BY <1>1, <1>2

(* A written key reads as what was written, the others as before. *)
LEMMA OpenedAfterSet ==
  ASSUME Inv, NEW r \in Requests, NEW k \in Keys, SetSetting(r, k)
  PROVE  Opened' = [Opened EXCEPT ![k] = next[r][k]]
<1>1. next[r][k] \in Section
  BY DEF Inv, RequestInv, SetSetting, Config
<1>2. stored' = [stored EXCEPT ![k] = Encrypt(next[r][k])]
  BY DEF SetSetting
<1>3. Decrypt(Encrypt(next[r][k])) = next[r][k]
  BY <1>1, EncryptDecrypt
<1> QED
  BY <1>2, <1>3 DEF Opened, Inv, TableInv

(* The serial invariant at the start. *)
LEMMA SerialInit == ASSUME NEW r, Requests = {r}, Init PROVE SerialInv(r)
BY DEF Init, SerialInv, LoadsAgree, NextAgrees, WritesAgree, Loads

(* Every step of the only request keeps it. *)
LEMMA SerialStep ==
  ASSUME NEW r, Requests = {r}, Inv, SerialInv(r), [Next]_vars
  PROVE  SerialInv(r)'
<1> USE DEF Inv, SerialInv
<1>1. ASSUME NEW doc \in Payloads, PutSettings(r, doc) PROVE SerialInv(r)'
  BY <1>1 DEF PutSettings, StartLoad, TypeOK, LoadsAgree, NextAgrees, WritesAgree, Loads
<1>2. ASSUME NEW k \in Keys, GetSetting(r, k) PROVE SerialInv(r)'
  <2>1. Opened' = Opened /\ Opened[k] = Decrypt(stored[k])
    BY <1>2 DEF GetSetting, Opened
  <2>2. LoadsAgree(r)'
    BY <1>2, <2>1 DEF GetSetting, TypeOK, LoadsAgree, Config
  <2>3. NextAgrees(r)' /\ WritesAgree(r)'
    BY <1>2, <2>1 DEF GetSetting, TypeOK, NextAgrees, WritesAgree, Loads
  <2> QED
    BY <2>2, <2>3
<1>3. ASSUME Merge(r) PROVE SerialInv(r)'
  <2>1. Opened' = Opened /\ req[r] \in Payloads
    BY <1>3 DEF Merge, Opened, RequestInv
  <2>2. \A k \in Keys : loaded[r][k] = Opened[k]
    BY <1>3 DEF Merge, LoadsAgree, Loads
  <2>3. next'[r] = merge(req[r], loaded[r]) /\ pc'[r] = "current" /\ left'[r] = Keys /\ req' = req
    BY <1>3 DEF Merge, StartLoad, TypeOK
  <2>4. \A k \in Keys : next'[r][k] = IF k \in DOMAIN req[r] THEN req[r][k] ELSE Masked(Opened[k])
    BY <2>2, <2>3 DEF merge
  <2> QED
    BY <2>1, <2>3, <2>4 DEF LoadsAgree, NextAgrees, WritesAgree
<1>4. ASSUME Save(r) PROVE SerialInv(r)'
  <2> DEFINE resolved == [k \in Keys |-> Resolve(next[r][k], loaded[r][k])]
  <2>1. Opened' = Opened /\ pc[r] = "current" /\ left[r] = {}
    BY <1>4 DEF Save, Opened
  <2>2. req[r] \in Payloads
    BY <2>1 DEF RequestInv
  <2>3. \A k \in Keys : Opened[k] \in Section
    BY OpenedIsConfig DEF Config
  <2>4. \A k \in Keys : resolved[k] = IF k \in DOMAIN req[r] THEN Resolve(req[r][k], Opened[k]) ELSE Opened[k]
    BY <2>1, <2>3, ResolveMasked DEF LoadsAgree, NextAgrees, Loads
  <2>5. CASE validate(resolved)
    <3>1. next'[r] = resolved /\ pc'[r] = "write" /\ left'[r] = Keys /\ req' = req
      BY <1>4, <2>5 DEF Save, TypeOK
    <3>2. \A k \in DOMAIN req[r] : k \in Keys /\ req[r][k] \in Document
      BY <2>2, PayloadAssumption
    <3>3. \A k \in DOMAIN req[r] : <<k, req[r][k].id>> \notin Refused
      BY <2>3, <2>4, <2>5, <3>2, ResolveType DEF validate
    <3>4. NextAgrees(r)'
      BY <2>1, <2>4, <3>1 DEF NextAgrees
    <3>5. WritesAgree(r)'
      BY <3>1, <3>2, <3>3 DEF WritesAgree, Store!Acceptable
    <3> QED
      BY <3>1, <3>4, <3>5 DEF LoadsAgree, Loads
  <2>6. CASE ~validate(resolved)
    BY <1>4, <2>6 DEF Save, Finish, TypeOK, LoadsAgree, NextAgrees, WritesAgree, Loads
  <2> QED
    BY <2>5, <2>6
<1>5. ASSUME NEW k \in Keys, SetSetting(r, k) PROVE SerialInv(r)'
  <2>1. Opened' = [Opened EXCEPT ![k] = next[r][k]] /\ DOMAIN Opened = Keys
    BY <1>5, OpenedAfterSet DEF Opened
  <2>2. /\ pc[r] = "write" /\ left'[r] = left[r] \ {k} /\ UNCHANGED <<req, next>>
        /\ pc'[r] = IF left[r] = {k} THEN "answer" ELSE "write"
        /\ k \in left[r]
    BY <1>5 DEF SetSetting, InOrder, TypeOK
  <2>3. req[r] \in Payloads
    BY <2>2 DEF RequestInv
  <2>4. \A j \in DOMAIN req[r] : j \in Keys /\ req[r][j] \in Document
    BY <2>3, PayloadAssumption
  <2>5. Opened[k] \in Section
    BY OpenedIsConfig DEF Config
  <2>6. NextAgrees(r)'
    BY <2>1, <2>2 DEF NextAgrees
  <2>7. WritesAgree(r)'
    <3>1. Store!Acceptable(req[r])'
      BY <2>2 DEF WritesAgree, Store!Acceptable
    <3>2. ASSUME NEW j \in DOMAIN req[r]
          PROVE  Opened'[j] = Resolve(req[r][j], Opened'[j]) \/ (pc'[r] = "write" /\ j \in left'[r])
      <4>1. CASE j = k
        <5>1. Opened'[k] = Resolve(req[r][k], Opened[k])
          BY <2>1, <2>2, <3>2, <4>1 DEF NextAgrees
        <5> QED
          BY <2>4, <2>5, <4>1, <5>1, ResolveTwice
      <4>2. CASE j # k
        <5>1. Opened'[j] = Opened[j]
          BY <2>1, <2>4, <4>2
        <5>2. j \in left[r] => j \in left'[r] /\ pc'[r] = "write"
          BY <2>2, <4>2
        <5> QED
          BY <2>2, <5>1, <5>2 DEF WritesAgree
      <4> QED
        BY <4>1, <4>2
    <3> QED
      BY <2>2, <3>1, <3>2 DEF WritesAgree
  <2> QED
    BY <2>2, <2>6, <2>7 DEF LoadsAgree, Loads
<1>6. ASSUME LoadAnswer(r) PROVE SerialInv(r)'
  <2>1. Opened' = Opened /\ pc'[r] = "plain" /\ left'[r] = Keys /\ req' = req /\ pc[r] = "answer"
    BY <1>6 DEF LoadAnswer, StartLoad, TypeOK, Opened
  <2> QED
    BY <2>1 DEF LoadsAgree, NextAgrees, WritesAgree, Store!Acceptable
<1>7. ASSUME Finish(r) \/ Boot PROVE SerialInv(r)'
  <2>1. pc'[r] = "idle"
    BY <1>7 DEF Finish, Boot, TypeOK
  <2> QED
    BY <2>1 DEF LoadsAgree, NextAgrees, WritesAgree, Loads
<1>8. CASE UNCHANGED vars
  <2>1. Opened' = Opened
    BY <1>8 DEF vars, Opened
  <2> QED
    BY <1>8, <2>1 DEF vars, LoadsAgree, NextAgrees, WritesAgree, Store!Acceptable
<1> QED
  BY <1>1, <1>2, <1>3, <1>4, <1>5, <1>6, <1>7, <1>8 DEF Next, PutStep, CallFails, Rebuild, Crash

(* The data of ConfigStore is that of Settings.                             *)
LEMMA SameData ==
  /\ Store!Keys = Keys
  /\ \A d, s : Store!Resolve(d, s) = Resolve(d, s)
  /\ \A c : Store!Buildable(c) = Buildable(c) /\ Store!Build(c) = Build(c)
BY DEF Keys, Store!Keys, Resolve, Store!Resolve, Buildable, Store!Buildable, Build, Store!Build

(* Every step of the only request is a step of ConfigStore, or none.        *)
LEMMA StepImplements ==
  ASSUME NEW r, Requests = {r}, Inv, SerialInv(r), [Next]_vars
  PROVE  [Store!Next]_<<Opened, Saving, active>>
<1> USE SavingIs, SavingIsNext, SameData DEF Inv, SerialInv
<1>1. ASSUME NEW doc \in Payloads, PutSettings(r, doc) PROVE Store!Begin(doc)
  BY <1>1, PayloadAssumption DEF PutSettings, StartLoad, TypeOK, Store!Begin, Opened
<1>2. ASSUME \/ \E k \in Keys : GetSetting(r, k)
             \/ Merge(r) \/ LoadAnswer(r)
      PROVE  UNCHANGED <<Opened, Saving, active>>
  BY <1>2 DEF GetSetting, Merge, LoadAnswer, StartLoad, TypeOK, Opened, Loads
<1>3. ASSUME Finish(r), pc[r] # "idle", UNCHANGED <<stored, active>> PROVE Store!GiveUp
  <2>1. req[r] # None
    BY <1>3, PayloadAssumption DEF RequestInv
  <2> QED
    BY <1>3, <2>1 DEF Finish, TypeOK, Store!GiveUp, Opened
<1>4. ASSUME Save(r) PROVE Store!GiveUp \/ UNCHANGED <<Opened, Saving, active>>
  BY <1>3, <1>4 DEF Save, TypeOK, Opened
<1>5. ASSUME NEW k \in Keys, SetSetting(r, k)
      PROVE  Store!WriteSection(k) \/ UNCHANGED <<Opened, Saving, active>>
  <2>1. Opened' = [Opened EXCEPT ![k] = next[r][k]]
    BY <1>5, OpenedAfterSet
  <2>2. /\ pc[r] = "write" /\ k \in left[r] /\ UNCHANGED <<req, active>>
        /\ pc'[r] # "idle"
    BY <1>5 DEF SetSetting, InOrder, TypeOK
  <2>3. Saving = req[r] /\ Saving' = req[r] /\ req[r] # None
    BY <2>2, PayloadAssumption DEF RequestInv
  <2>4. CASE k \in DOMAIN req[r]
    <3>1. next[r][k] = Resolve(req[r][k], Opened[k])
      BY <2>2, <2>4 DEF NextAgrees
    <3>2. Opened' = [Opened EXCEPT ![k] = Resolve(req[r][k], @)]
      BY <2>1, <3>1
    <3>3. Store!Acceptable(req[r])
      BY <2>2 DEF WritesAgree
    <3> QED
      BY <2>2, <2>3, <2>4, <3>2, <3>3 DEF Store!WriteSection
  <2>5. CASE k \notin DOMAIN req[r]
    <3>1. next[r][k] = Opened[k]
      BY <2>2, <2>5 DEF NextAgrees
    <3>2. Opened' = Opened
      BY <2>1, <3>1 DEF Opened
    <3> QED
      BY <2>2, <2>3, <3>2
  <2> QED
    BY <2>4, <2>5
<1>6. ASSUME CallFails(r) PROVE Store!GiveUp
  <2>1. pc[r] # "idle"
    BY <1>6 DEF CallFails, Loads
  <2> QED
    BY <1>3, <1>6, <2>1 DEF CallFails
<1>7. ASSUME Rebuild(r) PROVE Store!Done
  <2>1. pc[r] = "plain" /\ left[r] = {} /\ pc'[r] = "idle" /\ Opened' = Opened
    BY <1>7 DEF Rebuild, Finish, TypeOK, Opened
  <2>2. loaded[r] = Opened
    <3>1. loaded[r] \in Config /\ Opened \in Config
      BY OpenedIsConfig DEF TypeOK
    <3>2. \A k \in Keys : loaded[r][k] = Opened[k]
      BY <2>1 DEF LoadsAgree, Loads
    <3> QED
      BY <3>1, <3>2 DEF Config
  <2>3. Saving = req[r] /\ req[r] # None /\ Saving' = None
    BY <2>1, PayloadAssumption DEF RequestInv
  <2>4. Store!Acceptable(req[r]) /\ \A k \in DOMAIN req[r] : Opened[k] = Resolve(req[r][k], Opened[k])
    BY <2>1 DEF WritesAgree
  <2>5. active' = IF Buildable(Opened) THEN Build(Opened) ELSE active
    BY <1>7, <2>2 DEF Rebuild
  <2> QED
    BY <2>1, <2>3, <2>4, <2>5 DEF Store!Done, Store!Written
<1>8. ASSUME Crash PROVE Store!Restart
  BY <1>8 DEF Crash, Boot, Serving, Opened, Store!Restart
<1>9. CASE UNCHANGED vars
  BY <1>9 DEF vars, Opened
<1> QED
  BY <1>1, <1>2, <1>4, <1>5, <1>6, <1>7, <1>8, <1>9 DEF Next, PutStep, Store!Next

(* With one request at a time, saving settings implements ConfigStore:      *)
(* sections that were not sent are kept, masked secrets are kept, invalid   *)
(* documents change nothing, and what a completed save stored is in use.    *)
THEOREM SavesImplementStore ==
  ASSUME NEW r, Requests = {r}
  PROVE  Spec => SavesAsPromised
<1>1. Init => Store!Init
  <2> SUFFICES ASSUME Init PROVE Store!Init
    OBVIOUS
  <2>1. \A k \in Keys : DefaultConfig[k] \in Section
    BY DefaultAssumption DEF Config
  <2>2. \A k \in Keys : Opened[k] = DefaultConfig[k]
    BY <2>1, EncryptDecrypt DEF Init, Opened
  <2>3. Opened = DefaultConfig
    BY <2>2, DefaultAssumption DEF Opened, Config
  <2> QED
    BY <2>3, SavingIs, SameData DEF Init, Store!Init, Serving
<1>2. Init => Inv /\ SerialInv(r)
  BY InitInv, SerialInit
<1>3. Inv /\ SerialInv(r) /\ [Next]_vars => (Inv /\ SerialInv(r))'
  BY StepInv, SerialStep
<1>4. Inv /\ SerialInv(r) /\ [Next]_vars => [Store!Next]_<<Opened, Saving, active>>
  BY StepImplements
<1> QED
  BY <1>1, <1>2, <1>3, <1>4, PTL DEF Spec, SavesAsPromised, Store!Spec
=============================================================================
