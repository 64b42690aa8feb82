------------------------------ MODULE Sections ------------------------------
(***************************************************************************)
(* The values of internal/service/settings: the five keys of the settings  *)
(* table, what a section of the configuration is in a client's document,   *)
(* in memory and in the table, and what provider/factory and the listener  *)
(* make of a whole configuration.                                          *)
(*                                                                         *)
(* Every section is a record with three fields: `id` stands for what it    *)
(* names (provider: the provider; provider.greenapi: the instance;         *)
(* provider.gowa: the base URL; scheduler, group_echo: their values),      *)
(* `mode` is GreenAPI's, and `secret` is the credential of the two         *)
(* provider sections, empty in the others.                                 *)
(***************************************************************************)
EXTENDS Naturals, FiniteSets

CONSTANTS
  JSONKeys,        \* the sections kept as JSON: "greenapi", "gowa", "scheduler", "group_echo"
  Ids,             \* what a section can name
  Blank,           \* a blank instance or URL
  Refused,         \* the <<key, id>> pairs validate refuses
  Secrets,         \* the credentials clients send
  Mask, Empty,     \* the mask, and the empty string of a credential
  None,            \* nil: no request, no provider
  DefaultConfig,   \* Defaults()
  Payloads         \* the documents clients send: functions of a subset of Keys

ProviderNames == {"greenapi", "gowa"}
Keys == {"provider"} \cup JSONKeys
Modes == {"polling", "webhook"}

\* What a client sends (the mask allowed), what Load returns, a value of the table.
Document == [id: Ids, mode: Modes, secret: Secrets \cup {Mask, Empty}]
Section == [id: Ids, mode: Modes, secret: Secrets \cup {Empty}]
StoredSection == [id: Ids, mode: Modes, secret: {Empty} \cup [sealed: Secrets \cup {Mask}]]
Config == [Keys -> Section]

ASSUME KeyAssumption == ProviderNames \subseteq JSONKeys /\ "provider" \notin JSONKeys
ASSUME SecretAssumption ==
  /\ Mask # Empty /\ {Mask, Empty} \cap Secrets = {}
  /\ Empty \notin [sealed: Secrets \cup {Mask}]
ASSUME DefaultAssumption ==
  /\ DefaultConfig \in Config
  /\ DefaultConfig["provider"].id \in ProviderNames
  /\ \A k \in Keys : <<k, DefaultConfig[k].id>> \notin Refused
\* An unknown provider name is one of the things validate refuses.
ASSUME RefusedAssumption ==
  \A i \in Ids : <<"provider", i>> \in Refused \/ i \in ProviderNames

ASSUME PayloadAssumption ==
  /\ \A doc \in Payloads : DOMAIN doc \subseteq Keys /\ \A k \in DOMAIN doc : doc[k] \in Document
  /\ None \notin Payloads

\* Cipher.Encrypt on every secret that is not empty; Load's DecryptIfEncrypted.
Encrypt(section) ==
  IF section.secret = Empty THEN section ELSE [section EXCEPT !.secret = [sealed |-> @]]
Decrypt(section) ==
  IF section.secret = Empty THEN section ELSE [section EXCEPT !.secret = @.sealed]

\* LoadMasked: a secret that is set becomes the mask.
Masked(section) ==
  IF section.secret = Empty THEN section ELSE [section EXCEPT !.secret = Mask]

\* Save: the mask stands for the current secret.
Resolve(section, current) ==
  IF section.secret = Mask THEN [section EXCEPT !.secret = current.secret] ELSE section

\* Mutant: only the choice of provider is validated.
validateProvider(config) == <<"provider", config["provider"].id>> \notin Refused

validate(config) == \A k \in Keys : <<k, config[k].id>> \notin Refused

\* factory.Build: which provider, over which section, or an error.
Buildable(config) ==
  LET name == config["provider"].id
  IN config[name].id # Blank /\ (name = "greenapi" => config[name].secret # Empty)
Build(config) ==
  LET name == config["provider"].id
  IN [name |-> name, section |-> config[name]]
Providers == [name: ProviderNames, section: Section]
ASSUME NoProviderAssumption == None \notin Providers

\* desiredPoller: the fingerprint of the poller that should run, None for none.
\* The mode decides whether one runs and is no part of what it is.
desiredPoller(config) ==
  LET green == config["greenapi"]
  IN IF /\ config["provider"].id = "greenapi" /\ green.mode = "polling"
        /\ green.id # Blank /\ green.secret # Empty
     THEN [instance |-> green.id, token |-> green.secret]
     ELSE None
=============================================================================
