---------------------------- MODULE ConfigStore ----------------------------
(***************************************************************************)
(* What saving settings promises, with one client at a time: a document    *)
(* replaces the sections it holds and no other, a masked secret keeps its  *)
(* value, an invalid document changes nothing, and a save that is reported *)
(* as done has put the stored configuration into use.  A save can be cut   *)
(* short; then each section is either the old one or the new one, and the  *)
(* provider in use stays.  Settings implements this.                       *)
(***************************************************************************)
EXTENDS Sections

VARIABLES
  config,   \* the stored configuration, decrypted
  put,      \* the document being saved, None when there is none
  active    \* the provider in use, None before there is one

Written(k) == config[k] = Resolve(put[k], config[k])
Acceptable(doc) == \A k \in DOMAIN doc : <<k, doc[k].id>> \notin Refused

Init ==
  /\ config = DefaultConfig
  /\ put = None
  /\ active = IF Buildable(config) THEN Build(config) ELSE None

Begin(doc) ==
  /\ put = None
  /\ put' = doc
  /\ UNCHANGED <<config, active>>

WriteSection(k) ==
  /\ put # None /\ Acceptable(put) /\ k \in DOMAIN put
  /\ config' = [config EXCEPT ![k] = Resolve(put[k], @)]
  /\ UNCHANGED <<put, active>>

Done ==
  /\ put # None /\ Acceptable(put) /\ \A k \in DOMAIN put : Written(k)
  /\ put' = None
  /\ active' = IF Buildable(config) THEN Build(config) ELSE active
  /\ UNCHANGED config

GiveUp ==
  /\ put # None
  /\ put' = None
  /\ UNCHANGED <<config, active>>

\* A new process serves the configuration it finds.
Restart ==
  /\ put' = None
  /\ active' = IF Buildable(config) THEN Build(config) ELSE None
  /\ UNCHANGED config

Next ==
  \/ \E doc \in Payloads : Begin(doc)
  \/ \E k \in Keys : WriteSection(k)
  \/ Done
  \/ GiveUp
  \/ Restart

Spec == Init /\ [][Next]_<<config, put, active>>
=============================================================================
