----------------------------- MODULE MCSettings -----------------------------
(* Values of Settings's constants for TLC. *)
EXTENDS Settings, TLC

MCRefused ==
  {<<"provider", i>> : i \in Ids \ ProviderNames} \cup {<<"scheduler", "nowhere">>}

Value(id, mode, secret) == [id |-> id, mode |-> mode, secret |-> secret]
MCDefaultConfig ==
  [k \in Keys |->
    CASE k = "provider"  -> Value("greenapi", "polling", Empty)
      [] k = "scheduler" -> Value("zone", "polling", Empty)
      [] OTHER           -> Value(Blank, "polling", Empty)]

\* A first set-up; a changed instance that keeps its token; a cleared token; a
\* switch of provider alone; the other provider whole; a zone alone, and one
\* that does not exist, sent with a section that could be saved.
MCPayloads ==
  {"greenapi" :> Value("one", "polling", "s"),
   "greenapi" :> Value("two", "webhook", Mask),
   "greenapi" :> Value("two", "polling", Empty),
   "provider" :> Value("gowa", "polling", Empty),
   ("provider" :> Value("greenapi", "polling", Empty)) @@ ("gowa" :> Value("url", "polling", "t")),
   "scheduler" :> Value("other zone", "polling", Empty),
   ("scheduler" :> Value("nowhere", "polling", Empty)) @@ ("gowa" :> Value(Blank, "polling", Mask))}

RacePayloads ==
  {"greenapi" :> Value("one", "polling", "s"),
   "scheduler" :> Value("other zone", "polling", Empty)}
=============================================================================
