----------------------------- MODULE MCListener -----------------------------
(* Values of Listener's constants for TLC. *)
EXTENDS Listener, TLC

MCRefused == {<<"provider", i>> : i \in Ids \ ProviderNames}

Value(id, mode, secret) == [id |-> id, mode |-> mode, secret |-> secret]
MCDefaultConfig ==
  [k \in Keys |->
    IF k = "provider" THEN Value("greenapi", "polling", Empty) ELSE Value(Blank, "polling", Empty)]

\* The account of the queue, another token, and the other provider.
MCPayloads ==
  {"greenapi" :> Value("one", "polling", "s"),
   ("provider" :> Value("greenapi", "polling", Empty)) @@ ("greenapi" :> Value("one", "polling", "t")),
   "provider" :> Value("gowa", "polling", Empty)}

MCAccount == [instance |-> "one", token |-> "s"]
=============================================================================
