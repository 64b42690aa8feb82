---------------------------- MODULE MCGroupEcho ----------------------------
(* Values of GroupEcho's constants for TLC. *)
EXTENDS GroupEcho, TLC

HandlerSymmetry == Permutations(Handlers)

MCEchoSettings == {[threshold |-> 2, window |-> 1, cooldown |-> 2, usable |-> u] : u \in BOOLEAN}
MCContent ==
  [m \in Messages |->
    [chat   |-> "family",
     sender |-> IF m \in {"dana", "dana again"} THEN "dana" ELSE IF m = "bot" THEN "bot" ELSE "avi",
     fromMe |-> m = "bot",
     wish   |-> m # "chatter"]]
=============================================================================
