---------------------------- MODULE MCScheduler ----------------------------
(* Values of Scheduler's constants for TLC. *)
EXTENDS Scheduler

At(y, m, d, min) == [year |-> y, month |-> m, day |-> d, minute |-> min]

\* A leap-day birthday in a common year, on 28 February at the default send
\* time and at the contact's own, the night after, and in a leap year.
MCTimeZones == {"UTC"}
MCLocal ==
  [z \in MCTimeZones |->
    [t \in 0 .. LastInstant |->
      CASE t = 0 -> At(2027, 2, 28, 540)
        [] t = 1 -> At(2027, 2, 28, 600)
        [] t = 2 -> At(2027, 3, 1, 0)
        [] OTHER -> At(2028, 2, 29, 600)]]
MCEventDates == {[month |-> 2, day |-> 29]}
MCOwnTimes == {600}
MCSendTimes == {540}
=============================================================================
