--------------------------- MODULE BlessingLedger ---------------------------
(***************************************************************************)
(* What the scheduler keeps of the README's promise of one blessing per    *)
(* contact and year, whoever sends and however sends overlap: it sets out  *)
(* to send only while the log has no row for the year, never writes a      *)
(* second row, and leaves no message out of the books, as recorded, owed,  *)
(* doubtful or a repeat of the transport's.  Who the senders are and what  *)
(* they read is left out.                                                  *)
(* Scheduler implements this specification.                                *)
(***************************************************************************)
EXTENDS Naturals

CONSTANTS
  ContactIds, Keys,  \* contacts, and pairs of a contact and an event year
  NoYear,            \* the year of forced sends, which the promise leaves out
  Attempts           \* copies one send can put out

VARIABLES
  claims,    \* claims[k]: senders that found no row and have not sent yet
  owed,      \* owed[k]: messages out whose row is still to be written
  rows,      \* rows[k]: 'sent' rows
  received,  \* received[k]: messages out
  doubtful,  \* doubtful[k]: messages whose send ended in an error, or with the process
  repeats,   \* repeats[k]: copies beyond the first of sends that succeeded
  closed     \* contacts that are deleted: their rows lost their names

books == <<claims, owed, rows, received, doubtful, repeats, closed>>

Init ==
  /\ claims = [k \in Keys |-> 0] /\ owed = [k \in Keys |-> 0]
  /\ rows = [k \in Keys |-> 0] /\ received = [k \in Keys |-> 0]
  /\ doubtful = [k \in Keys |-> 0] /\ repeats = [k \in Keys |-> 0] /\ closed = {}

Unrecorded(k) == rows[k] = 0 \/ k[2] = NoYear
Use(k) == claims[k] > 0 /\ claims' = [claims EXCEPT ![k] = @ - 1]
Settle(k) == owed[k] > 0 /\ owed' = [owed EXCEPT ![k] = @ - 1]
Out(k, n) == received' = [received EXCEPT ![k] = @ + n]
Doubt(k, n) == doubtful' = [doubtful EXCEPT ![k] = @ + n]

\* isDue or SendNow's check found no row of the year.
Claim(k) ==
  /\ Unrecorded(k)
  /\ claims' = [claims EXCEPT ![k] = @ + 1]
  /\ UNCHANGED <<owed, rows, received, doubtful, repeats, closed>>

\* n copies are out, the first of them to be recorded.
Send(k, n) ==
  /\ Out(k, n) /\ Use(k)
  /\ owed' = [owed EXCEPT ![k] = @ + 1]
  /\ repeats' = [repeats EXCEPT ![k] = @ + (n - 1)]
  /\ UNCHANGED <<rows, doubtful, closed>>

\* The sender gives up, before it sent (n = 0) or with an error of SendText that
\* leaves n copies out.
Fail(k, n) == Out(k, n) /\ Doubt(k, n) /\ Use(k) /\ UNCHANGED <<owed, rows, repeats, closed>>

\* The one row of a contact and year.
Record(k) ==
  /\ Settle(k) /\ Unrecorded(k) /\ k[1] \notin closed
  /\ rows' = [rows EXCEPT ![k] = @ + 1]
  /\ UNCHANGED <<claims, received, doubtful, repeats, closed>>

\* The row was refused, or its write failed.
Lose(k) == Doubt(k, 1) /\ Settle(k) /\ UNCHANGED <<claims, rows, received, repeats, closed>>

\* The contact is deleted.
Close(c) ==
  /\ c \notin closed /\ closed' = closed \cup {c}
  /\ rows' = [k \in Keys |-> IF k[1] = c THEN 0 ELSE rows[k]]
  /\ UNCHANGED <<claims, owed, received, doubtful, repeats>>

\* The process ends: what it owed is doubtful.
Lapse ==
  /\ claims' = [k \in Keys |-> 0] /\ owed' = [k \in Keys |-> 0]
  /\ doubtful' = [k \in Keys |-> doubtful[k] + owed[k]]
  /\ UNCHANGED <<rows, received, repeats, closed>>

Next ==
  \/ \E k \in Keys :
       \/ Claim(k) \/ Record(k) \/ Lose(k)
       \/ \E n \in 1 .. Attempts : Send(k, n)
       \/ \E n \in 0 .. Attempts : Fail(k, n)
  \/ \E c \in ContactIds : Close(c)
  \/ Lapse

\* The disjunct before Next changes nothing: it only tells TLC stuttering steps at once.
Spec == Init /\ [][UNCHANGED books \/ Next]_books
=============================================================================
