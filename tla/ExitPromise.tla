----------------------------- MODULE ExitPromise -----------------------------
(***************************************************************************)
(* What an orderly exit promises about a completed download: the process   *)
(* leaves only when no completion is being applied, and a completion seen  *)
(* while it was shutting down is on the disk by then, where the next start *)
(* finds it.  ExitBarrier is shown to implement this.                      *)
(***************************************************************************)

VARIABLES
  alive,   \* the process runs (FALSE: it left in good order)
  busy,    \* a completion is being applied
  owed,    \* a completion was applied after the shutdown had begun
  kept     \* the disk says that the download is complete

pvars == <<alive, busy, owed, kept>>

Init == pvars = <<TRUE, FALSE, FALSE, FALSE>>

\* A completion is taken up, and is applied or given up.
Apply ==
  /\ alive
  /\ busy' \in BOOLEAN
  /\ owed' \in BOOLEAN /\ (owed => owed')
  /\ owed' # owed => busy
  /\ kept' \in BOOLEAN /\ (owed /\ kept => kept')
  /\ UNCHANGED alive

\* The user downloads the file again.
Again == alive /\ ~busy /\ ~owed' /\ kept' \in BOOLEAN /\ UNCHANGED <<alive, busy>>

Exit == alive /\ ~busy /\ (owed => kept) /\ ~alive' /\ UNCHANGED <<busy, owed, kept>>

\* After an exit or a crash the next process knows what the disk says.
Start == alive' /\ ~busy' /\ owed' = (owed /\ kept) /\ UNCHANGED kept

Next == Apply \/ Again \/ Exit \/ Start

Spec == Init /\ [][Next]_pvars
==============================================================================
