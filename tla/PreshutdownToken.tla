-------------------------- MODULE PreshutdownToken --------------------------
(***************************************************************************)
(* What the safe power flow may rely on when it tells the service that the *)
(* staged files are already saved.  The UI knows the service to need its   *)
(* own commit ("Required"), to be told to skip it ("Handled"), or it does  *)
(* not know, because an answer is outstanding or was lost.  Whatever the   *)
(* channel does, the service never skips its commit against that           *)
(* knowledge, and it decides once.                                         *)
(***************************************************************************)

VARIABLES
  known,     \* what the UI may conclude about the service's skip token
  decision   \* what the service did at PRESHUTDOWN

tokenVars == <<known, decision>>

TokenInit ==
  /\ known = "Required"
  /\ decision = "none"

\* A control is on its way; its effect is open until it is acknowledged.
Ask == known' = "Unknown" /\ UNCHANGED decision

Acknowledge ==
  /\ known = "Unknown"
  /\ known' \in {"Required", "Handled"}
  /\ UNCHANGED decision

\* An expired token makes the service commit although it was told not to; it
\* never makes it skip a commit it was told to do.
Decide ==
  /\ decision = "none"
  /\ decision' \in (IF known = "Required" THEN {"commit"} ELSE {"commit", "skip"})
  /\ UNCHANGED known

TokenNext == Ask \/ Acknowledge \/ Decide

TokenSpec == TokenInit /\ [][TokenNext]_tokenVars
=============================================================================
