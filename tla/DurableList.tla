---------------------------- MODULE DurableList ----------------------------
(***************************************************************************)
(* What saving the file staging list promises: from the moment the program *)
(* reports a list as saved, and until it starts the next write, that list  *)
(* is what a restart of the machine finds.                                 *)
(***************************************************************************)
CONSTANTS Lists, Nothing

VARIABLES
  durable,  \* the list a restart finds
  promise   \* the list last reported as saved, or Nothing

vars == <<durable, promise>>

Init == durable \in Lists /\ promise = Nothing

BeginWrite ==
  /\ promise' = Nothing
  /\ UNCHANGED durable

Change ==
  /\ promise = Nothing
  /\ durable' \in Lists
  /\ UNCHANGED promise

Report ==
  /\ promise = Nothing
  /\ promise' = durable
  /\ UNCHANGED durable

Next == BeginWrite \/ Change \/ Report

Spec == Init /\ [][Next]_vars
=============================================================================
