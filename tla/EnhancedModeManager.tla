------------------------ MODULE EnhancedModeManager ------------------------
(***************************************************************************)
(* Installing, repairing, starting and removing the enhanced mode service: *)
(* the requests of the dialog and of --install and --uninstall, the worker *)
(* that talks to the service control manager (SCM) call by call            *)
(* (WindowsEnhancedModeServiceControl), and the commits that carry the     *)
(* service's registry key through the write filter                         *)
(* (EnhancedModeOperations).  Any call may fail, the service may hang or   *)
(* stop, other tools start and stop it and hold handles of it, and the     *)
(* process may die and the machine restart at any time.                    *)
(***************************************************************************)
EXTENDS FiniteSets

VARIABLES
  view,     \* the service's registry key, as the session sees it
  disk,     \* the same, as a restart finds it
  filter,   \* UWF_Filter.CurrentEnabled
  scm,      \* the SCM's own record of the service
  foreign,  \* another tool holds a handle of the service
  process,  \* the service process
  image,    \* (history) the program it runs, or ran last
  op,       \* the operation on its way
  seen,     \* the status the dialog shows
  report    \* (history) what the last operation reported

system == <<view, disk, filter, scm, foreign, process, image>>
registry == <<view, disk>>
vars == <<system, op, seen, report>>

\* What lies under the key: the service itself, the values that make up its
\* configuration, the SCM's delete flag, and a subkey.
Configuration == {"identity", "timeout", "privileges"}
Whole == {"service", "subkey"} \cup Configuration
Items == Whole \cup {"marked"}

ProcessStates == {"stopped", "starting", "running", "stopping"}
ServiceStates == {"Disabled", "Enabled", "Stopped", "RepairRequired"}

\* No process since the restart; one from before the last operation began; one started
\* since, from this program's path, or from the path an older configuration named: by an
\* operation ("old") or by another tool ("foreign").
Images == {"none", "before", "current", "old", "foreign"}

\* The targets of a registry commit; NoPlan when the filter is off.
NoPlan == {"none"}
NoOp == [pc |-> "idle", kind |-> "none", by |-> "none", plan |-> NoPlan, todo |-> {}, found |-> {},
         removal |-> "none", inherited |-> FALSE, barrier |-> FALSE, warned |-> FALSE]

Steps == {"idle", "prepare", "mark", "open", "create", "stop", "awaitStop", "start", "awaitRunning",
          "persist", "commit", "delete", "inspect", "commitDeletion", "release", "remnants",
          "finish"} \cup Configuration

Operations ==
  [pc : Steps, kind : {"none", "enable", "start", "disable"},
   by : {"none", "change", "remove", "command"}, plan : SUBSET {"none", "subkey", "key"},
   todo : SUBSET (Items \cup {"key"}), found : SUBSET {"subkey", "key"},
   removal : {"none", "absent", "already", "marked"}, inherited : BOOLEAN, barrier : BOOLEAN,
   warned : BOOLEAN]

ManagerTypeOK ==
  /\ view \subseteq Items /\ disk \subseteq Items
  /\ filter \in BOOLEAN /\ foreign \in BOOLEAN
  /\ scm \in [exists : BOOLEAN, marked : BOOLEAN]
  /\ process \in ProcessStates /\ image \in Images
  /\ op \in Operations
  /\ seen \in [state : ServiceStates \cup {"unavailable"}, remnants : BOOLEAN]

\* Installed, damaged or moved, not installed, or with an orphaned key.
Init ==
  /\ view \in {{}, {"subkey"}, Whole, Whole \ {"identity"}, Whole \ {"timeout"}}
  /\ disk = view
  /\ filter \in BOOLEAN
  /\ scm = [exists |-> "service" \in view, marked |-> FALSE]
  /\ foreign = FALSE
  /\ process \in IF scm.exists THEN {"stopped", "running"} ELSE {"stopped"}
  /\ image = "none"
  /\ op = NoOp
  /\ seen = [state |-> "unavailable", remnants |-> FALSE]
  /\ report = "none"

-----------------------------------------------------------------------------
(***************************************************************************)
(* The machine.                                                            *)
(***************************************************************************)

\* A write to the registry reaches the disk only without the filter.
Store(tree) ==
  /\ view' = tree
  /\ disk' = IF filter THEN disk ELSE tree

\* The SCM removes a marked service once it has stopped and nobody holds a handle.
Released(held, others, state) ==
  IF scm.marked /\ ~held /\ ~others /\ state = "stopped"
  THEN scm' = [exists |-> FALSE, marked |-> FALSE] /\ Store({})
  ELSE UNCHANGED <<scm, registry>>

ForeignHandle ==
  /\ scm.exists
  /\ foreign' = ~foreign
  /\ Released(op.barrier, foreign', process)
  /\ UNCHANGED <<filter, process, image, op, seen, report>>

\* A start runs the program that is configured at that moment.
Start(outdated) ==
  /\ process = "stopped" /\ process' = "starting"
  /\ image' = IF "identity" \in view THEN "current" ELSE outdated

\* The service comes up, stops or fails; others start and stop it, also between two
\* calls of an operation.
ServiceMoves ==
  /\ scm.exists
  /\ \/ process = "starting" /\ process' \in {"running", "stopped"} /\ UNCHANGED image
     \/ process = "stopping" /\ process' = "stopped" /\ UNCHANGED image
     \/ process = "running" /\ process' \in {"stopping", "stopped"} /\ UNCHANGED image
     \/ ~scm.marked /\ Start("foreign")
  /\ Released(op.barrier, foreign, process')
  /\ UNCHANGED <<filter, foreign, op, seen, report>>

\* The process that runs the operation is gone; its handles are closed.
ProcessEnds ==
  /\ Released(FALSE, foreign, process)
  /\ op' = NoOp
  /\ seen' = [state |-> "unavailable", remnants |-> FALSE]
  /\ UNCHANGED <<filter, foreign, process, image, report>>

\* The overlay is discarded, the filter may have been switched, and the SCM reads its
\* database anew, dropping what is marked: under the filter only from the session.
MachineRestarts ==
  /\ filter' \in BOOLEAN
  /\ view' = IF "marked" \in disk THEN {} ELSE disk
  /\ disk' = IF filter' THEN disk ELSE view'
  /\ scm' = [exists |-> "service" \in view', marked |-> FALSE]
  /\ foreign' = FALSE /\ process' = "stopped" /\ image' = "none"
  /\ op' = NoOp
  /\ seen' = [state |-> "unavailable", remnants |-> FALSE]
  /\ UNCHANGED report

-----------------------------------------------------------------------------
(***************************************************************************)
(* The status, and the requests.                                           *)
(***************************************************************************)

\* query; a marked service cannot be opened and counts as absent
Query ==
  LET opened == scm.exists /\ ~scm.marked
      configured == opened /\ Configuration \subseteq view
  IN [state |-> CASE ~opened -> IF view # {} THEN "RepairRequired" ELSE "Disabled"
                  [] configured /\ process = "running" -> "Enabled"
                  [] configured /\ process # "running" -> "Stopped"
                  [] OTHER -> "RepairRequired",
      remnants |-> opened \/ view # {}]

Unavailable == [state |-> "unavailable", remnants |-> FALSE]

\* A running service that does not accept PRESHUTDOWN yet is in need of repair.
Statuses == {Query, Unavailable}
            \cup (IF Query.state = "Enabled" THEN {[Query EXCEPT !.state = "RepairRequired"]} ELSE {})

\* The dialog is opened, or its retry button pressed.
RefreshStatus ==
  /\ op = NoOp
  /\ seen' \in Statuses
  /\ UNCHANGED <<system, op, report>>

Begin(kind, by) ==
  /\ op = NoOp
  /\ op' = [NoOp EXCEPT !.kind = kind, !.by = by, !.pc = IF kind = "disable" THEN "prepare" ELSE "open"]
  /\ image' = "before" /\ report' = "none"
  /\ UNCHANGED <<registry, filter, scm, foreign, process, seen>>

\* availableAction
ActionOf(state) ==
  CASE state = "Enabled" -> "disable"
    [] state = "Stopped" -> "start"
    [] OTHER -> "enable"

\* Both rely on the status last seen.
ApplyRequestedState ==
  /\ seen.state # "unavailable"
  /\ Begin(ActionOf(seen.state), "change")

RemoveService ==
  /\ seen.remnants
  /\ Begin("disable", "remove")

\* runServiceControlCommand asks nobody.
RunServiceControlCommand(kind) == Begin(kind, "command")

Goto(pc) == op' = [op EXCEPT !.pc = pc]

\* An exception ends the operation; a removal's barrier is not held yet.
Failed ==
  /\ op' = NoOp
  /\ report' = "failed"
  /\ seen' \in Statuses
  /\ UNCHANGED system

\* Every call outside the waits and the commits may throw.
CallFails ==
  /\ op.pc \in {"prepare", "mark", "open", "create", "stop", "start", "delete", "finish"} \cup Configuration
  /\ Failed

-----------------------------------------------------------------------------
(***************************************************************************)
(* installAndStart, start and stopService.                                 *)
(***************************************************************************)

Open ==
  /\ op.pc = "open"
  /\ LET opened == scm.exists /\ ~scm.marked
     IN \/ op.kind = "enable" /\ Goto(IF opened THEN "stop" ELSE "create")
        \/ op.kind = "start" /\ opened /\ Goto("start")
  /\ UNCHANGED <<system, seen, report>>

CreateService ==
  /\ op.pc = "create" /\ ~scm.exists
  /\ scm' = [exists |-> TRUE, marked |-> FALSE]
  /\ Store(view \cup {"service", "subkey", "identity"})
  /\ Goto("timeout")
  /\ UNCHANGED <<filter, foreign, process, image, seen, report>>

AfterStop == IF op.kind = "enable" THEN "identity" ELSE "delete"

\* stopService, once no start is on its way
StopService ==
  \/ process = "stopped" /\ Goto(AfterStop) /\ UNCHANGED process
  \/ process = "stopping" /\ Goto("awaitStop") /\ UNCHANGED process
  \/ process = "running" /\ process' = "stopping" /\ Goto("awaitStop")

Stop ==
  /\ op.pc = "stop"
  /\ StopService
  /\ UNCHANGED <<registry, filter, scm, foreign, image, seen, report>>

\* Variant: only a service that has stopped ends the wait.
TimedOutNever ==
  /\ op.pc = "awaitRunning" /\ process = "stopped"
  /\ Failed

\* The deadlines of waitForState and waitForStartToSettle, a service that stops
\* instead of starting, and a status that cannot be read.
TimedOut ==
  /\ \/ op.pc = "stop" /\ process = "starting"
     \/ op.pc = "awaitStop"
     \/ op.pc = "awaitRunning"
  /\ Failed

AwaitStop ==
  /\ op.pc = "awaitStop" /\ process = "stopped"
  /\ Goto(AfterStop)
  /\ UNCHANGED <<system, seen, report>>

\* ChangeServiceConfig and ChangeServiceConfig2, one after the other
Configure ==
  /\ op.pc \in Configuration
  /\ Store(view \cup {op.pc})
  /\ Goto(CASE op.pc = "identity" -> "timeout" [] op.pc = "timeout" -> "privileges"
            [] OTHER -> "start")
  /\ UNCHANGED <<filter, scm, foreign, process, image, seen, report>>

\* ERROR_SERVICE_ALREADY_RUNNING is as good as a start.
StartService ==
  /\ op.pc = "start"
  /\ Start("old") \/ (process # "stopped" /\ UNCHANGED <<process, image>>)
  /\ Goto("awaitRunning")
  /\ UNCHANGED <<registry, filter, scm, foreign, seen, report>>

AwaitRunning ==
  /\ op.pc = "awaitRunning" /\ process = "running"
  /\ Goto(IF op.kind = "enable" THEN "persist" ELSE "finish")
  /\ UNCHANGED <<system, seen, report>>

-----------------------------------------------------------------------------
(***************************************************************************)
(* The commits through the filter.                                         *)
(***************************************************************************)

Warned(pc) == op' = [op EXCEPT !.pc = pc, !.warned = TRUE, !.todo = {}]

\* persistInstallation up to the first commit: the filter's state, the plan and
\* the filter's row; what throws here becomes a warning.
PersistInstallation ==
  /\ op.pc = "persist"
  /\ \/ Warned("finish")
     \/ ~filter /\ Goto("finish")
     \/ filter /\ op' = [op EXCEPT !.pc = "commit", !.todo = view]
  /\ UNCHANGED <<system, seen, report>>

\* Variant: a value that cannot be committed is passed over.
CommitUnnoted ==
  /\ op.pc = "commit" /\ op.todo # {}
  /\ \E item \in op.todo, effect, ok \in BOOLEAN :
       /\ ok => effect
       /\ disk' = IF effect THEN disk \cup {item} ELSE disk
       /\ op' = [op EXCEPT !.todo = @ \ {item}]
  /\ UNCHANGED <<view, filter, scm, foreign, process, image, seen, report>>

\* RegistryTreeCommitter::commit: every value is tried, failures are collected.
Commit ==
  /\ op.pc = "commit" /\ op.todo # {}
  /\ \E item \in op.todo, effect, ok \in BOOLEAN :
       /\ ok => effect
       /\ disk' = IF effect THEN disk \cup {item} ELSE disk
       /\ op' = [op EXCEPT !.todo = @ \ {item}, !.warned = @ \/ ~ok]
  /\ UNCHANGED <<view, filter, scm, foreign, process, image, seen, report>>

CommitDone ==
  /\ op.pc = "commit" /\ op.todo = {}
  /\ Goto("finish")
  /\ UNCHANGED <<system, seen, report>>

\* planRegistryTreeDeletion: the keys of the tree, children first
DeletionPlan == (view \cap {"subkey"}) \cup (IF view = {} THEN {} ELSE {"key"})

\* prepareRemovalPersistence: made before the SCM is touched
PrepareRemoval ==
  /\ op.pc = "prepare"
  /\ op' = [op EXCEPT !.pc = "mark", !.inherited = scm.marked,
                      !.plan = IF filter THEN DeletionPlan ELSE NoPlan]
  /\ UNCHANGED <<system, seen, report>>

\* stopAndMarkForDeletion: absent, marked by an earlier removal, or to be stopped
OpenForRemoval ==
  /\ op.pc = "mark"
  /\ op' = IF scm.exists /\ ~scm.marked THEN [op EXCEPT !.pc = "stop"]
           ELSE [op EXCEPT !.pc = "inspect", !.removal = IF scm.exists THEN "already" ELSE "absent",
                           !.todo = op.plan \ NoPlan]
  /\ UNCHANGED <<system, seen, report>>

\* Variant: the handle is closed before the deletion is committed.
DeleteServiceUnguarded ==
  /\ op.pc = "delete"
  /\ op' = [op EXCEPT !.pc = "inspect", !.removal = "marked", !.todo = op.plan \ NoPlan]
  /\ IF foreign \/ process # "stopped"
     THEN scm' = [scm EXCEPT !.marked = TRUE] /\ Store(view \cup {"marked"})
     ELSE scm' = [exists |-> FALSE, marked |-> FALSE] /\ Store({})
  /\ UNCHANGED <<filter, foreign, process, image, seen, report>>

\* DeleteService marks the service; the barrier keeps it from being removed.
DeleteService ==
  /\ op.pc = "delete"
  /\ scm' = [scm EXCEPT !.marked = TRUE]
  /\ Store(view \cup {"marked"})
  /\ op' = [op EXCEPT !.pc = "inspect", !.removal = "marked", !.barrier = TRUE,
                      !.todo = op.plan \ NoPlan]
  /\ UNCHANGED <<filter, foreign, process, image, seen, report>>

Exists(target) == IF target = "key" THEN view # {} ELSE target \in view

\* commitDeletion, first half: targets that are gone already are skipped.
Inspect ==
  /\ op.pc = "inspect"
  /\ \/ \E target \in op.todo :
          op' \in {[op EXCEPT !.todo = @ \ {target},
                              !.found = IF Exists(target) THEN @ \cup {target} ELSE @],
                   [op EXCEPT !.todo = @ \ {target}, !.warned = TRUE]}
     \/ op.todo = {} /\ op.found = {} /\ Goto("release")
     \/ op.todo = {} /\ op.found # {} /\ (Goto("commitDeletion") \/ Warned("release"))
  /\ UNCHANGED <<system, seen, report>>

\* Second half: children first; UWF_RegistryFilter.CommitRegistryDeletion removes
\* from the session and from the disk.
CommitDeletion ==
  /\ op.pc = "commitDeletion" /\ op.found # {}
  /\ \E effect, ok \in BOOLEAN :
       LET target == IF "subkey" \in op.found THEN "subkey" ELSE "key"
           without(tree) == IF ~effect THEN tree ELSE IF target = "key" THEN {} ELSE tree \ {target}
       IN /\ ok => effect
          /\ view' = without(view) /\ disk' = without(disk)
          /\ op' = [op EXCEPT !.found = @ \ {target}, !.warned = @ \/ ~ok]
  /\ UNCHANGED <<filter, scm, foreign, process, image, seen, report>>

CommitDeletionDone ==
  /\ op.pc = "commitDeletion" /\ op.found = {}
  /\ Goto("release")
  /\ UNCHANGED <<system, seen, report>>

\* removal.barrier.reset(), and where the remnants are nobody's, their deletion
ReleaseBarrier ==
  /\ op.pc = "release"
  /\ op' = [op EXCEPT !.barrier = FALSE,
                      !.pc = IF op.plan = NoPlan /\ op.removal = "absent" THEN "remnants" ELSE "finish"]
  /\ Released(FALSE, foreign, process)
  /\ UNCHANGED <<filter, foreign, process, image, seen, report>>

DeleteRegistryRemnants ==
  /\ op.pc = "remnants"
  /\ \/ Store({}) /\ Goto("finish")
     \/ Store(view \ {"subkey"}) /\ Warned("finish")
     \/ UNCHANGED registry /\ Warned("finish")
  /\ UNCHANGED <<filter, scm, foreign, process, image, seen, report>>

\* The message of finishOperation, or an exit code.  An installation may lie over the
\* mark that an earlier removal left on the disk; a removal that found nothing to plan
\* for, or a mark that is not its own, relies on an earlier one.
Message ==
  CASE op.warned -> "warned"
    [] ~op.warned /\ op.kind = "enable" ->
         IF "marked" \in disk THEN "appliedOverMark" ELSE "applied"
    [] ~op.warned /\ op.kind = "start" -> "started"
    [] ~op.warned /\ op.kind = "disable" ->
         IF op.plan = NoPlan \/ (op.plan # {} /\ ~op.inherited) THEN "deleted"
         ELSE IF op.by = "remove" THEN "deletedEarlier" ELSE "reached"

\* status() and acceptChangeResult
Finish ==
  /\ op.pc = "finish"
  /\ op' = NoOp
  /\ seen' \in Statuses \ {Unavailable}
  /\ report' = Message
  /\ UNCHANGED system

Work ==
  \/ CallFails \/ TimedOut
  \/ Open \/ CreateService \/ Stop \/ AwaitStop \/ Configure \/ StartService \/ AwaitRunning
  \/ PersistInstallation \/ Commit \/ CommitDone
  \/ PrepareRemoval \/ OpenForRemoval \/ DeleteService \/ Inspect \/ CommitDeletion
  \/ CommitDeletionDone \/ ReleaseBarrier \/ DeleteRegistryRemnants \/ Finish

Next ==
  \/ ForeignHandle \/ ServiceMoves \/ ProcessEnds \/ MachineRestarts
  \/ RefreshStatus
  \/ ApplyRequestedState \/ RemoveService
  \/ \E kind \in {"enable", "disable"} : RunServiceControlCommand(kind)
  \/ Work

\* The worker runs; neither the service nor anybody else has to move.
Spec == Init /\ [][Next]_vars /\ WF_vars(Work)

-----------------------------------------------------------------------------
(***************************************************************************)
(* Properties.                                                             *)
(***************************************************************************)

\* "The enhanced mode configuration was applied", without a warning, on a disk that
\* holds no mark of an earlier removal: the whole service is still there after any
\* number of restarts, with the filter on or off, whatever others do with it.  The
\* process that ran before a repair is gone, and the repair itself has started none
\* from an older path; another tool may have, before the path was set.
AppliedIsTrue ==
  report = "applied" =>
    /\ {"service"} \cup Configuration \subseteq view \cap disk
    /\ scm.exists /\ ~scm.marked
    /\ image \notin {"before", "old"}

\* A restart finds no service.
Gone(tree) == tree = {} \/ "marked" \in tree

\* A removal without a warning that found the service's tree, and no mark an earlier
\* removal has left, keeps the service away for good: no restart brings it back.
RemovalIsTrue == report = "deleted" => Gone(disk)

\* Every operation ends, whatever the service does: the dialog's buttons come back.
OperationEnds == op.pc # "idle" ~> op.pc = "idle"

\* What the dialog says of every removal without a warning: "The enhanced mode
\* service and its remaining configuration were deleted."
DeletedIsDeleted == report \in {"deleted", "deletedEarlier"} => Gone(disk)

\* What the dialog says of every installation without a warning, as opposed to "but UWF
\* persistence reported": "The enhanced mode configuration was applied."
AppliedIsKept ==
  report \in {"applied", "appliedOverMark"} => {"service"} \cup Configuration \subseteq view
=============================================================================
