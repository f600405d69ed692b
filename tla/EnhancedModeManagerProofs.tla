--------------------- MODULE EnhancedModeManagerProofs ---------------------
(***************************************************************************)
(* What an operation of the enhanced mode manager reports is true and      *)
(* stays true, after every sequence of operations, failures, restarts and  *)
(* actions of other tools.                                                 *)
(*                                                                         *)
(* The inductive invariant relates the three records of the service - the  *)
(* session's registry, the disk's and the SCM's - and says for every step  *)
(* of an operation what has been achieved by then.  The report itself only *)
(* says what holds at the last step; that it stays true until the next     *)
(* operation begins needs the relation between the records, because the    *)
(* SCM and a restart both rewrite them.                                    *)
(***************************************************************************)
EXTENDS EnhancedModeManager, TLAPS

\* The registry as the session sees it, on the disk, and what the SCM knows.
RecordsAgree ==
  /\ ~filter => disk = view
  /\ "marked" \in view => scm.marked
  /\ scm.marked => scm.exists /\ Gone(view)
  /\ scm.exists /\ ~scm.marked => "service" \in view
  /\ ~scm.exists => process = "stopped"

Usable == scm.exists /\ ~scm.marked

\* The process is not the one from before the operation, nor one the operation has
\* started from an older path.
Replaced == image \notin {"before", "old"}

\* A report stands until the next operation begins; an installation is reported as
\* applied over no mark of an earlier removal.
ReportIsLast ==
  /\ op.pc = "idle" => op = NoOp
  /\ op.pc # "idle" => report = "none"
  /\ report = "applied" => Usable /\ "marked" \notin disk

\* Which steps belong to which request; only a service that can be opened is started.
StepsFollowKind ==
  /\ op.pc # "idle" => op.kind # "none"
  /\ op.pc \in {"create", "persist", "commit"} \cup Configuration => op.kind = "enable"
  /\ op.pc \in {"prepare", "mark", "delete", "inspect", "commitDeletion", "release", "remnants"} =>
       op.kind = "disable"
  /\ op.pc \in {"stop", "awaitStop"} => op.kind \in {"enable", "disable"}
  /\ op.pc \in {"open", "start", "awaitRunning"} => op.kind \in {"enable", "start"}
  /\ op.kind = "start" /\ op.pc # "open" => Usable

\* What an installation has achieved at each of its steps.
InstallationIsDone ==
  op.kind = "enable" =>
    /\ op.pc \notin {"open", "create"} => Usable
    /\ op.pc = "timeout" => "identity" \in view
    /\ op.pc = "privileges" => {"identity", "timeout"} \subseteq view
    /\ op.pc \in {"start", "awaitRunning", "persist", "commit", "finish"} => Configuration \subseteq view
    /\ op.pc \in Configuration \cup {"start"} => process = "stopped" \/ Replaced
    /\ op.pc \in {"awaitRunning", "persist", "commit", "finish"} => Replaced
    /\ op.pc = "commit" => /\ filter /\ op.todo \subseteq view
                           /\ op.warned \/ view \ op.todo \subseteq disk
    /\ op.pc = "finish" => op.warned \/ view \subseteq disk

\* A removal that has a plan of its own to carry out through the filter.
Planned == filter /\ op.plan # {} /\ ~op.inherited

\* The service is marked by this removal or an earlier one, or gone.
RemovalIsMarked ==
  op.kind = "disable" =>
    /\ op.pc # "prepare" => (op.plan = NoPlan <=> ~filter)
    /\ op.pc \in {"prepare", "mark", "stop", "awaitStop", "delete"} => op.found = {}
    /\ op.pc = "mark" /\ ~op.inherited => ~scm.marked
    /\ op.pc \in {"stop", "awaitStop", "delete"} => Usable
    /\ op.pc = "inspect" => op.todo \subseteq {"subkey", "key"}
    /\ op.pc \in {"inspect", "commitDeletion", "release"} =>
         /\ ~Usable
         /\ \/ op.removal = "marked" /\ op.barrier
            \/ op.removal = "absent" /\ ~scm.exists
            \/ op.removal = "already" /\ op.inherited
    /\ op.pc = "remnants" => ~filter /\ ~scm.exists

\* The removal's handle keeps the marked service from going away.
BarrierIsHeld ==
  op.barrier => /\ op.pc \in {"inspect", "commitDeletion", "release"}
                /\ scm.marked

\* What a removal without the filter, and one through it, has achieved.
RemovalIsDone ==
  op.kind = "disable" =>
    /\ ~filter =>
         /\ op.pc \in {"inspect", "commitDeletion", "release"} =>
              /\ op.todo = {} /\ op.found = {}
              /\ op.removal # "absent" => Gone(disk)
         /\ op.pc = "finish" => op.warned \/ Gone(disk)
    /\ Planned /\ op.pc # "prepare" =>
         /\ "key" \in op.plan
         /\ op.pc \in {"mark", "inspect"} => view # {}
         /\ op.pc = "inspect" => op.warned \/ "key" \in op.todo \cup op.found
         /\ op.pc = "commitDeletion" => op.warned \/ "key" \in op.found \/ disk = {}
         /\ op.pc \in {"release", "finish"} => op.warned \/ disk = {}

ManagerInv ==
  /\ ManagerTypeOK
  /\ RecordsAgree
  /\ ReportIsLast
  /\ StepsFollowKind
  /\ InstallationIsDone
  /\ RemovalIsMarked
  /\ BarrierIsHeld
  /\ RemovalIsDone
  /\ AppliedIsTrue
  /\ RemovalIsTrue

-----------------------------------------------------------------------------
(***************************************************************************)
(* The machine.                                                            *)
(***************************************************************************)

\* The state a removed or finished operation leaves.
Quiet == /\ StepsFollowKind /\ InstallationIsDone /\ RemovalIsMarked /\ BarrierIsHeld
         /\ RemovalIsDone

\* Without an operation there is nothing an operation has to have achieved.
LEMMA NoOperation ==
  ASSUME op' = NoOp
  PROVE  Quiet' /\ op' \in Operations /\ op'.pc = "idle"
<1>1. /\ op'.pc = "idle" /\ op'.kind = "none" /\ op'.barrier = FALSE
      /\ op' \in Operations
  BY DEF NoOp, Operations, Steps, Configuration, NoPlan
<1> QED BY <1>1 DEF Quiet, StepsFollowKind, InstallationIsDone, RemovalIsMarked, BarrierIsHeld,
                    RemovalIsDone, Configuration

\* The SCM removes a marked service, or everything stays.
LEMMA ReleasedIs ==
  ASSUME ManagerInv, NEW held, NEW others, NEW state, Released(held, others, state), filter' = filter
  PROVE  /\ view' \subseteq Items /\ disk' \subseteq Items
         /\ scm' \in [exists : BOOLEAN, marked : BOOLEAN]
         /\ \/ UNCHANGED <<scm, view, disk>>
            \/ /\ scm.marked /\ ~held /\ state = "stopped"
               /\ ~scm'.exists /\ ~scm'.marked /\ view' = {}
               /\ disk' = IF filter THEN disk ELSE {}
<1>1. CASE scm.marked /\ ~held /\ ~others /\ state = "stopped"
  <2>1. /\ scm' = [exists |-> FALSE, marked |-> FALSE] /\ view' = {}
        /\ disk' = IF filter THEN disk ELSE {}
    BY <1>1 DEF Released, Store
  <2>2. disk \subseteq Items
    BY DEF ManagerInv, ManagerTypeOK
  <2> QED BY <1>1, <2>1, <2>2
<1>2. CASE ~(scm.marked /\ ~held /\ ~others /\ state = "stopped")
  BY <1>2 DEF Released, registry, ManagerInv, ManagerTypeOK
<1> QED BY <1>1, <1>2

LEMMA ReleaseKeepsRecords ==
  ASSUME ManagerInv, NEW held, NEW others, NEW state, Released(held, others, state), filter' = filter,
         process' = state, scm.exists \/ process' = process
  PROVE  RecordsAgree' /\ (report' = report => RemovalIsTrue')
<1>1. CASE UNCHANGED <<scm, view, disk>>
  BY <1>1 DEF ManagerInv, RecordsAgree, RemovalIsTrue, Gone
<1>2. CASE /\ scm.marked /\ state = "stopped"
           /\ ~scm'.exists /\ ~scm'.marked /\ view' = {}
           /\ disk' = IF filter THEN disk ELSE {}
  BY <1>2 DEF ManagerInv, RecordsAgree, RemovalIsTrue, Gone
<1> QED BY <1>1, <1>2, ReleasedIs

\* Another tool's handle and the service itself move under an operation.
LEMMA MachineStep ==
  ASSUME ManagerInv, ForeignHandle \/ ServiceMoves
  PROVE  ManagerInv'
<1>1. /\ scm.exists /\ UNCHANGED <<filter, op, seen, report>>
      /\ foreign' \in BOOLEAN /\ image' \in Images /\ process' \in ProcessStates
      /\ Replaced => Replaced'
      /\ process = "stopped" => process' = "stopped" \/ Replaced'
      /\ \E others : Released(op.barrier, others, process')
  <2>1. CASE ForeignHandle
    BY <2>1 DEF ForeignHandle, ManagerInv, ManagerTypeOK, Replaced
  <2>2. CASE ServiceMoves
    <3>1. Released(op.barrier, foreign, process')
      BY <2>2 DEF ServiceMoves
    <3>2. /\ process' \in ProcessStates
          /\ \/ image' = image /\ process # "stopped"
             \/ image' \in {"foreign", "current"}
      BY <2>2 DEF ServiceMoves, Start, ProcessStates
    <3>3. image \in Images
      BY DEF ManagerInv, ManagerTypeOK
    <3>4. scm.exists /\ UNCHANGED <<filter, op, seen, report>> /\ foreign' \in BOOLEAN
      BY <2>2 DEF ServiceMoves, ManagerInv, ManagerTypeOK
    <3>5. \E others : Released(op.barrier, others, process')
      BY <3>1
    <3>6. /\ image' \in Images /\ (Replaced => Replaced')
          /\ process = "stopped" => Replaced'
      BY <3>2, <3>3 DEF Images, Replaced
    <3> QED BY <3>2, <3>4, <3>5, <3>6
  <2> QED BY <2>1, <2>2
<1>2. PICK others : Released(op.barrier, others, process')
  BY <1>1
<1>3. /\ view' \subseteq Items /\ disk' \subseteq Items
      /\ scm' \in [exists : BOOLEAN, marked : BOOLEAN]
      /\ \/ UNCHANGED <<scm, view, disk>>
         \/ /\ scm.marked /\ ~op.barrier
            /\ ~scm'.exists /\ ~scm'.marked /\ view' = {}
            /\ disk' = IF filter THEN disk ELSE {}
  BY <1>1, <1>2, ReleasedIs
<1>4. ManagerTypeOK'
  BY <1>1, <1>3 DEF ManagerInv, ManagerTypeOK
<1>5. RecordsAgree' /\ RemovalIsTrue'
  BY <1>1, <1>2, ReleaseKeepsRecords
<1>6. ReportIsLast' /\ AppliedIsTrue'
  BY <1>1, <1>3 DEF ManagerInv, ReportIsLast, AppliedIsTrue, Usable, Replaced
<1>7. StepsFollowKind' /\ BarrierIsHeld'
  BY <1>1, <1>3 DEF ManagerInv, StepsFollowKind, BarrierIsHeld, Usable
<1>8. InstallationIsDone'
  BY <1>1, <1>3 DEF ManagerInv, InstallationIsDone, Usable, Configuration
<1>9. RemovalIsMarked'
  BY <1>1, <1>3 DEF ManagerInv, RemovalIsMarked, Usable
<1>10. RemovalIsDone'
  BY <1>1, <1>3 DEF ManagerInv, RemovalIsDone, RemovalIsMarked, Planned, Usable, Gone
<1> QED BY <1>4, <1>5, <1>6, <1>7, <1>8, <1>9, <1>10 DEF ManagerInv

LEMMA ProcessEndsStep ==
  ASSUME ManagerInv, ProcessEnds
  PROVE  ManagerInv'
<1>1. /\ op' = NoOp /\ Released(FALSE, foreign, process)
      /\ UNCHANGED <<filter, foreign, process, image, report>>
      /\ seen' = [state |-> "unavailable", remnants |-> FALSE]
  BY DEF ProcessEnds
<1>2. /\ view' \subseteq Items /\ disk' \subseteq Items
      /\ scm' \in [exists : BOOLEAN, marked : BOOLEAN]
      /\ \/ UNCHANGED <<scm, view, disk>>
         \/ scm.marked
  BY <1>1, ReleasedIs
<1>3. ManagerTypeOK'
  BY <1>1, <1>2, NoOperation DEF ManagerInv, ManagerTypeOK
<1>4. RecordsAgree' /\ RemovalIsTrue'
  BY <1>1, ReleaseKeepsRecords
<1>5. ReportIsLast' /\ AppliedIsTrue'
  BY <1>1, <1>2, NoOperation DEF ManagerInv, ReportIsLast, AppliedIsTrue, Usable
<1> QED BY <1>1, <1>3, <1>4, <1>5, NoOperation DEF ManagerInv, Quiet

LEMMA MachineRestartsStep ==
  ASSUME ManagerInv, MachineRestarts
  PROVE  ManagerInv'
<1>1. /\ filter' \in BOOLEAN
      /\ view' = (IF "marked" \in disk THEN {} ELSE disk)
      /\ disk' = (IF filter' THEN disk ELSE view')
      /\ scm' = [exists |-> "service" \in view', marked |-> FALSE]
      /\ foreign' = FALSE /\ process' = "stopped" /\ image' = "none"
      /\ op' = NoOp
      /\ seen' = [state |-> "unavailable", remnants |-> FALSE]
      /\ UNCHANGED report
  BY DEF MachineRestarts, ManagerInv, ManagerTypeOK
<1>2. /\ scm' \in [exists : BOOLEAN, marked : BOOLEAN]
      /\ scm'.exists <=> "service" \in view'
      /\ ~scm'.marked
  <2>1. CASE "service" \in view'
    <3>1. scm' = [exists |-> TRUE, marked |-> FALSE]
      BY <1>1, <2>1
    <3> QED BY <2>1, <3>1
  <2>2. CASE "service" \notin view'
    <3>1. ("service" \in view') = FALSE
      BY <2>2
    <3>2. scm' = [exists |-> FALSE, marked |-> FALSE]
      BY <1>1, <3>1
    <3> QED BY <2>2, <3>2
  <2> QED BY <2>1, <2>2
<1>3. ManagerTypeOK'
  BY <1>1, <1>2, NoOperation DEF ManagerInv, ManagerTypeOK, ProcessStates, Images
<1>4. RecordsAgree'
  BY <1>1, <1>2 DEF ManagerInv, RecordsAgree
<1>5. AppliedIsTrue' /\ ReportIsLast'
  BY <1>1, <1>2, NoOperation DEF ManagerInv, ReportIsLast, AppliedIsTrue, Usable
<1>6. RemovalIsTrue'
  BY <1>1, <1>2 DEF ManagerInv, RemovalIsTrue, Gone
<1> QED BY <1>1, <1>3, <1>4, <1>5, <1>6, NoOperation DEF ManagerInv, Quiet

-----------------------------------------------------------------------------
(***************************************************************************)
(* The requests and the ends of an operation.                              *)
(***************************************************************************)

\* The statuses the dialog can be given.
LEMMA StatusesAreTyped ==
  ASSUME NEW status \in Statuses
  PROVE  status \in [state : ServiceStates \cup {"unavailable"}, remnants : BOOLEAN]
<1>1. Query \in [state : ServiceStates, remnants : BOOLEAN]
  <2> DEFINE opened == scm.exists /\ ~scm.marked
             configured == opened /\ Configuration \subseteq view
             state == CASE ~opened -> IF view # {} THEN "RepairRequired" ELSE "Disabled"
                        [] configured /\ process = "running" -> "Enabled"
                        [] configured /\ process # "running" -> "Stopped"
                        [] OTHER -> "RepairRequired"
             remnants == opened \/ view # {}
  <2>1. state \in ServiceStates
    BY DEF ServiceStates
  <2>2. remnants \in BOOLEAN
    OBVIOUS
  <2>3. Query = [state |-> state, remnants |-> remnants]
    BY Zenon DEF Query
  <2> HIDE DEF state, remnants
  <2> QED BY <2>1, <2>2, <2>3
<1>2. Unavailable \in [state : ServiceStates \cup {"unavailable"}, remnants : BOOLEAN]
  BY DEF Unavailable
<1>3. [Query EXCEPT !.state = "RepairRequired"] \in [state : ServiceStates, remnants : BOOLEAN]
  BY <1>1 DEF ServiceStates
<1>4. status = Query \/ status = Unavailable \/ status = [Query EXCEPT !.state = "RepairRequired"]
  BY DEF Statuses
<1> QED BY <1>1, <1>2, <1>3, <1>4

LEMMA RefreshStatusStep ==
  ASSUME ManagerInv, RefreshStatus
  PROVE  ManagerInv'
<1>1. UNCHANGED <<view, disk, filter, scm, foreign, process, image, op, report>> /\ seen' \in Statuses
  BY DEF RefreshStatus, system
<1>2. ManagerTypeOK'
  BY <1>1, StatusesAreTyped DEF ManagerInv, ManagerTypeOK
<1> QED BY <1>1, <1>2 DEF ManagerInv, RecordsAgree, ReportIsLast, StepsFollowKind, InstallationIsDone,
                          RemovalIsMarked, BarrierIsHeld, RemovalIsDone, AppliedIsTrue, RemovalIsTrue,
                          Usable, Replaced, Planned

LEMMA BeginStep ==
  ASSUME ManagerInv, NEW kind \in {"enable", "start", "disable"},
         NEW by \in {"change", "remove", "command"}, Begin(kind, by)
  PROVE  ManagerInv'
<1>1. /\ UNCHANGED <<view, disk, filter, scm, foreign, process, seen>>
      /\ image' = "before" /\ report' = "none"
      /\ op' = [NoOp EXCEPT !.kind = kind, !.by = by,
                            !.pc = IF kind = "disable" THEN "prepare" ELSE "open"]
  BY DEF Begin, registry
<1>2. /\ op' \in Operations /\ op'.kind = kind /\ op'.found = {} /\ ~op'.barrier
      /\ op'.pc = IF kind = "disable" THEN "prepare" ELSE "open"
  <2>1. NoOp \in Operations /\ NoOp.found = {} /\ NoOp.barrier = FALSE
    BY DEF NoOp, Operations, Steps, Configuration, NoPlan
  <2> QED BY <1>1, <2>1, ZenonT(60) DEF Operations, Steps
<1>3. ManagerTypeOK'
  BY <1>1, <1>2 DEF ManagerInv, ManagerTypeOK, Images
<1>4. RecordsAgree' /\ ReportIsLast' /\ AppliedIsTrue' /\ RemovalIsTrue'
  BY <1>1, <1>2 DEF ManagerInv, RecordsAgree, ReportIsLast, AppliedIsTrue, RemovalIsTrue
<1>5. /\ StepsFollowKind' /\ InstallationIsDone' /\ RemovalIsMarked' /\ BarrierIsHeld'
      /\ RemovalIsDone'
  BY <1>2 DEF StepsFollowKind, InstallationIsDone, RemovalIsMarked, BarrierIsHeld, RemovalIsDone,
              Configuration
<1> QED BY <1>3, <1>4, <1>5 DEF ManagerInv

\* An exception ends the operation and claims nothing.
LEMMA FailedStep ==
  ASSUME ManagerInv, Failed
  PROVE  ManagerInv'
<1>1. /\ UNCHANGED <<view, disk, filter, scm, foreign, process, image>>
      /\ op' = NoOp /\ report' = "failed" /\ seen' \in Statuses
  BY DEF Failed, system
<1>2. ManagerTypeOK'
  BY <1>1, StatusesAreTyped, NoOperation DEF ManagerInv, ManagerTypeOK
<1>3. RecordsAgree' /\ ReportIsLast' /\ AppliedIsTrue' /\ RemovalIsTrue'
  BY <1>1, NoOperation DEF ManagerInv, RecordsAgree, ReportIsLast, AppliedIsTrue, RemovalIsTrue
<1> QED BY <1>1, <1>2, <1>3, NoOperation DEF ManagerInv, Quiet

LEMMA FinishStep ==
  ASSUME ManagerInv, Finish
  PROVE  ManagerInv'
<1>1. /\ UNCHANGED <<view, disk, filter, scm, foreign, process, image>>
      /\ op.pc = "finish" /\ op' = NoOp /\ report' = Message /\ seen' \in Statuses
  BY DEF Finish, system
<1>2. ManagerTypeOK'
  BY <1>1, StatusesAreTyped, NoOperation DEF ManagerInv, ManagerTypeOK
<1>3. /\ op.kind \in {"enable", "start", "disable"} /\ op.warned \in BOOLEAN
  BY <1>1 DEF ManagerInv, StepsFollowKind, ManagerTypeOK, Operations
<1>4. Message = "applied" => op.kind = "enable" /\ ~op.warned /\ "marked" \notin disk
  BY <1>3 DEF Message
<1>5. Message = "deleted" =>
        /\ ~op.warned /\ op.kind \notin {"enable", "start"}
        /\ op.plan = NoPlan \/ (op.plan # {} /\ ~op.inherited)
  BY <1>3 DEF Message
<1>6. Message = "applied" =>
        /\ Usable /\ Configuration \subseteq view /\ Replaced /\ view \subseteq disk
        /\ "service" \in view /\ "marked" \notin disk
  BY <1>1, <1>4 DEF ManagerInv, InstallationIsDone, RecordsAgree, Usable
<1>7. Message = "deleted" => Gone(disk)
  BY <1>1, <1>3, <1>5 DEF ManagerInv, RemovalIsDone, RemovalIsMarked, Planned, Gone
<1>8. RecordsAgree'
  BY <1>1 DEF ManagerInv, RecordsAgree
<1>9. AppliedIsTrue' /\ ReportIsLast'
  BY <1>1, <1>6, NoOperation DEF AppliedIsTrue, ReportIsLast, Usable, Replaced
<1>10. RemovalIsTrue'
  BY <1>1, <1>7 DEF RemovalIsTrue, Gone
<1> QED BY <1>1, <1>2, <1>8, <1>9, <1>10, NoOperation DEF ManagerInv, Quiet

-----------------------------------------------------------------------------
(***************************************************************************)
(* The steps of an operation.                                              *)
(***************************************************************************)

\* Only the step and whether there is a warning have changed.
OnTo(pc) ==
  /\ op' \in Operations /\ op'.pc = pc
  /\ op'.kind = op.kind /\ op'.plan = op.plan /\ op'.found = op.found
  /\ op'.removal = op.removal /\ op'.inherited = op.inherited /\ op'.barrier = op.barrier
  /\ \/ op'.warned = op.warned /\ op'.todo = op.todo
     \/ op'.warned /\ op'.todo = {}

LEMMA GotoIs ==
  ASSUME ManagerInv, NEW pc \in Steps, Goto(pc) \/ Warned(pc)
  PROVE  OnTo(pc) /\ (Goto(pc) => op'.warned = op.warned /\ op'.todo = op.todo)
                  /\ (Warned(pc) => op'.warned)
BY ZenonT(30) DEF ManagerInv, ManagerTypeOK, Operations, Goto, Warned, OnTo

\* An operation that goes on has nothing reported yet.
LEMMA NothingReported ==
  ASSUME ManagerInv, op.pc # "idle", report' = report, op'.pc # "idle"
  PROVE  report' = "none" /\ ReportIsLast' /\ AppliedIsTrue' /\ RemovalIsTrue'
BY DEF ManagerInv, ReportIsLast, AppliedIsTrue, RemovalIsTrue

\* A step that only decides.
LEMMA DecisionStep ==
  ASSUME ManagerInv, NEW pc \in Steps \ {"idle"}, op.pc # "idle", OnTo(pc),
         UNCHANGED <<view, disk, filter, scm, foreign, process, image, seen, report>>,
         StepsFollowKind', InstallationIsDone', RemovalIsMarked', BarrierIsHeld', RemovalIsDone'
  PROVE  ManagerInv'
<1>1. ManagerTypeOK'
  BY DEF ManagerInv, ManagerTypeOK, OnTo
<1>2. RecordsAgree'
  BY DEF ManagerInv, RecordsAgree
<1>3. ReportIsLast' /\ AppliedIsTrue' /\ RemovalIsTrue'
  BY NothingReported DEF OnTo
<1> QED BY <1>1, <1>2, <1>3 DEF ManagerInv

LEMMA OpenStep ==
  ASSUME ManagerInv, Open
  PROVE  ManagerInv'
<1>1. /\ op.pc = "open"
      /\ UNCHANGED <<view, disk, filter, scm, foreign, process, image, seen, report>>
  BY DEF Open, system
<1>2. PICK pc \in {"stop", "create", "start"} :
        /\ Goto(pc)
        /\ op.kind = IF pc = "start" THEN "start" ELSE "enable"
        /\ pc # "create" => Usable
  BY DEF Open, Usable
<1>3. OnTo(pc) /\ pc \in Steps \ {"idle"}
  BY <1>2, GotoIs DEF Steps
<1>4. /\ StepsFollowKind' /\ InstallationIsDone' /\ RemovalIsMarked' /\ BarrierIsHeld'
      /\ RemovalIsDone'
  BY <1>1, <1>2, <1>3 DEF ManagerInv, OnTo, StepsFollowKind, InstallationIsDone, RemovalIsMarked,
                          BarrierIsHeld, RemovalIsDone, Usable, Configuration
<1> QED BY <1>1, <1>3, <1>4, DecisionStep

LEMMA AwaitStopStep ==
  ASSUME ManagerInv, AwaitStop
  PROVE  ManagerInv'
<1>1. /\ op.pc = "awaitStop" /\ process = "stopped"
      /\ UNCHANGED <<view, disk, filter, scm, foreign, process, image, seen, report>>
  BY DEF AwaitStop, system
<1>2. PICK pc \in {"identity", "delete"} :
        /\ Goto(pc)
        /\ op.kind = IF pc = "identity" THEN "enable" ELSE "disable"
  BY <1>1 DEF AwaitStop, AfterStop, ManagerInv, StepsFollowKind
<1>3. OnTo(pc) /\ pc \in Steps \ {"idle"}
  BY <1>2, GotoIs DEF Steps, Configuration
<1>4. /\ StepsFollowKind' /\ InstallationIsDone' /\ RemovalIsMarked' /\ BarrierIsHeld'
      /\ RemovalIsDone'
  BY <1>1, <1>2, <1>3 DEF ManagerInv, OnTo, StepsFollowKind, InstallationIsDone, RemovalIsMarked,
                          BarrierIsHeld, RemovalIsDone, Planned, Usable, Configuration
<1> QED BY <1>1, <1>3, <1>4, DecisionStep

LEMMA AwaitRunningStep ==
  ASSUME ManagerInv, AwaitRunning
  PROVE  ManagerInv'
<1>1. /\ op.pc = "awaitRunning"
      /\ UNCHANGED <<view, disk, filter, scm, foreign, process, image, seen, report>>
  BY DEF AwaitRunning, system
<1>2. PICK pc \in {"persist", "finish"} :
        /\ Goto(pc)
        /\ op.kind = IF pc = "persist" THEN "enable" ELSE "start"
  BY <1>1 DEF AwaitRunning, ManagerInv, StepsFollowKind
<1>3. OnTo(pc) /\ pc \in Steps \ {"idle"}
  BY <1>2, GotoIs DEF Steps
<1>4. /\ StepsFollowKind' /\ InstallationIsDone' /\ RemovalIsMarked' /\ BarrierIsHeld'
      /\ RemovalIsDone'
  BY <1>1, <1>2, <1>3 DEF ManagerInv, OnTo, StepsFollowKind, InstallationIsDone, RemovalIsMarked,
                          BarrierIsHeld, RemovalIsDone, Usable, Replaced, Configuration
<1> QED BY <1>1, <1>3, <1>4, DecisionStep

LEMMA CommitDoneStep ==
  ASSUME ManagerInv, CommitDone \/ CommitDeletionDone
  PROVE  ManagerInv'
<1>1. PICK pc \in {"finish", "release"} :
        /\ op.pc = IF pc = "finish" THEN "commit" ELSE "commitDeletion"
        /\ op.pc = "commit" => op.todo = {}
        /\ op.pc = "commitDeletion" => op.found = {}
        /\ Goto(pc)
        /\ UNCHANGED <<view, disk, filter, scm, foreign, process, image, seen, report>>
  BY DEF CommitDone, CommitDeletionDone, system
<1>2. /\ OnTo(pc) /\ pc \in Steps \ {"idle"} /\ op'.warned = op.warned
  BY <1>1, GotoIs DEF Steps
<1>3. /\ StepsFollowKind' /\ InstallationIsDone' /\ RemovalIsMarked' /\ BarrierIsHeld'
      /\ RemovalIsDone'
  BY <1>1, <1>2 DEF ManagerInv, OnTo, StepsFollowKind, InstallationIsDone, RemovalIsMarked,
                    BarrierIsHeld, RemovalIsDone, Planned, Usable, Replaced, Configuration
<1> QED BY <1>1, <1>2, <1>3, DecisionStep

LEMMA CreateServiceStep ==
  ASSUME ManagerInv, CreateService
  PROVE  ManagerInv'
<1>1. /\ op.pc = "create" /\ ~scm.exists
      /\ scm' = [exists |-> TRUE, marked |-> FALSE]
      /\ view' = view \cup {"service", "subkey", "identity"}
      /\ disk' = (IF filter THEN disk ELSE view')
      /\ UNCHANGED <<filter, foreign, process, image, seen, report>>
  BY DEF CreateService, Store
<1>2. OnTo("timeout")
  BY GotoIs DEF CreateService, Steps, Configuration
<1>3. op.kind = "enable"
  BY <1>1 DEF ManagerInv, StepsFollowKind
<1>4. ~scm.marked /\ "marked" \notin view /\ process = "stopped"
  BY <1>1 DEF ManagerInv, RecordsAgree
<1>5. /\ view' \subseteq Items /\ disk' \subseteq Items
      /\ scm' \in [exists : BOOLEAN, marked : BOOLEAN] /\ scm'.exists /\ ~scm'.marked
  BY <1>1 DEF ManagerInv, ManagerTypeOK, Items, Whole, Configuration
<1>6. ManagerTypeOK'
  BY <1>1, <1>2, <1>5 DEF ManagerInv, ManagerTypeOK, OnTo
<1>7. RecordsAgree'
  BY <1>1, <1>4, <1>5 DEF ManagerInv, RecordsAgree
<1>8. ReportIsLast' /\ AppliedIsTrue' /\ RemovalIsTrue'
  BY <1>1, <1>2, NothingReported DEF OnTo
<1>9. /\ StepsFollowKind' /\ InstallationIsDone' /\ RemovalIsMarked' /\ BarrierIsHeld'
      /\ RemovalIsDone'
  BY <1>1, <1>2, <1>3, <1>4, <1>5
  DEF ManagerInv, OnTo, StepsFollowKind, InstallationIsDone, RemovalIsMarked, BarrierIsHeld,
      RemovalIsDone, Usable, Configuration
<1> QED BY <1>6, <1>7, <1>8, <1>9 DEF ManagerInv

\* The service's process is stopped or started by the operation itself.
LEMMA ProcessStep ==
  ASSUME ManagerInv, Stop \/ StartService
  PROVE  ManagerInv'
<1>1. PICK pc \in {"identity", "delete", "awaitStop", "awaitRunning"} :
        /\ Goto(pc)
        /\ op.pc = IF pc = "awaitRunning" THEN "start" ELSE "stop"
        /\ pc = "identity" => op.kind = "enable" /\ process = "stopped"
        /\ pc = "delete" => op.kind = "disable"
        /\ process' = process \/ (pc = "awaitStop" /\ process' = "stopping" /\ process = "running")
                              \/ (pc = "awaitRunning" /\ process' = "starting")
        /\ image' = image \/ image' \in {"old", "current"}
        /\ "identity" \in view => image' = image \/ image' = "current"
        /\ pc = "awaitRunning" /\ "identity" \in view /\ process = "stopped" => image' = "current"
        /\ UNCHANGED <<view, disk, filter, scm, foreign, seen, report>>
  <2>1. op.pc = "stop" => op.kind \in {"enable", "disable"}
    BY DEF ManagerInv, StepsFollowKind
  <2>2. CASE Stop
    BY <2>1, <2>2 DEF Stop, StopService, AfterStop, registry
  <2>3. CASE StartService
    BY <2>3 DEF StartService, Start, registry
  <2> QED BY <2>2, <2>3
<1>2. OnTo(pc) /\ pc # "idle"
  BY <1>1, GotoIs DEF Steps, Configuration
<1>3. image' \in Images /\ process' \in ProcessStates
  BY <1>1 DEF ManagerInv, ManagerTypeOK, ProcessStates, Images
<1>4. ManagerTypeOK'
  BY <1>1, <1>2, <1>3 DEF ManagerInv, ManagerTypeOK, OnTo
<1>5. scm.exists \/ process' = process
  BY <1>1 DEF ManagerInv, StepsFollowKind, InstallationIsDone, RemovalIsMarked, Usable
<1>6. RecordsAgree'
  BY <1>1, <1>5 DEF ManagerInv, RecordsAgree
<1>7. ReportIsLast' /\ AppliedIsTrue' /\ RemovalIsTrue'
  BY <1>1, <1>2, NothingReported DEF OnTo
<1>8. /\ StepsFollowKind' /\ InstallationIsDone' /\ RemovalIsMarked' /\ BarrierIsHeld'
      /\ RemovalIsDone'
  BY <1>1, <1>2
  DEF ManagerInv, OnTo, StepsFollowKind, InstallationIsDone, RemovalIsMarked, BarrierIsHeld,
      RemovalIsDone, Planned, Usable, Replaced, Configuration
<1> QED BY <1>4, <1>6, <1>7, <1>8 DEF ManagerInv

LEMMA ConfigureStep ==
  ASSUME ManagerInv, Configure
  PROVE  ManagerInv'
<1>1. PICK pc \in {"timeout", "privileges", "start"} :
        /\ op.pc \in Configuration /\ Goto(pc)
        /\ pc = "timeout" <=> op.pc = "identity"
        /\ pc = "privileges" <=> op.pc = "timeout"
        /\ view' = view \cup {op.pc} /\ disk' = (IF filter THEN disk ELSE view')
        /\ UNCHANGED <<filter, scm, foreign, process, image, seen, report>>
  BY DEF Configure, Store, Configuration
<1>2. OnTo(pc) /\ pc # "idle" /\ op.pc # "idle"
  BY <1>1, GotoIs DEF Steps, Configuration
<1>3. op.kind = "enable" /\ Usable
  BY <1>1 DEF ManagerInv, StepsFollowKind, InstallationIsDone, Configuration
<1>4. view' \subseteq Items /\ disk' \subseteq Items
  BY <1>1 DEF ManagerInv, ManagerTypeOK, Items, Whole, Configuration
<1>5. ManagerTypeOK'
  BY <1>1, <1>2, <1>4 DEF ManagerInv, ManagerTypeOK, OnTo
<1>6. RecordsAgree'
  BY <1>1, <1>3 DEF ManagerInv, RecordsAgree, Usable, Configuration
<1>7. ReportIsLast' /\ AppliedIsTrue' /\ RemovalIsTrue'
  BY <1>1, <1>2, NothingReported DEF OnTo
<1>8. /\ StepsFollowKind' /\ InstallationIsDone' /\ RemovalIsMarked' /\ BarrierIsHeld'
      /\ RemovalIsDone'
  BY <1>1, <1>2, <1>3
  DEF ManagerInv, OnTo, StepsFollowKind, InstallationIsDone, RemovalIsMarked, BarrierIsHeld,
      RemovalIsDone, Usable, Replaced, Configuration
<1> QED BY <1>5, <1>6, <1>7, <1>8 DEF ManagerInv

LEMMA PersistInstallationStep ==
  ASSUME ManagerInv, PersistInstallation
  PROVE  ManagerInv'
<1>1. /\ op.pc = "persist"
      /\ UNCHANGED <<view, disk, filter, scm, foreign, process, image, seen, report>>
  BY DEF PersistInstallation, system
<1>2. op.kind = "enable" /\ Usable /\ Configuration \subseteq view /\ Replaced
  BY <1>1 DEF ManagerInv, StepsFollowKind, InstallationIsDone, RecordsAgree, Usable
<1>3. CASE Warned("finish") \/ (~filter /\ Goto("finish"))
  <2>1. /\ OnTo("finish") /\ "finish" \in Steps \ {"idle"}
        /\ op'.warned \/ ~filter
    BY <1>3, GotoIs DEF Steps
  <2>2. /\ StepsFollowKind' /\ InstallationIsDone' /\ RemovalIsMarked' /\ BarrierIsHeld'
        /\ RemovalIsDone'
    BY <1>1, <1>2, <2>1
    DEF ManagerInv, RecordsAgree, OnTo, StepsFollowKind, InstallationIsDone, RemovalIsMarked,
        BarrierIsHeld, RemovalIsDone, Usable, Replaced, Configuration
  <2> QED BY <1>1, <2>1, <2>2, DecisionStep
<1>4. CASE filter /\ op' = [op EXCEPT !.pc = "commit", !.todo = view]
  <2>1. /\ op' \in Operations /\ op'.pc = "commit" /\ op'.todo = view /\ op'.kind = op.kind
        /\ op'.warned = op.warned /\ op'.barrier = op.barrier
    BY <1>4 DEF ManagerInv, ManagerTypeOK, Operations, Steps
  <2>2. ManagerTypeOK' /\ RecordsAgree'
    BY <1>1, <2>1 DEF ManagerInv, ManagerTypeOK, RecordsAgree
  <2>3. ReportIsLast' /\ AppliedIsTrue' /\ RemovalIsTrue'
    BY <1>1, <2>1, NothingReported
  <2>4. /\ StepsFollowKind' /\ InstallationIsDone' /\ RemovalIsMarked' /\ BarrierIsHeld'
        /\ RemovalIsDone'
    BY <1>1, <1>2, <1>4, <2>1
    DEF ManagerInv, StepsFollowKind, InstallationIsDone, RemovalIsMarked,
        BarrierIsHeld, RemovalIsDone, Usable, Replaced, Configuration
  <2> QED BY <2>2, <2>3, <2>4 DEF ManagerInv
<1> QED BY <1>3, <1>4 DEF PersistInstallation

LEMMA CommitStep ==
  ASSUME ManagerInv, Commit
  PROVE  ManagerInv'
<1>1. /\ op.pc = "commit"
      /\ UNCHANGED <<view, filter, scm, foreign, process, image, seen, report>>
  BY DEF Commit
<1>2. PICK item \in op.todo, effect \in BOOLEAN, ok \in BOOLEAN :
        /\ ok => effect
        /\ disk' = IF effect THEN disk \cup {item} ELSE disk
        /\ op' = [op EXCEPT !.todo = @ \ {item}, !.warned = @ \/ ~ok]
  BY DEF Commit
<1>3. /\ op' \in Operations /\ op'.pc = "commit" /\ op'.todo = op.todo \ {item}
      /\ op'.kind = op.kind /\ op'.barrier = op.barrier
      /\ op'.warned <=> op.warned \/ ~ok
  BY <1>1, <1>2 DEF ManagerInv, ManagerTypeOK, Operations
<1>4. op.kind = "enable" /\ Usable /\ filter /\ op.todo \subseteq view /\ "marked" \notin view
  BY <1>1 DEF ManagerInv, StepsFollowKind, InstallationIsDone, RecordsAgree, Usable
<1>5. disk' \subseteq Items
  BY <1>2, <1>4 DEF ManagerInv, ManagerTypeOK
<1>6. ManagerTypeOK'
  BY <1>1, <1>3, <1>5 DEF ManagerInv, ManagerTypeOK
<1>7. RecordsAgree'
  BY <1>1, <1>2, <1>4 DEF ManagerInv, RecordsAgree
<1>8. ReportIsLast' /\ AppliedIsTrue' /\ RemovalIsTrue'
  BY <1>1, <1>3, NothingReported
<1>9. /\ StepsFollowKind' /\ InstallationIsDone' /\ RemovalIsMarked' /\ BarrierIsHeld'
      /\ RemovalIsDone'
  BY <1>1, <1>2, <1>3, <1>4
  DEF ManagerInv, StepsFollowKind, InstallationIsDone, RemovalIsMarked, BarrierIsHeld,
      RemovalIsDone, Usable, Replaced, Configuration
<1> QED BY <1>6, <1>7, <1>8, <1>9 DEF ManagerInv

LEMMA PrepareRemovalStep ==
  ASSUME ManagerInv, PrepareRemoval
  PROVE  ManagerInv'
<1> DEFINE plan == IF filter THEN DeletionPlan ELSE NoPlan
<1>1. /\ op.pc = "prepare"
      /\ op' = [op EXCEPT !.pc = "mark", !.inherited = scm.marked, !.plan = plan]
      /\ UNCHANGED <<view, disk, filter, scm, foreign, process, image, seen, report>>
  BY DEF PrepareRemoval, system
<1>2. /\ plan \subseteq {"none", "subkey", "key"} /\ (plan = NoPlan <=> ~filter)
      /\ filter /\ plan # {} => "key" \in plan /\ view # {}
  BY DEF DeletionPlan, NoPlan, ManagerInv, ManagerTypeOK
<1> HIDE DEF plan
<1>3. scm.marked \in BOOLEAN
  BY DEF ManagerInv, ManagerTypeOK
<1>4. /\ op' \in Operations /\ op'.pc = "mark" /\ op'.kind = op.kind /\ op'.found = op.found
      /\ op'.barrier = op.barrier /\ op'.plan = plan /\ op'.inherited = scm.marked
  BY <1>1, <1>2, <1>3 DEF ManagerInv, ManagerTypeOK, Operations, Steps
<1>5. ManagerTypeOK' /\ RecordsAgree'
  BY <1>1, <1>4 DEF ManagerInv, ManagerTypeOK, RecordsAgree
<1>6. ReportIsLast' /\ AppliedIsTrue' /\ RemovalIsTrue'
  BY <1>1, <1>4, NothingReported
<1>7. /\ StepsFollowKind' /\ InstallationIsDone' /\ RemovalIsMarked' /\ BarrierIsHeld'
      /\ RemovalIsDone'
  BY <1>1, <1>2, <1>4
  DEF ManagerInv, StepsFollowKind, InstallationIsDone, RemovalIsMarked, BarrierIsHeld,
      RemovalIsDone, Planned, Usable, Configuration
<1> QED BY <1>5, <1>6, <1>7 DEF ManagerInv

LEMMA OpenForRemovalStep ==
  ASSUME ManagerInv, OpenForRemoval
  PROVE  ManagerInv'
<1>1. /\ op.pc = "mark"
      /\ UNCHANGED <<view, disk, filter, scm, foreign, process, image, seen, report>>
  BY DEF OpenForRemoval, system
<1>2. op.kind = "disable" /\ op.found = {} /\ op.plan \subseteq {"none", "subkey", "key"}
  BY <1>1 DEF ManagerInv, StepsFollowKind, RemovalIsMarked, ManagerTypeOK, Operations
<1>3. CASE Usable /\ op' = [op EXCEPT !.pc = "stop"]
  <2>1. OnTo("stop") /\ "stop" \in Steps \ {"idle"}
    BY <1>3, GotoIs DEF Goto, Steps
  <2>2. /\ StepsFollowKind' /\ InstallationIsDone' /\ RemovalIsMarked' /\ BarrierIsHeld'
        /\ RemovalIsDone'
    BY <1>1, <1>2, <1>3, <2>1
    DEF ManagerInv, OnTo, StepsFollowKind, InstallationIsDone, RemovalIsMarked, BarrierIsHeld,
        RemovalIsDone, Planned, Usable, Configuration
  <2> QED BY <1>1, <2>1, <2>2, DecisionStep
<1>4. CASE /\ ~Usable
           /\ op' = [op EXCEPT !.pc = "inspect", !.removal = IF scm.exists THEN "already" ELSE "absent",
                               !.todo = op.plan \ NoPlan]
  <2>1. /\ op' \in Operations /\ op'.pc = "inspect" /\ op'.kind = op.kind /\ op'.plan = op.plan
        /\ op'.removal = (IF scm.exists THEN "already" ELSE "absent")
        /\ op'.todo = op.plan \ NoPlan /\ op'.found = op.found /\ op'.inherited = op.inherited
        /\ op'.barrier = op.barrier /\ op'.warned = op.warned
    BY <1>2, <1>4 DEF ManagerInv, ManagerTypeOK, Operations, Steps, NoPlan, Items, Whole
  <2>2. ManagerTypeOK' /\ RecordsAgree'
    BY <1>1, <2>1 DEF ManagerInv, ManagerTypeOK, RecordsAgree
  <2>3. ReportIsLast' /\ AppliedIsTrue' /\ RemovalIsTrue'
    BY <1>1, <2>1, NothingReported
  <2>4. /\ StepsFollowKind' /\ InstallationIsDone' /\ RemovalIsMarked' /\ BarrierIsHeld'
    BY <1>1, <1>2, <1>4, <2>1
    DEF ManagerInv, StepsFollowKind, InstallationIsDone, RemovalIsMarked, BarrierIsHeld,
        Usable, Configuration, NoPlan
  <2>5. RemovalIsDone'
    BY <1>1, <1>2, <1>4, <2>1
    DEF ManagerInv, RecordsAgree, RemovalIsMarked, RemovalIsDone, Planned, Usable, NoPlan, Gone
  <2> QED BY <2>2, <2>3, <2>4, <2>5 DEF ManagerInv
<1> QED BY <1>3, <1>4 DEF OpenForRemoval, Usable

LEMMA DeleteServiceStep ==
  ASSUME ManagerInv, DeleteService
  PROVE  ManagerInv'
<1>1. /\ op.pc = "delete" /\ scm' = [scm EXCEPT !.marked = TRUE]
      /\ view' = view \cup {"marked"} /\ disk' = (IF filter THEN disk ELSE view')
      /\ op' = [op EXCEPT !.pc = "inspect", !.removal = "marked", !.barrier = TRUE,
                          !.todo = op.plan \ NoPlan]
      /\ UNCHANGED <<filter, foreign, process, image, seen, report>>
  BY DEF DeleteService, Store
<1>2. op.kind = "disable" /\ op.found = {} /\ Usable /\ op.plan \subseteq {"none", "subkey", "key"}
  BY <1>1 DEF ManagerInv, StepsFollowKind, RemovalIsMarked, ManagerTypeOK, Operations
<1>3. /\ op' \in Operations /\ op'.pc = "inspect" /\ op'.kind = op.kind /\ op'.plan = op.plan
      /\ op'.removal = "marked" /\ op'.todo = op.plan \ NoPlan /\ op'.found = op.found
      /\ op'.inherited = op.inherited /\ op'.barrier = TRUE /\ op'.warned = op.warned
  BY <1>1, <1>2 DEF ManagerInv, ManagerTypeOK, Operations, Steps, NoPlan, Items, Whole
<1>4. /\ view' \subseteq Items /\ disk' \subseteq Items
      /\ scm' \in [exists : BOOLEAN, marked : BOOLEAN] /\ scm'.exists /\ scm'.marked
  BY <1>1, <1>2 DEF ManagerInv, ManagerTypeOK, Items, Usable
<1>5. ManagerTypeOK'
  BY <1>1, <1>3, <1>4 DEF ManagerInv, ManagerTypeOK
<1>6. RecordsAgree'
  BY <1>1, <1>4 DEF ManagerInv, RecordsAgree, Gone
<1>7. ReportIsLast' /\ AppliedIsTrue' /\ RemovalIsTrue'
  BY <1>1, <1>3, NothingReported
<1>8. /\ StepsFollowKind' /\ InstallationIsDone' /\ RemovalIsMarked' /\ BarrierIsHeld'
  BY <1>1, <1>2, <1>3, <1>4
  DEF ManagerInv, StepsFollowKind, InstallationIsDone, RemovalIsMarked, BarrierIsHeld,
      Usable, Configuration, NoPlan
<1>9. RemovalIsDone'
  BY <1>1, <1>2, <1>3, <1>4
  DEF ManagerInv, RemovalIsMarked, RemovalIsDone, Planned, NoPlan, Gone
<1> QED BY <1>5, <1>6, <1>7, <1>8, <1>9 DEF ManagerInv

LEMMA InspectStep ==
  ASSUME ManagerInv, Inspect
  PROVE  ManagerInv'
<1>1. /\ op.pc = "inspect"
      /\ UNCHANGED <<view, disk, filter, scm, foreign, process, image, seen, report>>
  BY DEF Inspect, system
<1>2. op.kind = "disable"
  BY <1>1 DEF ManagerInv, StepsFollowKind
<1>3. ASSUME NEW target \in op.todo,
             \/ op' = [op EXCEPT !.todo = @ \ {target},
                                 !.found = IF Exists(target) THEN @ \cup {target} ELSE @]
             \/ op' = [op EXCEPT !.todo = @ \ {target}, !.warned = TRUE]
      PROVE  ManagerInv'
  <2>0. filter /\ target \in {"subkey", "key"}
    BY <1>1, <1>2, <1>3 DEF ManagerInv, RemovalIsDone, RemovalIsMarked
  <2>1. /\ op' \in Operations /\ op'.pc = "inspect" /\ op'.kind = op.kind /\ op'.plan = op.plan
        /\ op'.removal = op.removal /\ op'.todo = op.todo \ {target}
        /\ op'.inherited = op.inherited /\ op'.barrier = op.barrier
        /\ \/ op'.warned = op.warned /\ op'.found = IF Exists(target) THEN op.found \cup {target}
                                                    ELSE op.found
           \/ op'.warned /\ op'.found = op.found
    <3>1. CASE op' = [op EXCEPT !.todo = @ \ {target},
                                !.found = IF Exists(target) THEN @ \cup {target} ELSE @]
      BY <1>1, <2>0, <3>1 DEF ManagerInv, ManagerTypeOK, Operations
    <3>2. CASE op' = [op EXCEPT !.todo = @ \ {target}, !.warned = TRUE]
      BY <1>1, <2>0, <3>2 DEF ManagerInv, ManagerTypeOK, Operations
    <3> QED BY <1>3, <3>1, <3>2
  <2>2. ManagerTypeOK' /\ RecordsAgree'
    BY <1>1, <2>1 DEF ManagerInv, ManagerTypeOK, RecordsAgree
  <2>3. ReportIsLast' /\ AppliedIsTrue' /\ RemovalIsTrue'
    BY <1>1, <2>1, NothingReported
  <2>4. /\ StepsFollowKind' /\ InstallationIsDone' /\ RemovalIsMarked' /\ BarrierIsHeld'
    BY <1>1, <1>2, <2>1
    DEF ManagerInv, StepsFollowKind, InstallationIsDone, RemovalIsMarked, BarrierIsHeld,
        Usable, Configuration
  <2>5. RemovalIsDone'
    BY <1>1, <1>2, <2>0, <2>1 DEF ManagerInv, RemovalIsDone, Planned, Exists
  <2> QED BY <2>2, <2>3, <2>4, <2>5 DEF ManagerInv
<1>4. ASSUME NEW pc \in {"commitDeletion", "release"}, op.todo = {},
             \/ op.found = {} /\ pc = "release" /\ Goto(pc)
             \/ pc = "commitDeletion" /\ op.found # {} /\ Goto(pc)
             \/ pc = "release" /\ op.found # {} /\ Warned(pc)
      PROVE  ManagerInv'
  <2>1. /\ OnTo(pc) /\ pc \in Steps \ {"idle"}
        /\ op'.warned = op.warned \/ (op'.warned /\ pc = "release" /\ op.found # {})
        /\ op'.todo = {}
    BY <1>4, GotoIs DEF Steps, OnTo
  <2>2. StepsFollowKind' /\ InstallationIsDone' /\ RemovalIsMarked' /\ BarrierIsHeld'
    BY <1>1, <1>2, <1>4, <2>1
    DEF ManagerInv, OnTo, StepsFollowKind, InstallationIsDone, RemovalIsMarked, BarrierIsHeld,
        Usable, Configuration
  <2>3. RemovalIsDone'
    <3>1. /\ op'.pc = pc /\ op'.kind = op.kind /\ op'.plan = op.plan /\ op'.found = op.found
          /\ op'.removal = op.removal /\ op'.inherited = op.inherited
      BY <2>1 DEF OnTo
    <3>2. Planned => op.warned \/ "key" \in op.found
      BY <1>1, <1>2, <1>4 DEF ManagerInv, RemovalIsDone
    <3>3. ~filter => op.found = {} /\ (op.removal # "absent" => Gone(disk))
      BY <1>1, <1>2 DEF ManagerInv, RemovalIsDone
    <3>4. Planned => "key" \in op.plan
      BY <1>1, <1>2 DEF ManagerInv, RemovalIsDone
    <3>5. CASE pc = "commitDeletion"
      BY <1>1, <1>4, <2>1, <3>1, <3>2, <3>3, <3>4, <3>5 DEF RemovalIsDone, Planned
    <3>6. CASE pc = "release"
      <4>1. Planned => op'.warned
        <5>1. op.warned => op'.warned
          BY <2>1
        <5>2. op.found = {} \/ op'.warned
          BY <1>4, <2>1, <3>6, GotoIs
        <5> QED BY <3>2, <5>1, <5>2
      <4> QED BY <1>1, <2>1, <3>1, <3>3, <3>4, <3>6, <4>1 DEF RemovalIsDone, Planned, Gone
    <3> QED BY <3>5, <3>6
  <2> QED BY <1>1, <2>1, <2>2, <2>3, DecisionStep
<1> QED BY <1>3, <1>4 DEF Inspect

LEMMA CommitDeletionStep ==
  ASSUME ManagerInv, CommitDeletion
  PROVE  ManagerInv'
<1> DEFINE target == IF "subkey" \in op.found THEN "subkey" ELSE "key"
<1>1. /\ op.pc = "commitDeletion" /\ op.found # {}
      /\ UNCHANGED <<filter, scm, foreign, process, image, seen, report>>
  BY DEF CommitDeletion
<1>2. PICK effect \in BOOLEAN, ok \in BOOLEAN :
        /\ ok => effect
        /\ view' = IF ~effect THEN view ELSE IF target = "key" THEN {} ELSE view \ {target}
        /\ disk' = IF ~effect THEN disk ELSE IF target = "key" THEN {} ELSE disk \ {target}
        /\ op' = [op EXCEPT !.found = @ \ {target}, !.warned = @ \/ ~ok]
  BY DEF CommitDeletion
<1>3. target \in {"subkey", "key"} /\ op.found \subseteq {"subkey", "key"}
  BY DEF ManagerInv, ManagerTypeOK, Operations
<1>4. target = "subkey" => "subkey" \in op.found
  OBVIOUS
<1> HIDE DEF target
<1>5. /\ op' \in Operations /\ op'.pc = "commitDeletion" /\ op'.kind = op.kind
      /\ op'.plan = op.plan /\ op'.removal = op.removal /\ op'.todo = op.todo
      /\ op'.inherited = op.inherited /\ op'.barrier = op.barrier
      /\ op'.found = op.found \ {target} /\ (op'.warned <=> op.warned \/ ~ok)
  BY <1>1, <1>2 DEF ManagerInv, ManagerTypeOK, Operations
<1>6. op.kind = "disable" /\ ~Usable
  BY <1>1 DEF ManagerInv, StepsFollowKind, RemovalIsMarked
<1>7. ManagerTypeOK'
  BY <1>1, <1>2, <1>5 DEF ManagerInv, ManagerTypeOK
<1>8. RecordsAgree'
  BY <1>1, <1>2, <1>3, <1>6 DEF ManagerInv, RecordsAgree, Usable, Gone
<1>9. ReportIsLast' /\ AppliedIsTrue' /\ RemovalIsTrue'
  BY <1>1, <1>5, NothingReported
<1>10. StepsFollowKind' /\ InstallationIsDone' /\ RemovalIsMarked' /\ BarrierIsHeld'
  BY <1>1, <1>5, <1>6
  DEF ManagerInv, StepsFollowKind, InstallationIsDone, RemovalIsMarked, BarrierIsHeld, Usable,
      Configuration
<1>11. RemovalIsDone'
  BY <1>1, <1>2, <1>3, <1>5, <1>6 DEF ManagerInv, RemovalIsDone, Planned, Gone
<1> QED BY <1>7, <1>8, <1>9, <1>10, <1>11 DEF ManagerInv

LEMMA ReleaseBarrierStep ==
  ASSUME ManagerInv, ReleaseBarrier
  PROVE  ManagerInv'
<1> DEFINE pc == IF op.plan = NoPlan /\ op.removal = "absent" THEN "remnants" ELSE "finish"
<1>1. /\ op.pc = "release" /\ op' = [op EXCEPT !.barrier = FALSE, !.pc = pc]
      /\ Released(FALSE, foreign, process)
      /\ UNCHANGED <<filter, foreign, process, image, seen, report>>
  BY DEF ReleaseBarrier
<1>2. /\ op' \in Operations /\ op'.pc = pc /\ op'.kind = op.kind
      /\ op'.plan = op.plan /\ op'.removal = op.removal /\ ~op'.barrier
      /\ op'.inherited = op.inherited /\ op'.found = op.found /\ op'.warned = op.warned
  BY <1>1, ZenonT(30) DEF ManagerInv, ManagerTypeOK, Operations, Steps
<1>3. /\ view' \subseteq Items /\ disk' \subseteq Items
      /\ scm' \in [exists : BOOLEAN, marked : BOOLEAN]
      /\ \/ UNCHANGED <<scm, view, disk>>
         \/ /\ scm.marked
            /\ ~scm'.exists /\ ~scm'.marked /\ view' = {}
            /\ disk' = IF filter THEN disk ELSE {}
  BY <1>1, ReleasedIs
<1>4. op.kind = "disable"
  BY <1>1 DEF ManagerInv, StepsFollowKind
<1>5. ManagerTypeOK'
  BY <1>1, <1>2, <1>3 DEF ManagerInv, ManagerTypeOK
<1>6. RecordsAgree'
  BY <1>1, ReleaseKeepsRecords
<1>7. ReportIsLast' /\ AppliedIsTrue' /\ RemovalIsTrue'
  BY <1>1, <1>2, NothingReported
<1>8. StepsFollowKind' /\ InstallationIsDone' /\ BarrierIsHeld'
  BY <1>2, <1>4 DEF StepsFollowKind, InstallationIsDone, BarrierIsHeld, Configuration
<1>9. RemovalIsMarked'
  BY <1>1, <1>2, <1>3, <1>4 DEF ManagerInv, RecordsAgree, RemovalIsMarked, Usable
<1>10. RemovalIsDone'
  BY <1>1, <1>2, <1>3, <1>4 DEF ManagerInv, RemovalIsMarked, RemovalIsDone, Planned, Gone
<1> QED BY <1>5, <1>6, <1>7, <1>8, <1>9, <1>10 DEF ManagerInv

LEMMA DeleteRegistryRemnantsStep ==
  ASSUME ManagerInv, DeleteRegistryRemnants
  PROVE  ManagerInv'
<1>1. /\ op.pc = "remnants" /\ UNCHANGED <<filter, scm, foreign, process, image, seen, report>>
  BY DEF DeleteRegistryRemnants
<1>2. op.kind = "disable" /\ ~filter /\ ~scm.exists /\ ~scm.marked
  BY <1>1 DEF ManagerInv, StepsFollowKind, RemovalIsMarked, RecordsAgree
<1>3. /\ view' \subseteq view /\ disk' = view'
      /\ OnTo("finish") /\ (op'.warned \/ disk' = {})
  <2>1. disk = view
    BY <1>2 DEF ManagerInv, RecordsAgree
  <2>2. "finish" \in Steps
    BY DEF Steps
  <2>3. CASE Store({}) /\ Goto("finish")
    BY <1>2, <2>2, <2>3, GotoIs DEF Store
  <2>4. CASE Store(view \ {"subkey"}) /\ Warned("finish")
    BY <1>2, <2>2, <2>4, GotoIs DEF Store
  <2>5. CASE UNCHANGED registry /\ Warned("finish")
    BY <2>1, <2>2, <2>5, GotoIs DEF registry
  <2> QED BY <2>3, <2>4, <2>5 DEF DeleteRegistryRemnants
<1>4. ManagerTypeOK'
  BY <1>1, <1>3 DEF ManagerInv, ManagerTypeOK, OnTo
<1>5. RecordsAgree'
  BY <1>1, <1>2, <1>3 DEF ManagerInv, RecordsAgree
<1>6. ReportIsLast' /\ AppliedIsTrue' /\ RemovalIsTrue'
  BY <1>1, <1>3, NothingReported DEF OnTo
<1>7. StepsFollowKind' /\ InstallationIsDone' /\ RemovalIsMarked' /\ BarrierIsHeld'
  BY <1>1, <1>2, <1>3
  DEF ManagerInv, OnTo, StepsFollowKind, InstallationIsDone, RemovalIsMarked, BarrierIsHeld,
      Configuration
<1>8. RemovalIsDone'
  BY <1>1, <1>2, <1>3 DEF OnTo, RemovalIsDone, Planned, Gone
<1> QED BY <1>4, <1>5, <1>6, <1>7, <1>8 DEF ManagerInv

-----------------------------------------------------------------------------

LEMMA ManagerInit ==
  ASSUME Init
  PROVE  ManagerInv
<1>1. /\ view \subseteq Items /\ "marked" \notin view /\ disk = view /\ filter \in BOOLEAN
      /\ foreign = FALSE /\ image = "none" /\ op = NoOp /\ report = "none"
      /\ process \in IF scm.exists THEN {"stopped", "running"} ELSE {"stopped"}
      /\ seen = [state |-> "unavailable", remnants |-> FALSE]
      /\ scm = [exists |-> "service" \in view, marked |-> FALSE]
  BY DEF Init, Items, Whole, Configuration
<1>2. /\ scm \in [exists : BOOLEAN, marked : BOOLEAN]
      /\ (scm.exists <=> "service" \in view) /\ ~scm.marked
  <2>1. CASE "service" \in view
    <3>1. scm = [exists |-> TRUE, marked |-> FALSE]
      BY <1>1, <2>1
    <3> QED BY <2>1, <3>1
  <2>2. CASE "service" \notin view
    <3>1. ("service" \in view) = FALSE
      BY <2>2
    <3>2. scm = [exists |-> FALSE, marked |-> FALSE]
      BY <1>1, <3>1
    <3> QED BY <2>2, <3>2
  <2> QED BY <2>1, <2>2
<1>3. op.pc = "idle" /\ op.kind = "none" /\ op.barrier = FALSE /\ op \in Operations
  BY <1>1 DEF NoOp, Operations, Steps, Configuration, NoPlan
<1>4. ManagerTypeOK
  BY <1>1, <1>2, <1>3 DEF ManagerTypeOK, ProcessStates, Images
<1>5. RecordsAgree
  BY <1>1, <1>2 DEF RecordsAgree
<1>6. /\ ReportIsLast /\ AppliedIsTrue /\ RemovalIsTrue /\ StepsFollowKind /\ InstallationIsDone
      /\ RemovalIsMarked /\ BarrierIsHeld /\ RemovalIsDone
  BY <1>1, <1>3
  DEF ReportIsLast, AppliedIsTrue, RemovalIsTrue, StepsFollowKind, InstallationIsDone,
      RemovalIsMarked, BarrierIsHeld, RemovalIsDone, Configuration
<1> QED BY <1>4, <1>5, <1>6 DEF ManagerInv

LEMMA ManagerNext ==
  ASSUME ManagerInv, [Next]_vars
  PROVE  ManagerInv'
<1>1. CASE ForeignHandle \/ ServiceMoves \/ ProcessEnds \/ MachineRestarts \/ RefreshStatus
  BY <1>1, MachineStep, ProcessEndsStep, MachineRestartsStep, RefreshStatusStep
<1>2. CASE ApplyRequestedState
  <2>1. ActionOf(seen.state) \in {"enable", "start", "disable"}
    BY DEF ActionOf
  <2> QED BY <1>2, <2>1, BeginStep DEF ApplyRequestedState
<1>3. CASE RemoveService
  BY <1>3, BeginStep DEF RemoveService
<1>4. CASE \E kind \in {"enable", "disable"} : RunServiceControlCommand(kind)
  BY <1>4, BeginStep DEF RunServiceControlCommand
<1>5. CASE Work
  <2>1. CASE CallFails \/ TimedOut
    BY <2>1, FailedStep DEF CallFails, TimedOut
  <2> QED BY <1>5, <2>1, OpenStep, CreateServiceStep, ProcessStep, AwaitStopStep, ConfigureStep,
             AwaitRunningStep, PersistInstallationStep, CommitStep, CommitDoneStep,
             PrepareRemovalStep, OpenForRemovalStep, DeleteServiceStep, InspectStep,
             CommitDeletionStep, ReleaseBarrierStep, DeleteRegistryRemnantsStep, FinishStep
          DEF Work
<1>6. CASE UNCHANGED vars
  <2>1. UNCHANGED <<view, disk, filter, scm, foreign, process, image, op, seen, report>>
    BY <1>6 DEF vars, system
  <2> QED BY <2>1 DEF ManagerInv, ManagerTypeOK, RecordsAgree, ReportIsLast, StepsFollowKind,
                      InstallationIsDone, RemovalIsMarked, BarrierIsHeld, RemovalIsDone,
                      AppliedIsTrue, RemovalIsTrue, Usable, Replaced, Planned
<1> QED BY <1>1, <1>2, <1>3, <1>4, <1>5, <1>6 DEF Next

\* The inductive invariant holds in every state of the manager and its machine.
THEOREM ManagerInvariant == Spec => []ManagerInv
<1>1. Init => ManagerInv
  BY ManagerInit
<1>2. ManagerInv /\ [Next]_vars => ManagerInv'
  BY ManagerNext
<1> QED BY <1>1, <1>2, PTL DEF Spec

\* An installation reported by finishOperation without a warning, over no mark that an
\* earlier removal left on the disk, survives every restart, whether or not the filter
\* is switched, and no process from before it is left.
THEOREM AppliedStaysTrue == Spec => []AppliedIsTrue
<1>1. ManagerInv => AppliedIsTrue
  BY DEF ManagerInv
<1> QED BY <1>1, ManagerInvariant, PTL

\* A removal reported by finishOperation without a warning, which carried out a
\* plan of its own, is not undone by any restart.
THEOREM RemovalStaysTrue == Spec => []RemovalIsTrue
<1>1. ManagerInv => RemovalIsTrue
  BY DEF ManagerInv
<1> QED BY <1>1, ManagerInvariant, PTL
=============================================================================
