--------------------------- MODULE RcuDriver_proofs ---------------------------
(* For any number of CPUs, tasks and callbacks: the driver finds the nodes    *)
(* and the queues in the state that its assertions demand.                    *)
EXTENDS RcuReaders_proofs

(* A leaf that names no prover is tried with Zenon, then with the SMT solver. *)
USE Zenon, SMT

-----------------------------------------------------------------------------
(* What readers do to the nodes: a node that is ready stays ready. *)

ReadyKept == \A d \in CPUs : NodeReady(d) => NodeReady(d)'

LEMMA CrossSnapshot ==
    ASSUME DriverTypes, NEW c \in CPUs, Cross(c) \/ NoCross
    PROVE  snapshot' \in [CPUs -> Nat \cup {None}]
<1>1. CASE NoCross
  BY <1>1 DEF NoCross, DriverTypes
<1>2. CASE Cross(c)
  <2>1. snapshot' = [snapshot EXCEPT ![c] =
                        IF snapshot[c] = None THEN None ELSE (snapshot[c] + 1) % WatchModulus]
    BY <1>2 DEF Cross
  <2>2. snapshot[c] # None => (snapshot[c] + 1) % WatchModulus \in Nat
    <3>1. snapshot[c] # None => snapshot[c] + 1 \in Nat
      BY SMT DEF DriverTypes
    <3>2. WatchModulus \in Nat /\ WatchModulus > 0
      BY SMT, RcuAssumption
    <3> QED BY SMT, <3>1, <3>2
  <2> QED BY <2>1, <2>2 DEF DriverTypes
<1> QED BY <1>1, <1>2

LEMMA RemoveReady ==
    ASSUME ReaderInv, UNCHANGED <<period, cpuPending>>,
           \/ UNCHANGED blocker
           \/ \E t \in Tasks : owner[t] # None /\ Remove(t)
    PROVE  ReadyKept
<1>1. CASE UNCHANGED blocker
  BY <1>1 DEF ReadyKept, NodeReady
<1>2. ASSUME NEW t \in Tasks, owner[t] # None, Remove(t) PROVE ReadyKept
  <2>1. owner[t] \in CPUs
    BY <1>2 DEF ReaderInv, ReaderTypes
  <2>2. \A d \in CPUs : blocker'[d] = IF d = owner[t] THEN NextBlocker(owner[t], t) ELSE blocker[d]
    BY <1>2, <2>1 DEF Remove, ReaderInv, ReaderTypes
  <2>3. blocker[owner[t]] = None => NextBlocker(owner[t], t) = None
    BY RcuAssumption DEF NextBlocker
  <2> QED BY <2>2, <2>3 DEF ReadyKept, NodeReady
<1> QED BY <1>1, <1>2

LEMMA CleanupReady ==
    ASSUME ReaderInv, NEW c \in CPUs, FinishCleanup(c, running[c]), UNCHANGED <<period, cpuPending>>
    PROVE  ReadyKept
<1>1. running[c] \in Tasks \cup {Idle}
  BY DEF ReaderInv, ReaderTypes
<1>2. \/ UNCHANGED blocker
      \/ running[c] \in Tasks /\ owner[running[c]] # None /\ Remove(running[c])
  BY <1>1 DEF FinishCleanup
<1> QED BY <1>2, RemoveReady

LEMMA DriverKept ==
    ASSUME DriverInv, UNCHANGED <<gp, at, active, coordVars, period, report>>,
           cpuPending' \in [CPUs -> BOOLEAN], snapshot' \in [CPUs -> Nat \cup {None}],
           \A d \in CPUs : cpuPending'[d] => cpuPending[d], ReadyKept
    PROVE  DriverInv'
<1>1. UNCHANGED <<gp, at, active, completed, phase, pending, period, report>>
  BY DEF coordVars
<1>2. DriverTypes'
  BY <1>1 DEF DriverInv, DriverTypes
<1>3. Phases'
  BY <1>1 DEF DriverInv, Phases
<1>4. \A d \in CPUs : Engaged(d)' <=> Engaged(d)
  BY <1>1 DEF Engaged
<1>5. at \in CPUs /\ ReadyKept
  BY DEF DriverInv, DriverTypes
<1>6. Reports'
  BY <1>1, <1>4, <1>5 DEF DriverInv, Reports, ReadyKept
<1> QED BY <1>2, <1>3, <1>6 DEF DriverInv

LEMMA ReaderStepDriver ==
    ASSUME ReaderInv, DriverInv, NEW c \in CPUs,
           Reading(c) \/ Cleanup(c) \/ Exit(c)
    PROVE  DriverInv'
<1>1. cpuPending \in [CPUs -> BOOLEAN] /\ snapshot \in [CPUs -> Nat \cup {None}] /\ DriverTypes
  BY DEF DriverInv, DriverTypes
<1>2. ASSUME UNCHANGED <<gp, at, active, report, nodeVars, coordVars>> PROVE DriverInv'
  BY <1>1, <1>2, DriverKept DEF nodeVars, ReadyKept, NodeReady
<1>3. ASSUME UNCHANGED <<gp, at, active, report, period, blocker, cpuPending, coordVars>>,
             Cross(c) \/ NoCross
      PROVE  DriverInv'
  BY <1>1, <1>3, CrossSnapshot, DriverKept DEF ReadyKept, NodeReady
<1>4. ASSUME Reading(c) PROVE DriverInv'
  <2>1. UNCHANGED <<gp, at, active>>
    BY <1>4 DEF Reading, gpVars
  <2>2. CASE EnterScope(c) \/ LeaveScope(c) \/ IrqEnterScope(c) \/ IrqLeaveScope(c)
    BY <1>2, <2>1, <2>2 DEF EnterScope, LeaveScope, IrqEnterScope, IrqLeaveScope, cpuVars
  <2>3. CASE ExitQuiescent(c) \/ IrqEnter(c) \/ IrqExit(c)
    BY <1>3, <2>1, <2>3 DEF ExitQuiescent, IrqEnter, IrqExit
  <2> QED BY <1>4, <2>2, <2>3 DEF Reading, ReaderLeaves
<1>5. ASSUME Cleanup(c) PROVE DriverInv'
  <2>1. UNCHANGED <<gp, at, active, report, period, cpuPending, coordVars>>
    BY <1>5 DEF Cleanup, gpVars, CheckReaderCleanup, EnterQuiescent, SwitchNote, cpuVars
  <2>2. FinishCleanup(c, running[c])
    BY <1>5 DEF Cleanup, CheckReaderCleanup, EnterQuiescent, SwitchNote
  <2>3. snapshot' \in [CPUs -> Nat \cup {None}]
    <3>1. UNCHANGED snapshot \/ Cross(c)
      BY <1>5 DEF Cleanup, CheckReaderCleanup, EnterQuiescent, SwitchNote
    <3> QED BY <1>1, <3>1, CrossSnapshot
  <2> QED BY <1>1, <2>1, <2>2, <2>3, CleanupReady, DriverKept
<1>6. ASSUME Exit(c) PROVE DriverInv'
  <2>1. PICK u \in Incoming(c) : SwitchExit(c, u)
    BY <1>6 DEF Exit
  <2>2. UNCHANGED <<gp, at, active, report, period, snapshot, cpuPending, coordVars>>
    BY <1>6, <2>1 DEF Exit, SwitchExit, gpVars
  <2>3. running[c] \in Tasks
    BY <2>1 DEF SwitchExit, ReaderInv, Placement
  <2>4. UNCHANGED blocker \/ (owner[running[c]] # None /\ Remove(running[c]))
    BY <2>1 DEF SwitchExit
  <2> QED BY <1>1, <2>2, <2>3, <2>4, RemoveReady, DriverKept
<1> QED BY <1>4, <1>5, <1>6

LEMMA EnrolmentDriver ==
    ASSUME ReaderInv, DriverInv, NEW c \in CPUs, Enrolment(c)
    PROVE  DriverInv'
<1>1. /\ UNCHANGED <<gp, at, active, completed, phase, pending, period>>
      /\ cpuPending' = [cpuPending EXCEPT ![c] = FALSE]
      /\ snapshot' = [snapshot EXCEPT ![c] = None]
  BY DEF Enrolment, SwitchLock, gpVars, coordVars
<1>2. \A d \in CPUs : cpuPending'[d] <=> cpuPending[d] /\ d # c
  BY <1>1 DEF DriverInv, DriverTypes
<1>3. ReadyKept
  <2>1. blocker \in [CPUs -> Tasks \cup {None}]
    BY DEF ReaderInv, ReaderTypes
  <2>2. \/ UNCHANGED blocker
        \/ cpuPending[c] /\ \A d \in CPUs \ {c} : blocker'[d] = blocker[d]
    BY <2>1 DEF Enrolment, SwitchLock, Enroll
  <2> QED BY <1>1, <1>2, <2>2 DEF ReadyKept, NodeReady
<1>4. \/ UNCHANGED report
      \/ /\ report' = [report EXCEPT ![c] = period[c]]
         /\ blocker'[c] = None
  BY DEF Enrolment, SwitchLock
<1>5. /\ cpuPending' \in [CPUs -> BOOLEAN] /\ snapshot' \in [CPUs -> Nat \cup {None}]
      /\ report' \in [CPUs -> Nat]
  BY <1>1, <1>4 DEF DriverInv, DriverTypes
<1>6. CASE UNCHANGED report
  BY <1>1, <1>2, <1>3, <1>5, <1>6, DriverKept DEF coordVars
<1>7. CASE report' = [report EXCEPT ![c] = period[c]] /\ blocker'[c] = None
  <2>1. DriverTypes' /\ Phases'
    BY <1>1, <1>5 DEF DriverInv, DriverTypes, Phases
  <2>2. \A d \in CPUs : Engaged(d)' <=> Engaged(d)
    BY <1>1 DEF Engaged
  <2>3. at \in CPUs
    BY DEF DriverInv, DriverTypes
  <2>4. \A d \in CPUs : report'[d] = IF d = c THEN period[c] ELSE report[d]
    BY <1>7 DEF DriverInv, DriverTypes
  <2>5. period[c] # 0 => NodeReady(c)'
    BY <1>1, <1>2, <1>7 DEF NodeReady
  <2>6. period[c] # 0 => period[c] = completed + 1 /\ phase # "Idle"
    BY DEF DriverInv, Reports, Engaged, Phases
  <2>7. \A d \in CPUs : report'[d] # 0 /\ report'[d] > completed' =>
          /\ report'[d] = completed' + 1 /\ phase' # "Idle"
          /\ phase' \in {"Initializing", "Waiting"} => NodeReady(d)'
    BY <1>1, <1>3, <2>4, <2>5, <2>6 DEF DriverInv, Reports, ReadyKept
  <2>8. Reports'
    BY <1>1, <1>2, <1>3, <2>2, <2>3, <2>7 DEF DriverInv, Reports, ReadyKept
  <2> QED BY <2>1, <2>8 DEF DriverInv
<1> QED BY <1>4, <1>6, <1>7

LEMMA ReportDriver ==
    ASSUME DriverInv, NEW c \in CPUs, Report(c)
    PROVE  DriverInv'
<1>1. /\ UNCHANGED <<gp, at, active, completed, phase, period, blocker, cpuPending, snapshot>>
      /\ pending' = IF Accepts(c, report[c]) THEN pending \ {c} ELSE pending
      /\ report' = [report EXCEPT ![c] = 0]
  BY DEF Report, SwitchReport, AcceptReport, gpVars, nodeVars
<1>2. DriverTypes' /\ Phases'
  BY <1>1 DEF DriverInv, DriverTypes, Phases
<1>3. \A d \in CPUs : (Engaged(d)' <=> Engaged(d)) /\ (NodeReady(d)' <=> NodeReady(d))
  BY <1>1 DEF Engaged, NodeReady
<1>4. \A d \in CPUs : report'[d] = IF d = c THEN 0 ELSE report[d]
  BY <1>1 DEF DriverInv, DriverTypes
<1>5. Accepts(c, report[c]) => NodeReady(c)
  BY SMT DEF Accepts, DriverInv, Reports, DriverTypes
<1>6. phase \in {"Initializing", "Waiting"} => \A d \in CPUs \ pending' : NodeReady(d)
  BY <1>1, <1>5 DEF DriverInv, Reports
<1>7. at \in CPUs
  BY DEF DriverInv, DriverTypes
<1>8. Reports'
  BY <1>1, <1>3, <1>4, <1>6, <1>7 DEF DriverInv, Reports
<1> QED BY <1>2, <1>8 DEF DriverInv

-----------------------------------------------------------------------------
(* The driver's own steps. *)

LEMMA LoopStep ==
    ASSUME DriverTypes, NEW here, NEW next, GpNext(here, next)
    PROVE  /\ at \in Nat /\ NrCpus \in Nat /\ at >= 1 /\ at <= NrCpus
           /\ at' \in CPUs
           /\ \/ at < NrCpus /\ gp' = here /\ at' = at + 1
              \/ at = NrCpus /\ gp' = next /\ at' = 1
BY SMT, RcuAssumption DEF GpNext, DriverTypes, CPUs

(* Moving on over nodes and reports that stay as they are. *)
LEMMA MoveOn ==
    ASSUME DriverInv, UNCHANGED <<completed, phase, pending, period, blocker, cpuPending, snapshot,
                                  report>>,
           at' \in CPUs, gp' \in {"park", "observe", "inspect", "accept", "assign", "finalize",
                                   "begin", "promote"},
           gp \notin {"nodes", "init", "finish", "complete"},
           active' \in Nat, gp' \in {"park", "finalize", "begin"} => at' = 1,
           gp' = "finalize" => phase = "Waiting", gp' \in {"promote", "begin"} => phase = "Idle",
           phase = "Waiting" => active' = active, gp = "promote" \/ active' = active,
           phase = "Idle" => active' = 0 \/ gp' = "promote",
           gp' = "accept" => NodeReady(at')
    PROVE  DriverInv'
<1>1. DriverTypes' /\ Phases'
  BY DEF DriverInv, DriverTypes, Phases
<1>2. \A d \in CPUs : (Engaged(d)' <=> Engaged(d)) /\ (NodeReady(d)' <=> NodeReady(d))
  BY DEF Engaged, NodeReady, DriverInv, Phases
<1>3. Reports'
  BY <1>2 DEF DriverInv, Reports
<1> QED BY <1>1, <1>3 DEF DriverInv

LEMMA GpStartDriver == ASSUME DriverInv, GpStart PROVE DriverInv'
<1>1. /\ gp = "park" /\ gp' = "observe"
      /\ UNCHANGED <<at, active, completed, phase, pending, period, blocker, cpuPending, snapshot,
                     report>>
  BY DEF GpStart, rcuVars, coordVars, nodeVars, cpuVars
<1>2. at \in CPUs /\ active \in Nat /\ (phase = "Idle" => active = 0)
  BY <1>1 DEF DriverInv, DriverTypes, Phases
<1> QED BY <1>1, <1>2, MoveOn

LEMMA GpObserveDriver == ASSUME DriverInv, GpObserve PROVE DriverInv'
<1>1. /\ gp = "observe"
      /\ UNCHANGED <<at, active, completed, phase, pending, period, blocker, report>>
      /\ ObserveWatching(at)
      /\ gp' = IF cpuPending[at] /\ ~cpuPending'[at] /\ blocker[at] = None
               THEN "report" ELSE "inspect"
  BY DEF GpObserve, coordVars, cpuVars
<1>2. at \in CPUs
  BY DEF DriverInv, DriverTypes
<1>3. /\ cpuPending' \in [CPUs -> BOOLEAN] /\ snapshot' \in [CPUs -> Nat \cup {None}]
      /\ \A d \in CPUs : cpuPending'[d] => cpuPending[d]
  <2>1. cpuPending \in [CPUs -> BOOLEAN] /\ snapshot \in [CPUs -> Nat \cup {None}]
    BY DEF DriverInv, DriverTypes
  <2>2. UNCHANGED cpuPending \/ cpuPending' = [cpuPending EXCEPT ![at] = FALSE]
    BY <1>1 DEF ObserveWatching
  <2>3. \/ UNCHANGED snapshot \/ snapshot' = [snapshot EXCEPT ![at] = None]
        \/ snapshot' = [snapshot EXCEPT ![at] = 0]
    BY <1>1 DEF ObserveWatching
  <2>4. cpuPending' \in [CPUs -> BOOLEAN]
    BY <2>1, <2>2
  <2>5. snapshot' \in [CPUs -> Nat \cup {None}]
    BY SMT, <2>1, <2>3
  <2>6. \A d \in CPUs : cpuPending'[d] => cpuPending[d]
    BY <1>2, <2>1, <2>2
  <2> QED BY <2>4, <2>5, <2>6
<1>4. DriverTypes' /\ Phases'
  BY <1>1, <1>3 DEF DriverInv, DriverTypes, Phases
<1>5. \A d \in CPUs : Engaged(d)' <=> Engaged(d)
  BY <1>1 DEF Engaged
<1>6. ReadyKept
  BY <1>1, <1>3 DEF ReadyKept, NodeReady
<1>7. gp' = "report" => NodeReady(at)'
  BY <1>1, <1>2 DEF NodeReady, DriverInv, Reports
<1>8. Reports'
  BY <1>1, <1>2, <1>3, <1>5, <1>6, <1>7 DEF DriverInv, Reports, ReadyKept
<1> QED BY <1>4, <1>8 DEF DriverInv

(* A report that is accepted comes from a node that is ready. *)
LEMMA AcceptDriver ==
    ASSUME DriverInv, gp \in {"report", "accept"}, AcceptReport(at, taken),
           UNCHANGED <<active, report, nodeVars>>, at' \in CPUs,
           gp' \in {"observe", "inspect", "assign"}
    PROVE  DriverInv'
<1>1. /\ UNCHANGED <<completed, phase, period, blocker, cpuPending, snapshot>>
      /\ pending' = IF Accepts(at, taken) THEN pending \ {at} ELSE pending
  BY DEF AcceptReport, nodeVars
<1>2. DriverTypes' /\ Phases'
  BY <1>1 DEF DriverInv, DriverTypes, Phases
<1>3. \A d \in CPUs : (Engaged(d)' <=> Engaged(d)) /\ (NodeReady(d)' <=> NodeReady(d))
  BY <1>1 DEF Engaged, NodeReady
<1>4. phase \in {"Initializing", "Waiting"} => \A d \in CPUs \ pending' : NodeReady(d)
  BY <1>1 DEF DriverInv, Reports
<1>5. Reports'
  BY <1>1, <1>3, <1>4 DEF DriverInv, Reports
<1> QED BY <1>2, <1>5 DEF DriverInv

LEMMA GpReportDriver == ASSUME DriverInv, GpReport \/ GpAccept PROVE DriverInv'
<1>1. DriverTypes
  BY DEF DriverInv
<1>2. /\ gp \in {"report", "accept"} /\ AcceptReport(at, taken)
      /\ UNCHANGED <<active, report, nodeVars>>
      /\ GpNext("observe", "assign") \/ (gp' = "inspect" /\ UNCHANGED at)
  BY DEF GpReport, GpAccept, cpuVars
<1>3. at' \in CPUs /\ gp' \in {"observe", "inspect", "assign"}
  BY <1>1, <1>2, LoopStep DEF DriverTypes
<1> QED BY <1>2, <1>3, AcceptDriver

LEMMA GpInspectDriver == ASSUME DriverInv, GpInspect PROVE DriverInv'
<1>1. DriverTypes /\ at \in CPUs /\ active \in Nat /\ (gp = "inspect" /\ phase = "Idle" => active = 0)
  BY DEF DriverInv, DriverTypes, Phases
<1>2. /\ gp = "inspect"
      /\ UNCHANGED <<active, completed, phase, pending, period, blocker, cpuPending, snapshot,
                     report>>
      /\ \/ NodeReady(at) /\ gp' = "accept" /\ UNCHANGED at
         \/ GpNext("observe", "assign")
  BY DEF GpInspect, rcuVars, coordVars, nodeVars, cpuVars
<1>3. at' \in CPUs /\ gp' \in {"observe", "accept", "assign"} /\ (gp' = "accept" => NodeReady(at'))
  BY SMT, <1>1, <1>2, LoopStep
<1> QED BY <1>1, <1>2, <1>3, MoveOn

LEMMA GpAssignDriver == ASSUME DriverInv, GpAssign PROVE DriverInv'
<1>1. DriverTypes /\ active \in Nat /\ completed \in Nat
  BY DEF DriverInv, DriverTypes
<1>2. /\ gp = "assign"
      /\ UNCHANGED <<active, completed, phase, pending, period, blocker, cpuPending, snapshot,
                     report>>
      /\ GpNext("assign", IF active # 0 THEN "finalize" ELSE "begin")
  BY DEF GpAssign, rcuVars, coordVars, nodeVars, cpuVars
<1>3. (phase = "Idle" /\ active = 0) \/ (phase = "Waiting" /\ active # 0)
  BY SMT, <1>1, <1>2 DEF DriverInv, Phases, DriverTypes
<1>4. /\ at' \in CPUs
      /\ \/ gp' = "assign"
         \/ gp' = "finalize" /\ phase = "Waiting" /\ at' = 1
         \/ gp' = "begin" /\ phase = "Idle" /\ at' = 1
  BY <1>1, <1>2, <1>3, LoopStep
<1> QED BY <1>1, <1>2, <1>3, <1>4, MoveOn

LEMMA GpFinalizeDriver == ASSUME DriverInv, GpFinalize PROVE DriverInv'
<1>1. /\ gp = "finalize"
      /\ UNCHANGED <<at, active, completed, pending, period, blocker, cpuPending, snapshot, report>>
      /\ \/ pending = {} /\ phase' = "Finalizing" /\ gp' = "finish"
         \/ UNCHANGED phase /\ gp' = "park"
  BY DEF GpFinalize, CanFinalize, nodeVars, cpuVars
<1>2. at = 1 /\ phase = "Waiting" /\ active = completed + 1
  BY <1>1 DEF DriverInv, Phases
<1>3. DriverTypes' /\ Phases'
  BY <1>1, <1>2 DEF DriverInv, DriverTypes, Phases
<1>4. \A d \in CPUs : (Engaged(d)' <=> Engaged(d)) /\ (NodeReady(d)' <=> NodeReady(d))
  BY SMT, <1>1, <1>2 DEF Engaged, NodeReady, CPUs
<1>5. Reports'
  BY <1>1, <1>2, <1>4 DEF DriverInv, Reports
<1> QED BY <1>3, <1>5 DEF DriverInv

LEMMA GpFinishNodeDriver == ASSUME DriverInv, GpFinishNode PROVE DriverInv'
<1>1. /\ gp = "finish" /\ NodeReady(at)
      /\ UNCHANGED <<active, completed, phase, pending, blocker, cpuPending, report>>
      /\ period' = [period EXCEPT ![at] = 0]
      /\ snapshot' = [snapshot EXCEPT ![at] = None]
      /\ GpNext("finish", "complete")
  BY DEF GpFinishNode, coordVars, cpuVars
<1>2. /\ DriverTypes /\ phase = "Finalizing" /\ active = completed + 1 /\ at \in CPUs
  BY <1>1 DEF DriverInv, DriverTypes, Phases
<1>3. /\ at \in Nat /\ NrCpus \in Nat /\ at >= 1 /\ at <= NrCpus
      /\ at' \in CPUs
      /\ \/ at < NrCpus /\ gp' = "finish" /\ at' = at + 1
         \/ at = NrCpus /\ gp' = "complete" /\ at' = 1
  BY <1>1, <1>2, LoopStep
<1>4. period' \in [CPUs -> Nat] /\ snapshot' \in [CPUs -> Nat \cup {None}]
  BY <1>1 DEF DriverInv, DriverTypes
<1>5. DriverTypes' /\ Phases'
  BY <1>1, <1>2, <1>3, <1>4 DEF DriverTypes, Phases
<1>6. \A d \in CPUs : period'[d] = IF d = at THEN 0 ELSE period[d]
  BY <1>1, <1>2 DEF DriverTypes
<1>7. \A d \in CPUs : Engaged(d)' <=> Engaged(d) /\ d # at
  BY SMT, <1>1, <1>2, <1>3 DEF Engaged, CPUs
<1>8. \A d \in CPUs : d # at => (NodeReady(d)' <=> NodeReady(d))
  BY <1>1, <1>6 DEF NodeReady
<1>9. \A d \in CPUs : cpuPending'[d] => period'[d] # 0
  BY SMT, <1>1, <1>6 DEF NodeReady, DriverInv, Reports
<1>10. Reports'
  BY SMT, <1>1, <1>2, <1>3, <1>6, <1>7, <1>8, <1>9 DEF DriverInv, Reports
<1> QED BY <1>5, <1>10 DEF DriverInv

LEMMA GpCompleteDriver == ASSUME DriverInv, GpComplete PROVE DriverInv'
<1>1. /\ gp = "complete" /\ gp' = "promote" /\ phase' = "Idle" /\ completed' = completed + 1
      /\ UNCHANGED <<at, active, pending, period, blocker, cpuPending, snapshot, report>>
  BY DEF GpComplete, FinishFinalization, nodeVars, cpuVars
<1>2. at = 1 /\ phase = "Finalizing"
  BY <1>1 DEF DriverInv, Phases
<1>3. DriverTypes' /\ Phases'
  BY <1>1, <1>2 DEF DriverInv, DriverTypes, Phases
<1>4. \A d \in CPUs : ~Engaged(d) /\ ~Engaged(d)'
  BY <1>1, <1>2 DEF Engaged
<1>5. \A d \in CPUs : report[d] \in Nat /\ completed \in Nat
  BY DEF DriverInv, DriverTypes
<1>6. Reports'
  BY SMT, <1>1, <1>2, <1>4, <1>5 DEF DriverInv, Reports
<1> QED BY <1>3, <1>6 DEF DriverInv

LEMMA GpPromoteDriver == ASSUME DriverInv, GpPromote PROVE DriverInv'
<1>1. /\ gp = "promote" /\ active' = 0
      /\ UNCHANGED <<completed, phase, pending, period, blocker, cpuPending, snapshot, report>>
      /\ GpNext("promote", "begin")
  BY DEF GpPromote, rcuVars, coordVars, nodeVars, cpuVars
<1>2. DriverTypes /\ phase = "Idle"
  BY <1>1 DEF DriverInv, Phases
<1>3. at' \in CPUs /\ (gp' = "promote" \/ (gp' = "begin" /\ at' = 1))
  BY <1>1, <1>2, LoopStep
<1> QED BY <1>1, <1>2, <1>3, MoveOn

LEMMA GpBeginDriver == ASSUME DriverInv, GpBegin PROVE DriverInv'
<1>1. /\ gp = "begin"
      /\ UNCHANGED <<at, active, completed, period, blocker, cpuPending, snapshot, report>>
      /\ \/ phase' = "Initializing" /\ pending' = CPUs /\ gp' = "nodes"
         \/ UNCHANGED <<phase, pending>> /\ gp' = "park"
  BY DEF GpBegin, StartInitialization, coordVars, nodeVars, cpuVars
<1>2. at = 1 /\ phase = "Idle" /\ active = 0
  BY <1>1 DEF DriverInv, Phases
<1>3. DriverTypes' /\ Phases'
  BY <1>1, <1>2 DEF DriverInv, DriverTypes, Phases
<1>4. \A d \in CPUs : ~Engaged(d) /\ ~Engaged(d)'
  BY SMT, <1>1, <1>2 DEF Engaged, CPUs
<1>5. Reports'
  BY <1>1, <1>2, <1>4 DEF DriverInv, Reports
<1> QED BY <1>3, <1>5 DEF DriverInv

LEMMA GpBeginNodeDriver == ASSUME DriverInv, GpBeginNode PROVE DriverInv'
<1>1. /\ gp = "nodes" /\ period[at] = 0
      /\ UNCHANGED <<active, completed, phase, pending, report>>
      /\ period' = [period EXCEPT ![at] = completed + 1]
      /\ blocker' = [blocker EXCEPT ![at] = IF readers[at] = <<>> THEN None ELSE readers[at][1]]
      /\ snapshot' = [snapshot EXCEPT ![at] = None]
      /\ cpuPending' = [cpuPending EXCEPT ![at] = TRUE]
      /\ GpNext("nodes", "init")
  BY DEF GpBeginNode, BeginNode, coordVars, cpuVars
<1>2. DriverTypes /\ phase = "Initializing" /\ at \in CPUs
  BY <1>1 DEF DriverInv, DriverTypes, Phases
<1>3. /\ at \in Nat /\ NrCpus \in Nat /\ at >= 1 /\ at <= NrCpus
      /\ at' \in CPUs
      /\ \/ at < NrCpus /\ gp' = "nodes" /\ at' = at + 1
         \/ at = NrCpus /\ gp' = "init" /\ at' = 1
  BY <1>1, <1>2, LoopStep
<1>4. /\ period' \in [CPUs -> Nat] /\ snapshot' \in [CPUs -> Nat \cup {None}]
      /\ cpuPending' \in [CPUs -> BOOLEAN]
  BY SMT, <1>1, <1>2 DEF DriverTypes
<1>5. DriverTypes'
  BY <1>1, <1>2, <1>3, <1>4 DEF DriverTypes
<1>6. Phases'
  BY <1>1, <1>2, <1>3 DEF DriverInv, Phases
<1>7. \A d \in CPUs : period'[d] = IF d = at THEN completed + 1 ELSE period[d]
  BY <1>1, <1>2 DEF DriverTypes
<1>8. \A d \in CPUs : Engaged(d)' <=> Engaged(d) \/ d = at
  BY SMT, <1>1, <1>2, <1>3 DEF Engaged, CPUs
<1>9. \A d \in CPUs : cpuPending'[d] => cpuPending[d] \/ d = at
  BY <1>1, <1>2 DEF DriverTypes
<1>10. \A d \in CPUs : NodeReady(d) => d # at /\ NodeReady(d)'
  <2> SUFFICES ASSUME NEW d \in CPUs, NodeReady(d) PROVE d # at /\ NodeReady(d)'
    OBVIOUS
  <2>1. d # at
    BY <1>1 DEF NodeReady
  <2>2. blocker'[d] = blocker[d] /\ cpuPending'[d] = cpuPending[d] /\ period'[d] = period[d]
    BY SMT, <1>1, <2>1
  <2> QED BY <2>1, <2>2 DEF NodeReady
<1>11. completed \in Nat
  BY <1>2 DEF DriverTypes
<1>12. Reports'
  BY SMT, <1>1, <1>2, <1>3, <1>7, <1>8, <1>9, <1>10, <1>11 DEF DriverInv, Reports
<1> QED BY <1>5, <1>6, <1>12 DEF DriverInv

LEMMA GpInitializedDriver == ASSUME DriverInv, GpInitialized PROVE DriverInv'
<1>1. /\ gp = "init" /\ gp' = "park" /\ phase' = "Waiting" /\ active' = completed + 1
      /\ UNCHANGED <<at, completed, pending, period, blocker, cpuPending, snapshot, report>>
  BY DEF GpInitialized, FinishInitialization, nodeVars, cpuVars
<1>2. at = 1 /\ phase = "Initializing"
  BY <1>1 DEF DriverInv, Phases
<1>3. DriverTypes' /\ Phases'
  BY SMT, <1>1, <1>2 DEF DriverInv, DriverTypes, Phases
<1>4. \A d \in CPUs : Engaged(d) /\ Engaged(d)' /\ (NodeReady(d)' <=> NodeReady(d))
  BY <1>1, <1>2 DEF Engaged, NodeReady
<1>5. Reports'
  BY <1>1, <1>2, <1>4 DEF DriverInv, Reports
<1> QED BY <1>3, <1>5 DEF DriverInv

LEMMA DriverInvInit == Init => DriverInv
<1> SUFFICES ASSUME Init PROVE DriverInv
  OBVIOUS
<1>1. 1 \in CPUs /\ \A d \in CPUs : cpuPending[d] = FALSE /\ period[d] = 0 /\ report[d] = 0
  BY SMT, RcuAssumption DEF Init, RcuInit, CPUs
<1>2. cpuPending \in [CPUs -> BOOLEAN]
  BY DEF Init, RcuInit
<1>3. DriverTypes
  BY <1>1, <1>2 DEF Init, RcuInit, DriverTypes
<1>4. Phases
  BY DEF Init, RcuInit, Phases
<1>5. Reports
  BY <1>1 DEF Init, RcuInit, Reports, Engaged
<1> QED BY <1>3, <1>4, <1>5 DEF DriverInv

LEMMA DriverInvNext == ReaderInv /\ DriverInv /\ [Next]_vars => DriverInv'
<1> SUFFICES ASSUME ReaderInv, DriverInv, [Next]_vars PROVE DriverInv'
  OBVIOUS
<1>1. ASSUME UNCHANGED <<rcuVars, gpVars>> PROVE DriverInv'
  <2>1. cpuPending \in [CPUs -> BOOLEAN] /\ snapshot \in [CPUs -> Nat \cup {None}]
    BY DEF DriverInv, DriverTypes
  <2>2. UNCHANGED <<gp, at, active, coordVars, period, report, cpuPending, snapshot, blocker>>
    BY <1>1 DEF rcuVars, gpVars, nodeVars, cpuVars
  <2> QED BY <2>1, <2>2, DriverKept DEF ReadyKept, NodeReady
<1>2. ASSUME NEW c \in CPUs, Cpu(c) PROVE DriverInv'
  <2>1. CASE (\E b \in Callbacks : Submit(c, b)) \/ BatchTake(c) \/ Invoke(c) \/ BatchDrop(c)
    BY <1>1, <2>1 DEF Submit, BatchTake, Invoke, BatchDrop
  <2> QED BY <1>2, <2>1, ReaderStepDriver, EnrolmentDriver, ReportDriver DEF Cpu
<1>3. CASE GpStep
  BY SMT, <1>3, GpStartDriver, GpObserveDriver, GpReportDriver, GpInspectDriver, GpAssignDriver,
     GpFinalizeDriver, GpFinishNodeDriver, GpCompleteDriver, GpPromoteDriver, GpBeginDriver,
     GpBeginNodeDriver, GpInitializedDriver DEF GpStep
<1>4. CASE Drain
  BY <1>1, <1>4 DEF Drain, DrainStart, DrainInstall, DrainInstalled, DrainReturn
<1>5. CASE UNCHANGED vars
  BY <1>1, <1>5 DEF vars
<1> QED BY <1>2, <1>3, <1>4, <1>5 DEF Next

-----------------------------------------------------------------------------
(* Callback queues. *)

LEMMA SegmentsKept ==
    ASSUME Segments, UNCHANGED <<waiting, completed>>, phase # "Idle" => phase' # "Idle",
           gp # "promote" \/ UNCHANGED <<gp, at>>
    PROVE  Segments'
BY SMT DEF Segments

LEMMA QueuesKept ==
    ASSUME QueueInv, UNCHANGED <<unassigned, waiting, eligible, batch, invoked, completed>>,
           phase # "Idle" => phase' # "Idle", gp # "promote" \/ UNCHANGED <<gp, at>>,
           UNCHANGED guards \/ \E g : Release(g)
    PROVE  QueueInv'
<1>1. Submitted' = Submitted /\ guards' = [b \in Submitted |-> guards'[b]]
  <2>1. CASE UNCHANGED guards
    BY <2>1 DEF Submitted, QueueInv, QueueTypes
  <2>2. CASE \E g : Release(g)
    BY <2>2 DEF Release, Submitted
  <2> QED BY <2>1, <2>2
<1>2. QueueTypes'
  BY <1>1 DEF QueueInv, QueueTypes
<1>3. Segments'
  BY SegmentsKept DEF QueueInv
<1>4. \A b : Queued(b)' <=> Queued(b)
  BY DEF Queued
<1> QED BY <1>1, <1>2, <1>3, <1>4 DEF QueueInv

LEMMA ReaderStepQueues ==
    ASSUME QueueInv, NEW c \in CPUs,
           Reading(c) \/ Cleanup(c) \/ Enrolment(c) \/ Report(c) \/ Exit(c)
    PROVE  QueueInv'
<1>1. UNCHANGED <<unassigned, waiting, eligible, batch, invoked, gp, at>>
  BY DEF Reading, Cleanup, Enrolment, Report, Exit, queueVars, historyVars, gpVars
<1>2. UNCHANGED <<completed, phase>>
  <2>1. CASE Reading(c)
    BY <2>1 DEF Reading, ReaderLeaves, EnterScope, LeaveScope, ExitQuiescent, IrqEnter, IrqExit,
                IrqEnterScope, IrqLeaveScope, coordVars
  <2>2. CASE Cleanup(c) \/ Enrolment(c) \/ Report(c) \/ Exit(c)
    BY <2>2 DEF Cleanup, Enrolment, Report, Exit, CheckReaderCleanup, EnterQuiescent, SwitchNote,
                SwitchLock, SwitchReport, SwitchExit, AcceptReport, coordVars
  <2> QED BY <2>1, <2>2
<1>3. UNCHANGED guards \/ \E g : Release(g)
  BY DEF Reading, ReaderLeaves, Cleanup, Enrolment, Report, Exit, historyVars
<1> QED BY <1>1, <1>2, <1>3, QueuesKept

LEMMA EmptyList == <<>> \in Seq(Nodes) /\ \A y : ~In(<<>>, y)
BY SMT DEF In

LEMMA SubmitQueues ==
    ASSUME QueueInv, NEW c \in CPUs, NEW b \in Callbacks, Submit(c, b)
    PROVE  QueueInv'
<1>1. /\ unassigned' = [unassigned EXCEPT ![c] = Append(unassigned[c], b)]
      /\ guards' = [x \in Submitted \cup {b} |-> IF x = b THEN Scopes ELSE guards[x]]
      /\ UNCHANGED <<waiting, eligible, batch, invoked, completed, phase, gp, at>>
  BY DEF Submit, rcuVars, coordVars, gpVars
<1>2. Submitted' = Submitted \cup {b} /\ guards' = [x \in Submitted' |-> guards'[x]]
  BY <1>1 DEF Submitted
<1>3. b \in Nodes /\ unassigned[c] \in Seq(Nodes)
  BY DEF Nodes, QueueInv, QueueTypes
<1>4. Append(unassigned[c], b) \in Seq(Nodes)
  BY SMT, <1>3
<1>5. QueueTypes'
  BY <1>1, <1>2, <1>4 DEF QueueInv, QueueTypes
<1>6. \A d \in CPUs : unassigned'[d] = IF d = c THEN Append(unassigned[c], b) ELSE unassigned[d]
  BY <1>1 DEF QueueInv, QueueTypes
<1>7. \A x : Queued(x)' => Queued(x) \/ x = b
  <2>1. \A x : In(Append(unassigned[c], b), x) => In(unassigned[c], x) \/ x = b
    BY <1>3, AppendMembers
  <2> QED BY SMT, <1>1, <1>6, <2>1 DEF Queued
<1>8. Segments'
  BY <1>1, SegmentsKept DEF QueueInv
<1> QED BY <1>2, <1>5, <1>7, <1>8 DEF QueueInv

LEMMA BatchTakeQueues ==
    ASSUME QueueInv, NEW c \in CPUs, BatchTake(c)
    PROVE  QueueInv'
<1>1. /\ batch' = [batch EXCEPT ![c] = eligible[c]]
      /\ eligible' = [eligible EXCEPT ![c] = <<>>]
      /\ UNCHANGED <<unassigned, waiting, invoked, guards, completed, phase, gp, at>>
  BY DEF BatchTake, rcuVars, coordVars, gpVars, historyVars
<1>2. Submitted' = Submitted
  BY <1>1 DEF Submitted
<1>3. QueueTypes'
  BY <1>1, <1>2, EmptyList DEF QueueInv, QueueTypes
<1>4. \A d \in CPUs : /\ batch'[d] = IF d = c THEN eligible[c] ELSE batch[d]
                      /\ eligible'[d] = IF d = c THEN <<>> ELSE eligible[d]
  BY <1>1 DEF QueueInv, QueueTypes
<1>5. \A x : Queued(x)' => Queued(x)
  BY SMT, <1>1, <1>4, EmptyList DEF Queued
<1>6. Segments'
  BY <1>1, SegmentsKept DEF QueueInv
<1> QED BY <1>2, <1>3, <1>5, <1>6 DEF QueueInv

LEMMA InvokeQueues ==
    ASSUME QueueInv, NEW c \in CPUs, Invoke(c)
    PROVE  QueueInv'
<1>1. /\ batch[c] # <<>>
      /\ batch' = [batch EXCEPT ![c] = Tail(batch[c])]
      /\ \/ UNCHANGED invoked
         \/ Head(batch[c]) \notin Markers /\ invoked' = invoked \cup {Head(batch[c])}
      /\ UNCHANGED <<unassigned, waiting, eligible, guards, completed, phase, gp, at>>
  BY DEF Invoke, IsMarker, rcuVars, coordVars, gpVars
<1>2. /\ Head(batch[c]) \in Nodes /\ In(batch[c], Head(batch[c]))
      /\ Tail(batch[c]) \in Seq(Nodes)
      /\ \A y : In(Tail(batch[c]), y) => In(batch[c], y)
  BY <1>1, TailMembers DEF QueueInv, QueueTypes
<1>3. Submitted' = Submitted
  BY <1>1 DEF Submitted
<1>4. Head(batch[c]) \notin Markers => Head(batch[c]) \in Submitted
  BY <1>2 DEF Nodes, QueueInv, Queued
<1>5. QueueTypes'
  BY <1>1, <1>2, <1>3, <1>4 DEF QueueInv, QueueTypes
<1>6. \A d \in CPUs : batch'[d] = IF d = c THEN Tail(batch[c]) ELSE batch[d]
  BY <1>1 DEF QueueInv, QueueTypes
<1>7. \A x : Queued(x)' => Queued(x)
  BY SMT, <1>1, <1>2, <1>6 DEF Queued
<1>8. Segments'
  BY <1>1, SegmentsKept DEF QueueInv
<1> QED BY <1>3, <1>5, <1>7, <1>8 DEF QueueInv

LEMMA BatchDropQueues ==
    ASSUME QueueInv, NEW c \in CPUs, BatchDrop(c)
    PROVE  QueueInv'
<1>1. /\ eligible' = [eligible EXCEPT ![c] = batch[c] \o eligible[c]]
      /\ batch' = [batch EXCEPT ![c] = <<>>]
      /\ UNCHANGED <<unassigned, waiting, invoked, guards, completed, phase, gp, at>>
  BY DEF BatchDrop, rcuVars, coordVars, gpVars, historyVars
<1>2. batch[c] \in Seq(Nodes) /\ eligible[c] \in Seq(Nodes)
  BY DEF QueueInv, QueueTypes
<1>3. /\ batch[c] \o eligible[c] \in Seq(Nodes)
      /\ \A y : In(batch[c] \o eligible[c], y) => In(batch[c], y) \/ In(eligible[c], y)
  BY SMT, <1>2, ConcatMembers
<1>4. Submitted' = Submitted
  BY <1>1 DEF Submitted
<1>5. QueueTypes'
  BY <1>1, <1>3, <1>4, EmptyList DEF QueueInv, QueueTypes
<1>6. \A d \in CPUs : /\ eligible'[d] = IF d = c THEN batch[c] \o eligible[c] ELSE eligible[d]
                      /\ batch'[d] = IF d = c THEN <<>> ELSE batch[d]
  BY <1>1 DEF QueueInv, QueueTypes
<1>7. \A x : Queued(x)' => Queued(x)
  BY SMT, <1>1, <1>3, <1>6, EmptyList DEF Queued
<1>8. Segments'
  BY <1>1, SegmentsKept DEF QueueInv
<1> QED BY <1>4, <1>5, <1>7, <1>8 DEF QueueInv

(* The segment that assign_pending takes: the target's own, or a free one.    *)
(* There is one, since the two segments never share a period.                 *)
Candidates == IF Slots(at, Target) # {} THEN Slots(at, Target) ELSE Slots(at, 0)
Chosen == CHOOSE i \in Candidates : \A j \in Candidates : i <= j

LEMMA AssignTarget ==
    ASSUME DriverInv, gp = "assign"
    PROVE  /\ at \in CPUs /\ completed \in Nat
           /\ \/ phase = "Idle" /\ active = 0 /\ Target = completed + 1
              \/ phase = "Waiting" /\ active # 0 /\ Target = completed + 2
<1>1. at \in CPUs /\ completed \in Nat
  BY DEF DriverInv, DriverTypes
<1>2. (phase = "Idle" /\ active = 0) \/ (phase = "Waiting" /\ active = completed + 1)
  BY DEF DriverInv, Phases, DriverTypes
<1> QED BY SMT, <1>1, <1>2 DEF Target

LEMMA AssignSlot ==
    ASSUME DriverInv, QueueInv, gp = "assign"
    PROVE  /\ Slots(at, Target) \cup Slots(at, 0) # {}
           /\ Chosen \in 1..2
           /\ waiting[at][Chosen].period \in {0, Target}
           /\ \A j \in 1..2 : j # Chosen => waiting[at][j].period # Target
<1>1. /\ at \in CPUs /\ completed \in Nat
      /\ \/ phase = "Idle" /\ active = 0 /\ Target = completed + 1
         \/ phase = "Waiting" /\ active # 0 /\ Target = completed + 2
  BY AssignTarget
<1>2. /\ waiting[at][1].period \in Nat /\ waiting[at][2].period \in Nat
      /\ \A i \in 1..2 : waiting[at][i].period \in {0, completed + 1, completed + 2}
      /\ phase = "Idle" => \A i \in 1..2 : waiting[at][i].period \in {0, completed + 1}
      /\ waiting[at][1].period = waiting[at][2].period => waiting[at][1].period = 0
  <2>1. waiting[at] \in [1..2 -> Segment]
    BY <1>1 DEF QueueInv, QueueTypes
  <2> QED BY SMT, <1>1, <2>1 DEF QueueInv, Segments, Segment
<1>3. \A p : Slots(at, p) \in SUBSET {1, 2} /\ \A i : i \in Slots(at, p) <=>
                 i \in {1, 2} /\ waiting[at][i].period = p
  BY SMT DEF Slots
<1>4. Slots(at, Target) \cup Slots(at, 0) # {}
  BY SMT, <1>1, <1>2, <1>3
<1>5. Candidates # {} /\ Candidates \in SUBSET {1, 2}
  BY <1>3, <1>4 DEF Candidates
<1>6. \E i \in Candidates : \A j \in Candidates : i <= j
  <2>1. \A j \in Candidates : j = 1 \/ j = 2
    BY <1>5
  <2>2. CASE 1 \in Candidates
    <3>1. \A j \in Candidates : 1 <= j
      BY SMT, <2>1
    <3> QED BY <2>2, <3>1
  <2>3. CASE 1 \notin Candidates
    <3>1. \A j \in Candidates : j = 2
      BY <2>1, <2>3
    <3>2. PICK i \in Candidates : TRUE
      BY <1>5
    <3>3. \A j \in Candidates : i <= j
      BY SMT, <3>1, <3>2
    <3> QED BY <3>2, <3>3
  <2> QED BY <2>2, <2>3
<1>7. Chosen \in Candidates
  BY <1>6 DEF Chosen
<1>8. Chosen \in 1..2
  BY SMT, <1>5, <1>7
<1>9. waiting[at][Chosen].period \in {0, Target}
  BY <1>3, <1>7 DEF Candidates
<1>10. \A j \in 1..2 : j # Chosen => waiting[at][j].period # Target
  <2> SUFFICES ASSUME NEW j \in 1..2, j # Chosen, waiting[at][j].period = Target PROVE FALSE
    BY SMT
  <2>1. j \in Slots(at, Target)
    BY SMT, <1>3
  <2>2. waiting[at][Chosen].period = Target
    BY SMT, <1>3, <1>7, <2>1 DEF Candidates
  <2> QED BY SMT, <1>1, <1>2, <1>8, <2>2
<1> QED BY <1>4, <1>8, <1>9, <1>10

LEMMA AssignWaiting ==
    ASSUME DriverInv, QueueInv, GpAssign, unassigned[at] # <<>>
    PROVE  /\ waiting' = [waiting EXCEPT ![at] = [waiting[at] EXCEPT ![Chosen] =
                 [period |-> Target, callbacks |-> waiting[at][Chosen].callbacks \o unassigned[at]]]]
           /\ unassigned' = [unassigned EXCEPT ![at] = <<>>]
BY AssignSlot, AssignTarget DEF GpAssign, Chosen, Candidates, QueueInv, QueueTypes

LEMMA GpAssignQueues ==
    ASSUME DriverInv, QueueInv, GpAssign
    PROVE  QueueInv'
<1>1. /\ gp = "assign"
      /\ UNCHANGED <<eligible, batch, invoked, guards, completed, phase>>
      /\ gp' # "promote"
  BY DEF GpAssign, rcuVars, coordVars, historyVars, GpNext
<1>2. CASE unassigned[at] = <<>>
  <2>1. UNCHANGED <<unassigned, waiting>>
    BY <1>2 DEF GpAssign
  <2> QED BY <1>1, <2>1, QueuesKept
<1>3. CASE unassigned[at] # <<>>
  <2> DEFINE i == Chosen
             w == waiting[at][i].callbacks \o unassigned[at]
  <2>1. /\ at \in CPUs /\ completed \in Nat
        /\ \/ phase = "Idle" /\ active = 0 /\ Target = completed + 1
           \/ phase = "Waiting" /\ active # 0 /\ Target = completed + 2
    BY <1>1, AssignTarget
  <2>2. /\ i \in 1..2
        /\ \A j \in 1..2 : j # i => waiting[at][j].period # Target
    BY SMT, <1>1, AssignSlot
  <2>3. /\ waiting' = [waiting EXCEPT ![at] = [waiting[at] EXCEPT ![i] =
                          [period |-> Target, callbacks |-> w]]]
        /\ unassigned' = [unassigned EXCEPT ![at] = <<>>]
    BY <1>3, AssignWaiting
  <2>4. /\ waiting \in [CPUs -> [1..2 -> Segment]] /\ unassigned \in [CPUs -> Seq(Nodes)]
        /\ waiting[at][i].callbacks \in Seq(Nodes) /\ unassigned[at] \in Seq(Nodes)
    BY <2>1, <2>2 DEF QueueInv, QueueTypes, Segment
  <2>5. /\ w \in Seq(Nodes)
        /\ \A y : In(w, y) => In(waiting[at][i].callbacks, y) \/ In(unassigned[at], y)
    BY SMT, <2>4, ConcatMembers
  <2> HIDE DEF i, w
  <2>6. [period |-> Target, callbacks |-> w] \in Segment
    BY SMT, <2>1, <2>5 DEF Segment
  <2>7. waiting' \in [CPUs -> [1..2 -> Segment]]
    BY SMT, <2>1, <2>2, <2>3, <2>4, <2>6
  <2>8. \A d \in CPUs : unassigned'[d] = IF d = at THEN <<>> ELSE unassigned[d]
    BY <2>3, <2>4
  <2>9. \A d \in CPUs, j \in 1..2 :
           /\ waiting'[d][j].period = IF d = at /\ j = i THEN Target ELSE waiting[d][j].period
           /\ waiting'[d][j].callbacks = IF d = at /\ j = i THEN w ELSE waiting[d][j].callbacks
    BY SMT, <2>1, <2>2, <2>3, <2>4
  <2>10. Submitted' = Submitted
    BY <1>1 DEF Submitted
  <2>11. QueueTypes'
    BY SMT, <1>1, <2>3, <2>7, <2>10, EmptyList DEF QueueInv, QueueTypes
  <2>12. \A x : Queued(x)' => Queued(x)
    BY SMT, <1>1, <2>1, <2>2, <2>5, <2>8, <2>9, EmptyList DEF Queued
  <2>13. Segments'
    BY SMT, <1>1, <2>1, <2>2, <2>9 DEF QueueInv, Segments
  <2> QED BY SMT, <2>10, <2>11, <2>12, <2>13 DEF QueueInv
<1> QED BY <1>2, <1>3

(* What promote moves. *)
LEMMA PromoteQueue ==
    ASSUME DriverInv, QueueInv, GpPromote
    PROVE  /\ gp = "promote" /\ at \in CPUs /\ completed \in Nat /\ phase = "Idle"
           /\ QueueTypes'
           /\ UNCHANGED <<unassigned, batch, invoked, guards, completed, phase, Submitted>>
           /\ \A d \in CPUs, j \in 1..2 : waiting'[d][j] =
                 IF d = at /\ waiting[d][j].period = completed THEN NoSegment ELSE waiting[d][j]
           /\ \A d \in CPUs : \A y : In(eligible'[d], y) =>
                 \/ In(eligible[d], y)
                 \/ \E j \in 1..2 : waiting[d][j].period = completed /\ In(waiting[d][j].callbacks, y)
<1> DEFINE done == Slots(at, completed)
           k == CHOOSE i \in done : TRUE
           e == IF done = {} THEN eligible[at] ELSE eligible[at] \o waiting[at][k].callbacks
<1>1. /\ gp = "promote" /\ at \in CPUs /\ completed \in Nat /\ phase = "Idle"
      /\ UNCHANGED <<unassigned, batch, invoked, guards, completed, phase>>
  BY SMT DEF GpPromote, DriverInv, DriverTypes, Phases, rcuVars, coordVars, historyVars
<1>2. /\ waiting' = [waiting EXCEPT ![at] =
                        [i \in 1..2 |-> IF i \in done THEN NoSegment ELSE waiting[at][i]]]
      /\ eligible' = [eligible EXCEPT ![at] = e]
  BY DEF GpPromote
<1>3. /\ waiting \in [CPUs -> [1..2 -> Segment]] /\ eligible \in [CPUs -> Seq(Nodes)]
      /\ eligible[at] \in Seq(Nodes)
  BY <1>1 DEF QueueInv, QueueTypes
<1>4. done # {} => k \in done
  OBVIOUS
<1>5. \A i : i \in done <=> i \in 1..2 /\ waiting[at][i].period = completed
  BY DEF Slots
<1>6. done # {} => waiting[at][k].callbacks \in Seq(Nodes)
  BY <1>1, <1>3, <1>4, <1>5 DEF Segment
<1>7. /\ e \in Seq(Nodes)
      /\ \A y : In(e, y) => \/ In(eligible[at], y)
                            \/ k \in done /\ In(waiting[at][k].callbacks, y)
  <2>1. CASE done = {}
    BY <1>3, <2>1
  <2>2. CASE done # {}
    <3>1. e = eligible[at] \o waiting[at][k].callbacks
      BY <2>2
    <3> HIDE DEF done, k, e
    <3> QED BY SMT, <1>3, <1>4, <1>6, <2>2, <3>1, ConcatMembers
  <2> QED BY <2>1, <2>2
<1> HIDE DEF done, k, e
<1>8. NoSegment \in Segment
  BY EmptyList DEF NoSegment, Segment
<1>9. waiting' \in [CPUs -> [1..2 -> Segment]] /\ eligible' \in [CPUs -> Seq(Nodes)]
  BY SMT, <1>1, <1>2, <1>3, <1>7, <1>8
<1>10. Submitted' = Submitted
  BY <1>1 DEF Submitted
<1>11. QueueTypes'
  BY SMT, <1>1, <1>9, <1>10 DEF QueueInv, QueueTypes
<1>12. \A d \in CPUs, j \in 1..2 : waiting'[d][j] =
          IF d = at /\ waiting[d][j].period = completed THEN NoSegment ELSE waiting[d][j]
  BY SMT, <1>1, <1>2, <1>3, <1>5
<1>13. \A d \in CPUs : eligible'[d] = IF d = at THEN e ELSE eligible[d]
  BY <1>2, <1>3
<1> QED BY <1>1, <1>5, <1>7, <1>10, <1>11, <1>12, <1>13

LEMMA GpPromoteQueues ==
    ASSUME DriverInv, QueueInv, GpPromote
    PROVE  QueueInv'
<1>1. /\ gp = "promote" /\ at \in CPUs /\ completed \in Nat /\ phase = "Idle"
      /\ QueueTypes'
      /\ UNCHANGED <<unassigned, batch, invoked, guards, completed, phase, Submitted>>
      /\ \A d \in CPUs, j \in 1..2 : waiting'[d][j] =
            IF d = at /\ waiting[d][j].period = completed THEN NoSegment ELSE waiting[d][j]
      /\ \A d \in CPUs : \A y : In(eligible'[d], y) =>
            \/ In(eligible[d], y)
            \/ \E j \in 1..2 : waiting[d][j].period = completed /\ In(waiting[d][j].callbacks, y)
  BY PromoteQueue
<1>2. NoSegment.period = 0 /\ NoSegment.callbacks = <<>>
  BY DEF NoSegment
<1>3. \A x : Queued(x)' => Queued(x)
  <2> SUFFICES ASSUME NEW x, Queued(x)' PROVE Queued(x)
    OBVIOUS
  <2>1. PICK d \in CPUs : \/ In(unassigned'[d], x) \/ In(eligible'[d], x) \/ In(batch'[d], x)
                          \/ \E j \in 1..2 : In(waiting'[d][j].callbacks, x)
    BY DEF Queued
  <2>2. ASSUME NEW j \in 1..2, In(waiting'[d][j].callbacks, x)
        PROVE  In(waiting[d][j].callbacks, x)
    BY SMT, <1>1, <1>2, <2>2, EmptyList
  <2> QED BY <1>1, <2>1, <2>2 DEF Queued
<1>4. /\ at \in Nat /\ NrCpus \in Nat /\ at >= 1 /\ at <= NrCpus
      /\ \/ at < NrCpus /\ gp' = "promote" /\ at' = at + 1
         \/ at = NrCpus /\ gp' = "begin" /\ at' = 1
  <2>1. DriverTypes /\ GpNext("promote", "begin")
    BY DEF GpPromote, DriverInv
  <2> QED BY <2>1, LoopStep
<1>5. Segments'
  <2> SUFFICES ASSUME NEW c \in CPUs
               PROVE  /\ \A i \in 1..2 :
                           /\ \/ waiting'[c][i].period = 0
                              \/ waiting'[c][i].period = completed + 1
                              \/ waiting'[c][i].period = completed /\ gp' = "promote" /\ at' <= c
                           /\ waiting'[c][i].period = 0 => waiting'[c][i].callbacks = <<>>
                      /\ waiting'[c][1].period = waiting'[c][2].period =>
                           waiting'[c][1].period = 0
    BY SMT, <1>1 DEF Segments
  <2>1. /\ \A i \in 1..2 :
             /\ \/ waiting[c][i].period = 0
                \/ waiting[c][i].period = completed + 1
                \/ waiting[c][i].period = completed /\ at <= c
             /\ waiting[c][i].period = 0 => waiting[c][i].callbacks = <<>>
        /\ waiting[c][1].period = waiting[c][2].period => waiting[c][1].period = 0
    BY SMT, <1>1 DEF QueueInv, Segments
  <2>2. CASE c = at
    BY SMT, <1>1, <1>2, <2>1, <2>2
  <2>3. CASE c # at
    <3>1. \A i \in 1..2 : waiting'[c][i] = waiting[c][i]
      BY SMT, <1>1, <2>3
    <3>2. at <= c => gp' = "promote" /\ at' <= c
      BY SMT, <1>4, <2>3 DEF CPUs
    <3> QED BY SMT, <2>1, <3>1, <3>2
  <2> QED BY <2>2, <2>3
<1> QED BY <1>1, <1>3, <1>5 DEF QueueInv

LEMMA GpCompleteQueues ==
    ASSUME DriverInv, QueueInv, GpComplete
    PROVE  QueueInv'
<1>1. /\ gp = "complete" /\ gp' = "promote" /\ phase' = "Idle" /\ completed' = completed + 1
      /\ UNCHANGED <<at, unassigned, waiting, eligible, batch, invoked, guards>>
  BY DEF GpComplete, FinishFinalization, queueVars, historyVars
<1>2. at = 1 /\ completed \in Nat /\ \A c \in CPUs : at <= c
  BY SMT, <1>1 DEF DriverInv, DriverTypes, Phases, CPUs
<1>3. Segments'
  BY SMT, <1>1, <1>2 DEF QueueInv, Segments
<1>4. QueueTypes' /\ Submitted' = Submitted
  BY <1>1 DEF QueueInv, QueueTypes, Submitted
<1>5. \A x : Queued(x)' <=> Queued(x)
  BY <1>1 DEF Queued
<1> QED BY <1>3, <1>4, <1>5 DEF QueueInv

LEMMA GpOtherQueues ==
    ASSUME DriverInv, QueueInv, GpStep, ~GpAssign, ~GpPromote, ~GpComplete
    PROVE  QueueInv'
<1>1. UNCHANGED <<unassigned, waiting, eligible, batch, invoked, guards, completed>>
  BY DEF GpStep, GpStart, GpObserve, GpReport, GpInspect, GpAccept, GpFinalize, GpFinishNode,
         GpBegin, GpBeginNode, GpInitialized, rcuVars, coordVars, queueVars, historyVars,
         AcceptReport, StartInitialization, FinishInitialization
<1>2. gp # "promote" /\ (phase # "Idle" => phase' # "Idle")
  <2>1. CASE GpStart \/ GpObserve \/ GpReport \/ GpInspect \/ GpAccept \/ GpFinishNode \/ GpBeginNode
    BY <2>1 DEF GpStart, GpObserve, GpReport, GpInspect, GpAccept, GpFinishNode, GpBeginNode,
                rcuVars, coordVars, AcceptReport
  <2>2. CASE GpFinalize \/ GpBegin \/ GpInitialized
    BY <2>2 DEF GpFinalize, GpBegin, GpInitialized, coordVars, StartInitialization,
                FinishInitialization
  <2> QED BY <2>1, <2>2 DEF GpStep
<1> QED BY SMT, <1>1, <1>2, QueuesKept

(* A drain marker joins one list of the queue and no period of its own. *)
OnlyMarkersAdded ==
    /\ unassigned' \in [CPUs -> Seq(Nodes)] /\ eligible' \in [CPUs -> Seq(Nodes)]
    /\ waiting' \in [CPUs -> [1..2 -> Segment]]
    /\ \A d \in CPUs : \A y : /\ In(unassigned'[d], y) => In(unassigned[d], y) \/ y \in Markers
                              /\ In(eligible'[d], y) => In(eligible[d], y) \/ y \in Markers
    /\ \A d \in CPUs, j \in 1..2 :
          /\ waiting'[d][j].period = waiting[d][j].period
          /\ waiting[d][j].period = 0 => waiting'[d][j] = waiting[d][j]
          /\ \A y : In(waiting'[d][j].callbacks, y) =>
                       In(waiting[d][j].callbacks, y) \/ y \in Markers

LEMMA MarkerQueue ==
    ASSUME QueueInv, NEW c \in CPUs, EnqueueDrainMarker(c)
    PROVE  OnlyMarkersAdded
<1> DEFINE m == Marker(c)
<1>1. m \in Markers /\ m \in Nodes
  BY DEF Markers, Nodes
<1> HIDE DEF m
<1>2. /\ unassigned \in [CPUs -> Seq(Nodes)] /\ eligible \in [CPUs -> Seq(Nodes)]
      /\ waiting \in [CPUs -> [1..2 -> Segment]]
  BY DEF QueueInv, QueueTypes
<1>3. ASSUME NEW q \in Seq(Nodes)
      PROVE  /\ Append(q, m) \in Seq(Nodes)
             /\ \A y : In(Append(q, m), y) => In(q, y) \/ y \in Markers
  BY SMT, <1>1, AppendMembers
<1>4. CASE unassigned[c] # <<>>
  <2>1. unassigned' = [unassigned EXCEPT ![c] = Append(unassigned[c], m)]
        /\ UNCHANGED <<waiting, eligible>>
    BY <1>4 DEF EnqueueDrainMarker, m
  <2>2. \A d \in CPUs : unassigned'[d] = IF d = c THEN Append(unassigned[c], m) ELSE unassigned[d]
    BY SMT, <1>2, <2>1
  <2>3. unassigned[c] \in Seq(Nodes)
    BY <1>2
  <2> QED BY SMT, <1>2, <1>3, <2>1, <2>2, <2>3 DEF OnlyMarkersAdded
<1>5. CASE unassigned[c] = <<>> /\ Used(c) # {}
  <2> DEFINE k == LastSegment(c)
             old == waiting[c][k]
  <2>1. k \in Used(c)
    <3>1. waiting[c][1].period \in Nat /\ waiting[c][2].period \in Nat
      BY SMT, <1>2 DEF Segment
    <3>2. \A j \in Used(c) : j = 1 \/ j = 2
      BY SMT DEF Used
    <3>3. \E i \in Used(c) : \A j \in Used(c) : waiting[c][j].period <= waiting[c][i].period
      <4>1. CASE 1 \in Used(c) /\ (2 \in Used(c) => waiting[c][2].period <= waiting[c][1].period)
        BY SMT, <3>1, <3>2, <4>1
      <4>2. CASE 2 \in Used(c) /\ (1 \in Used(c) => waiting[c][1].period <= waiting[c][2].period)
        BY SMT, <3>1, <3>2, <4>2
      <4>3. 1 \in Used(c) \/ 2 \in Used(c)
        BY <1>5, <3>2
      <4> QED BY SMT, <3>1, <4>1, <4>2, <4>3
    <3> QED BY <3>3 DEF LastSegment
  <2>2. k \in 1..2 /\ old.period # 0
    BY <2>1 DEF Used
  <2>3. /\ waiting' = [waiting EXCEPT ![c][k].callbacks = Append(old.callbacks, m)]
        /\ UNCHANGED <<unassigned, eligible>>
    BY <1>5 DEF EnqueueDrainMarker, m
  <2>4. old \in Segment /\ old.callbacks \in Seq(Nodes)
    BY SMT, <1>2, <2>2 DEF Segment
  <2> HIDE DEF k
  <2>5. \A d \in CPUs, j \in 1..2 :
           /\ waiting'[d][j].period = waiting[d][j].period
           /\ waiting'[d][j].callbacks =
                IF d = c /\ j = k THEN Append(old.callbacks, m) ELSE waiting[d][j].callbacks
           /\ d # c \/ j # k => waiting'[d][j] = waiting[d][j]
    BY ZenonT(60), <1>2, <2>2, <2>3, <2>4 DEF Segment
  <2>6. waiting' \in [CPUs -> [1..2 -> Segment]]
    <3>1. [old EXCEPT !.callbacks = Append(old.callbacks, m)] \in Segment
      BY <1>3, <2>4 DEF Segment
    <3>2. waiting' = [waiting EXCEPT ![c] = [waiting[c] EXCEPT ![k] =
                        [old EXCEPT !.callbacks = Append(old.callbacks, m)]]]
      BY SMT, <1>2, <2>2, <2>3
    <3> QED BY SMT, <1>2, <2>2, <3>1, <3>2
  <2> QED BY SMT, <1>2, <1>3, <2>2, <2>3, <2>4, <2>5, <2>6 DEF OnlyMarkersAdded
<1>6. CASE unassigned[c] = <<>> /\ Used(c) = {}
  <2>1. eligible' = [eligible EXCEPT ![c] = Append(eligible[c], m)]
        /\ UNCHANGED <<waiting, unassigned>>
    BY <1>6 DEF EnqueueDrainMarker, m
  <2>2. \A d \in CPUs : eligible'[d] = IF d = c THEN Append(eligible[c], m) ELSE eligible[d]
    BY SMT, <1>2, <2>1
  <2>3. eligible[c] \in Seq(Nodes)
    BY <1>2
  <2> QED BY SMT, <1>2, <1>3, <2>1, <2>2, <2>3 DEF OnlyMarkersAdded
<1> QED BY <1>4, <1>5, <1>6

LEMMA DrainQueues ==
    ASSUME QueueInv, Drain
    PROVE  QueueInv'
<1>1. UNCHANGED <<batch, invoked, guards, completed, phase, gp, at>>
  BY DEF Drain, DrainStart, DrainInstall, DrainInstalled, DrainReturn, rcuVars, coordVars,
         queueVars, historyVars, gpVars
<1>2. CASE UNCHANGED <<unassigned, waiting, eligible>>
  BY SMT, <1>1, <1>2, QueuesKept
<1>3. CASE drain.at \in CPUs /\ EnqueueDrainMarker(drain.at)
  <2>1. /\ unassigned' \in [CPUs -> Seq(Nodes)] /\ eligible' \in [CPUs -> Seq(Nodes)]
        /\ waiting' \in [CPUs -> [1..2 -> Segment]]
        /\ \A d \in CPUs : \A y : /\ In(unassigned'[d], y) => In(unassigned[d], y) \/ y \in Markers
                                  /\ In(eligible'[d], y) => In(eligible[d], y) \/ y \in Markers
        /\ \A d \in CPUs, j \in 1..2 :
             /\ waiting'[d][j].period = waiting[d][j].period
             /\ waiting[d][j].period = 0 => waiting'[d][j] = waiting[d][j]
             /\ \A y : In(waiting'[d][j].callbacks, y) =>
                          In(waiting[d][j].callbacks, y) \/ y \in Markers
    BY <1>3, MarkerQueue DEF OnlyMarkersAdded
  <2>2. Submitted' = Submitted
    BY SMT, <1>1 DEF Submitted
  <2>3. QueueTypes'
    BY SMT, <1>1, <2>1, <2>2 DEF QueueInv, QueueTypes
  <2>4. \A x \in Callbacks : Queued(x)' => Queued(x)
    <3>1. \A x \in Callbacks : x \notin Markers
      BY CallbacksAssumption
    <3> QED BY <1>1, <2>1, <3>1 DEF Queued
  <2>5. Segments'
    <3> SUFFICES ASSUME NEW c \in CPUs
                 PROVE  /\ \A i \in 1..2 :
                             LET p == waiting'[c][i].period
                             IN  /\ \/ p = 0 \/ p = completed + 1
                                    \/ p = completed + 2 /\ phase # "Idle"
                                    \/ p = completed /\ gp = "promote" /\ at <= c
                                 /\ p = 0 => waiting'[c][i].callbacks = <<>>
                        /\ waiting'[c][1].period = waiting'[c][2].period =>
                             waiting'[c][1].period = 0
      BY SMT, <1>1 DEF Segments
    <3>1. \A i \in 1..2 : waiting'[c][i].period = waiting[c][i].period
      BY <2>1
    <3>2. \A i \in 1..2 : waiting[c][i].period = 0 => waiting'[c][i] = waiting[c][i]
      BY <2>1
    <3> QED BY SMT, <3>1, <3>2 DEF QueueInv, Segments
  <2> QED BY SMT, <2>2, <2>3, <2>4, <2>5 DEF QueueInv
<1> QED BY SMT, <1>2, <1>3
    DEF Drain, DrainStart, DrainInstall, DrainInstalled, DrainReturn, queueVars

LEMMA QueueInvInit == Init => QueueInv
<1> SUFFICES ASSUME Init PROVE QueueInv
  OBVIOUS
<1>1. Submitted = {} /\ guards = [b \in Submitted |-> guards[b]]
  BY DEF Init, Submitted
<1>2. NoSegment \in Segment /\ NoSegment.period = 0 /\ NoSegment.callbacks = <<>>
  BY EmptyList DEF NoSegment, Segment
<1>3. QueueTypes
  BY SMT, <1>1, <1>2, EmptyList DEF Init, QueueTypes
<1>4. \A c \in CPUs, i \in 1..2 : waiting[c][i] = NoSegment
  BY DEF Init
<1>5. Segments
  BY SMT, <1>2, <1>4 DEF Segments
<1>6. \A b : ~Queued(b)
  BY <1>2, <1>4, EmptyList DEF Init, Queued
<1> QED BY SMT, <1>3, <1>5, <1>6 DEF QueueInv

LEMMA QueueInvNext == DriverInv /\ QueueInv /\ [Next]_vars => QueueInv'
<1> SUFFICES ASSUME DriverInv, QueueInv, [Next]_vars PROVE QueueInv'
  OBVIOUS
<1>1. ASSUME NEW c \in CPUs, Cpu(c) PROVE QueueInv'
  BY SMT, <1>1, ReaderStepQueues, SubmitQueues, BatchTakeQueues, InvokeQueues,
     BatchDropQueues DEF Cpu
<1>2. CASE GpStep
  BY SMT, <1>2, GpAssignQueues, GpPromoteQueues, GpCompleteQueues, GpOtherQueues
<1>3. CASE Drain
  BY <1>3, DrainQueues
<1>4. CASE UNCHANGED vars
  <2>1. UNCHANGED <<unassigned, waiting, eligible, batch, invoked, completed, phase, gp, at, guards>>
    BY <1>4 DEF vars, rcuVars, coordVars, queueVars, historyVars, gpVars
  <2> QED BY SMT, <2>1, QueuesKept
<1> QED BY <1>1, <1>2, <1>3, <1>4 DEF Next

DriverIInv == ReaderInv /\ DriverInv /\ QueueInv

(* No assertion of the driver ever fails, whatever readers, executors and     *)
(* drains do between its steps: nodes are free when a period begins and ready *)
(* when it is finished, and two segments per queue are enough.                *)
THEOREM DriverNeverPanics == Spec => []DriverAssertions
<1>1. Init => DriverIInv
  BY SMT, ReaderInvInit, DriverInvInit, QueueInvInit DEF DriverIInv
<1>2. DriverIInv /\ [Next]_vars => DriverIInv'
  BY SMT, ReaderInvNext, DriverInvNext, QueueInvNext DEF DriverIInv
<1>3. DriverIInv => DriverAssertions
  <2> SUFFICES ASSUME DriverInv, QueueInv PROVE DriverAssertions
    BY DEF DriverIInv
  <2>1. at \in CPUs /\ at \in Nat
    BY SMT DEF DriverInv, DriverTypes, CPUs
  <2>2. gp = "nodes" => period[at] = 0
    BY SMT, <2>1 DEF DriverInv, Phases, Reports, Engaged
  <2>3. gp = "finish" => NodeReady(at) /\ period[at] = active
    <3>1. ASSUME gp = "finish" PROVE Engaged(at) /\ phase = "Finalizing" /\ active = completed + 1
      BY SMT, <2>1, <3>1 DEF DriverInv, Phases, Engaged
    <3>2. completed \in Nat
      BY DEF DriverInv, DriverTypes
    <3> QED BY SMT, <2>1, <3>1, <3>2 DEF DriverInv, Reports
  <2>4. gp = "assign" => Slots(at, Target) \cup Slots(at, 0) # {}
    BY AssignSlot
  <2> QED BY SMT, <2>2, <2>3, <2>4 DEF DriverAssertions
<1> QED BY <1>1, <1>2, <1>3, PTL DEF Spec
=============================================================================
