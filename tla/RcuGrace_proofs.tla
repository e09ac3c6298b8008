--------------------------- MODULE RcuGrace_proofs ---------------------------
(* For any number of CPUs, tasks and callbacks: no callback runs before every *)
(* read scope that was open when it was submitted has been left.              *)
EXTENDS RcuDriver_proofs

(* A leaf that names no prover is tried with Zenon, then with the SMT solver. *)
USE Zenon, SMT

-----------------------------------------------------------------------------
(* The suffix of blockers. *)

LEMMA BeforeAppend ==
    ASSUME NEW S, NEW q \in Seq(S), NEW t \in S
    PROVE  /\ \A x, y : Before(q, x, y) => Before(Append(q, t), x, y)
           /\ \A x : In(q, x) => Before(Append(q, t), x, t)
           /\ Before(Append(q, t), t, t)
<1>1. Append(q, t) \in Seq(S) /\ Len(Append(q, t)) = Len(q) + 1 /\ Len(q) \in Nat
  BY SMT
<1>2. \A i \in 1..(Len(q) + 1) : Append(q, t)[i] = IF i = Len(q) + 1 THEN t ELSE q[i]
  BY SMT
<1>3. Len(q) + 1 \in 1..Len(Append(q, t)) /\ Append(q, t)[Len(q) + 1] = t
  BY SMT, <1>1, <1>2
<1>4. \A i \in 1..Len(q) : i \in 1..Len(Append(q, t)) /\ Append(q, t)[i] = q[i] /\ i <= Len(q) + 1
  BY SMT, <1>1, <1>2
<1>5. ASSUME NEW x, NEW y, Before(q, x, y) PROVE Before(Append(q, t), x, y)
  BY <1>4, <1>5 DEF Before
<1>6. ASSUME NEW x, In(q, x) PROVE Before(Append(q, t), x, t)
  BY <1>3, <1>4, <1>6 DEF Before, In
<1>7. Before(Append(q, t), t, t)
  BY SMT, <1>1, <1>3 DEF Before
<1> QED BY <1>5, <1>6, <1>7

LEMMA BeforePrepend ==
    ASSUME NEW S, NEW q \in Seq(S), NEW t \in S, NEW x, NEW y, Before(q, x, y)
    PROVE  Before(<<t>> \o q, x, y)
<1> DEFINE u == <<t>> \o q
<1>1. u \in Seq(S) /\ Len(u) = Len(q) + 1 /\ Len(q) \in Nat
  BY SMT
<1>2. \A i \in 1..(Len(q) + 1) : u[i] = IF i = 1 THEN t ELSE q[i - 1]
  BY SMT, <1>1
<1> HIDE DEF u
<1>3. PICK i, j \in 1..Len(q) : i <= j /\ q[i] = x /\ q[j] = y
  BY DEF Before
<1>4. i + 1 \in 1..Len(u) /\ j + 1 \in 1..Len(u) /\ i + 1 <= j + 1
  BY SMT, <1>1, <1>3
<1>5. u[i + 1] = x /\ u[j + 1] = y
  BY SMT, <1>1, <1>2, <1>3
<1>6. Before(u, x, y)
  BY <1>4, <1>5 DEF Before
<1> QED BY <1>6 DEF u

LEMMA BeforeFirst ==
    ASSUME NEW S, NEW q \in Seq(S), NEW y, In(q, y)
    PROVE  q # <<>> /\ Before(q, q[1], y)
<1>1. PICK j \in 1..Len(q) : q[j] = y
  BY DEF In
<1>2. 1 \in 1..Len(q) /\ 1 <= j /\ Len(q) \in Nat
  BY SMT, <1>1
<1> QED BY SMT, <1>1, <1>2 DEF Before

(* When a reader leaves, the readers behind the marker stay behind it. *)
LEMMA BeforeWithout ==
    ASSUME NEW S, NEW q \in Seq(S), NEW t, Distinct(q), In(q, t), NEW x, NEW y, y # t,
           Before(q, x, y)
    PROVE  /\ x # t => Before(Without(q, t), x, y)
           /\ x = t => /\ Position(q, t) < Len(q)
                       /\ Before(Without(q, t), q[Position(q, t) + 1], y)
<1> DEFINE u == Without(q, t)
<1>1. PICK k \in 1..Len(q) : q[k] = t
  BY DEF In
<1>2. Position(q, t) = k
  BY <1>1 DEF Distinct, Position
<1>3. u = [j \in 1..(Len(q) - 1) |-> IF j < k THEN q[j] ELSE q[j + 1]]
  BY <1>2 DEF Without
<1>4. Len(q) \in Nat /\ Len(q) - 1 \in Nat /\ k \in Nat /\ k <= Len(q) /\ k >= 1
  BY SMT, <1>1
<1>5. Len(u) = Len(q) - 1
  <2>1. u \in Seq(S)
    BY WithoutList
  <2> QED BY SMT, <1>3, <1>4, <2>1
<1>6. \A j \in 1..(Len(q) - 1) : u[j] = IF j < k THEN q[j] ELSE q[j + 1]
  BY <1>3
<1> HIDE DEF u
<1>7. PICK i, j \in 1..Len(q) : i <= j /\ q[i] = x /\ q[j] = y
  BY DEF Before
<1>8. j # k
  BY <1>1, <1>7
<1>9. ASSUME NEW h \in 1..Len(q), h # k
      PROVE  \E m \in 1..Len(u) : u[m] = q[h] /\ m = IF h < k THEN h ELSE h - 1
  <2>1. CASE h < k
    BY SMT, <1>4, <1>5, <1>6, <2>1
  <2>2. CASE h > k
    <3>1. h - 1 \in 1..Len(u) /\ ~(h - 1 < k) /\ h - 1 + 1 = h
      BY SMT, <1>4, <1>5, <2>2
    <3>2. u[h - 1] = q[h]
      BY <1>5, <1>6, <3>1
    <3>3. ~(h < k)
      BY SMT, <1>4, <2>2
    <3> QED BY <3>1, <3>2, <3>3
  <2> QED BY SMT, <1>4, <1>9, <2>1, <2>2
<1>10. PICK m \in 1..Len(u) : u[m] = y /\ m = IF j < k THEN j ELSE j - 1
  BY <1>7, <1>8, <1>9
<1>11. ASSUME x # t PROVE Before(u, x, y)
  <2>1. i # k
    BY <1>1, <1>7, <1>11
  <2>2. PICK l \in 1..Len(u) : u[l] = x /\ l = IF i < k THEN i ELSE i - 1
    BY <1>7, <1>9, <2>1
  <2>3. l <= m
    BY SMT, <1>4, <1>7, <1>8, <1>10, <2>1, <2>2
  <2> QED BY <1>10, <2>2, <2>3 DEF Before
<1>12. ASSUME x = t PROVE k < Len(q) /\ Before(u, q[k + 1], y)
  <2>1. i = k
    BY <1>1, <1>7, <1>12 DEF Distinct
  <2>2. j > k /\ k < Len(q) /\ m = j - 1
    BY SMT, <1>4, <1>7, <1>8, <1>10, <2>1
  <2>3. k \in 1..Len(u) /\ u[k] = q[k + 1] /\ k <= m
    BY SMT, <1>4, <1>5, <1>6, <2>2
  <2> QED BY <1>10, <2>2, <2>3 DEF Before
<1> QED BY <1>2, <1>11, <1>12 DEF u

-----------------------------------------------------------------------------
(* A scope that is open before and after a reader's step stays covered by the *)
(* node it is located at.                                                     *)

HeldAt(d, g) == Located(d, g) /\ period[d] # 0 => Covered(d, g)

LEMMA ScopeKinds ==
    ASSUME NEW g \in Scopes
    PROVE  \/ g \in Tasks /\ g \notin CPUs /\ nesting[g] > 0
           \/ g \in CPUs /\ g \notin Tasks /\ irq[g] = "reading"
BY RcuAssumption DEF Scopes

LEMMA HeldKept ==
    ASSUME NEW g \in Scopes, NEW d \in CPUs, HeldAt(d, g), UNCHANGED period,
           g \in Tasks => owner'[g] = owner[g],
           g \in Tasks /\ owner[g] = None /\ running'[d] = g => running[d] = g,
           g \in Tasks /\ owner[g] = d /\ blocker[d] # None /\ Before(readers[d], blocker[d], g) =>
               blocker'[d] # None /\ Before(readers'[d], blocker'[d], g),
           (g \in Tasks => owner[g] = None /\ running[d] = g) /\ (g \notin Tasks => g = d)
               /\ cpuPending[d] /\ snapshot[d] \in {None, 0} =>
               cpuPending'[d] /\ snapshot'[d] \in {None, 0}
    PROVE  HeldAt(d, g)'
<1> SUFFICES ASSUME Located(d, g)', period'[d] # 0 PROVE Covered(d, g)'
  BY DEF HeldAt
<1>1. None \notin CPUs
  BY RcuAssumption
<1>2. CASE g \in Tasks /\ owner[g] = d
  <2>1. Located(d, g) /\ Covered(d, g)
    BY <1>2 DEF Located, HeldAt
  <2>2. blocker[d] # None /\ Before(readers[d], blocker[d], g)
    BY <1>2, <2>1 DEF Covered
  <2> QED BY <1>2, <2>2 DEF Covered
<1>3. CASE g \in Tasks /\ owner[g] # d
  <2>1. g \notin CPUs
    BY <1>3, ScopeKinds
  <2>2. owner[g] = None /\ running'[d] = g
    BY <1>3, <2>1 DEF Located
  <2>3. running[d] = g
    BY <1>3, <2>2
  <2>4. Covered(d, g)
    BY <1>3, <2>2, <2>3 DEF Located, HeldAt
  <2>5. cpuPending[d] /\ snapshot[d] \in {None, 0}
    BY <1>3, <2>4 DEF Covered
  <2> QED BY <1>3, <2>2, <2>3, <2>5 DEF Covered
<1>4. CASE g \notin Tasks
  <2>1. g = d /\ irq[g] = "reading"
    BY <1>4, ScopeKinds DEF Located
  <2>2. Covered(d, g)
    BY <1>4, <2>1 DEF Located, HeldAt
  <2> QED BY <1>4, <2>1, <2>2 DEF Covered
<1> QED BY <1>2, <1>3, <1>4

(* The marker moves on when its reader leaves. *)
LEMMA RemoveSuffix ==
    ASSUME ReaderInv, NEW t \in Tasks, owner[t] # None, Remove(t),
           NEW g \in Tasks, g # t, NEW d \in CPUs,
           owner[g] = d, blocker[d] # None, Before(readers[d], blocker[d], g)
    PROVE  blocker'[d] # None /\ Before(readers'[d], blocker'[d], g)
<1> DEFINE c == owner[t]
           q == readers[c]
<1>1. c \in CPUs /\ q \in Seq(Tasks) /\ Distinct(q) /\ In(q, t)
  BY SMT DEF ReaderInv, ReaderTypes, NodesMatchOwners
<1>2. /\ readers'[d] = IF d = c THEN Without(q, t) ELSE readers[d]
      /\ blocker'[d] = IF d = c THEN NextBlocker(c, t) ELSE blocker[d]
  BY <1>1 DEF Remove, ReaderInv, ReaderTypes
<1>3. CASE d # c
  BY <1>2, <1>3
<1>4. CASE d = c
  <2>1. Before(q, blocker[c], g)
    BY <1>4
  <2>2. /\ blocker[c] # t => Before(Without(q, t), blocker[c], g)
        /\ blocker[c] = t => /\ Position(q, t) < Len(q)
                             /\ Before(Without(q, t), q[Position(q, t) + 1], g)
    BY <1>1, <2>1, BeforeWithout
  <2>3. NextBlocker(c, t) = IF blocker[c] # t THEN blocker[c]
                            ELSE IF Position(q, t) < Len(q) THEN q[Position(q, t) + 1] ELSE None
    BY DEF NextBlocker
  <2>4. blocker[c] = t => q[Position(q, t) + 1] # None
    <3>1. ASSUME blocker[c] = t PROVE Position(q, t) + 1 \in 1..Len(q)
      <4>1. Position(q, t) \in 1..Len(q)
        BY <1>1 DEF Position, In
      <4> QED BY SMT, <1>1, <2>2, <3>1, <4>1
    <3> QED BY SMT, <1>1, <3>1, RcuAssumption
  <2> QED BY <1>2, <1>4, <2>2, <2>3, <2>4
<1> QED BY <1>3, <1>4

(* A scope is on no other CPU after the switch than before it. *)
LEMMA DepartScope ==
    ASSUME ReaderInv, NEW c \in CPUs, Depart(c) \/ UNCHANGED running,
           NEW g \in Tasks, nesting[g] > 0, owner[g] = None, NEW d \in CPUs, running'[d] = g
    PROVE  running[d] = g
<1>1. CASE UNCHANGED running
  BY <1>1
<1>2. CASE \E u \in Incoming(c) : running' = [running EXCEPT ![c] = u]
  <2>1. PICK u \in Incoming(c) : running' = [running EXCEPT ![c] = u]
    BY <1>2
  <2>2. running'[d] = IF d = c THEN u ELSE running[d]
    BY <2>1 DEF ReaderInv, ReaderTypes
  <2>3. PICK e \in CPUs : running[e] = g
    BY DEF ReaderInv, Placement
  <2> QED BY <2>1, <2>2, <2>3, RcuAssumption DEF Incoming
<1> QED BY <1>1, <1>2 DEF Depart

(* A CPU that crosses the boundary of a quiescent window has no scope of its  *)
(* own: only enrolled readers are located at it.                              *)
LEMMA CrossHeld ==
    ASSUME DriverInv, NEW c \in CPUs, Cross(c) \/ UNCHANGED snapshot, NEW g \in Scopes,
           UNCHANGED cpuPending,
           Cross(c) => irq[c] # "reading" /\ (running[c] # Idle => nesting[running[c]] = 0),
           NEW d \in CPUs, g \in Tasks => running[d] = g, g \notin Tasks => g = d,
           cpuPending[d], snapshot[d] \in {None, 0}
    PROVE  cpuPending'[d] /\ snapshot'[d] \in {None, 0}
<1>1. Cross(c) => d # c
  BY SMT, ScopeKinds, RcuAssumption
<1>2. snapshot'[d] = snapshot[d]
  BY <1>1 DEF Cross, DriverInv, DriverTypes
<1> QED BY <1>2

LEMMA ReadingHeld ==
    ASSUME ReaderInv, DriverInv, NEW c \in CPUs, Reading(c), NEW g \in Scopes, NEW d \in CPUs,
           HeldAt(d, g)
    PROVE  HeldAt(d, g)'
<1>1. UNCHANGED <<owner, readers, running, period, blocker, cpuPending>>
  BY DEF Reading, ReaderLeaves, EnterScope, LeaveScope, ExitQuiescent, IrqEnter, IrqExit,
         IrqEnterScope, IrqLeaveScope, cpuVars, readerVars, nodeVars
<1>2. Cross(c) \/ UNCHANGED snapshot
  BY DEF Reading, ReaderLeaves, EnterScope, LeaveScope, ExitQuiescent, IrqEnter, IrqExit,
         IrqEnterScope, IrqLeaveScope, nodeVars, NoCross
<1>3. Cross(c) => irq[c] # "reading" /\ (running[c] # Idle => nesting[running[c]] = 0)
  <2> SUFFICES ASSUME Cross(c)
               PROVE  irq[c] # "reading" /\ (running[c] # Idle => nesting[running[c]] = 0)
    OBVIOUS
  <2>1. watch'[c] # watch[c]
    BY DEF Cross, ReaderInv, ReaderTypes
  <2>2. CASE ExitQuiescent(c)
    BY <2>2 DEF ExitQuiescent, ReaderInv, Windows
  <2>3. CASE IrqEnter(c)
    <3>1. irq[c] = "none" /\ ~watch[c]
      BY <2>1, <2>3 DEF IrqEnter, NoCross
    <3>2. mode[c] = "quiet"
      BY <3>1 DEF ReaderInv, Windows, ReaderTypes
    <3> QED BY <3>1, <3>2 DEF ReaderInv, Windows
  <2>4. CASE IrqExit(c)
    <3>1. irq[c] = "in" /\ activated[c]
      BY <2>1, <2>4 DEF IrqExit, NoCross
    <3>2. mode[c] = "quiet"
      BY <3>1 DEF ReaderInv, Windows
    <3> QED BY <3>1, <3>2 DEF ReaderInv, Windows
  <2>5. CASE EnterScope(c) \/ LeaveScope(c) \/ IrqEnterScope(c) \/ IrqLeaveScope(c)
    BY <2>1, <2>5 DEF EnterScope, LeaveScope, IrqEnterScope, IrqLeaveScope, cpuVars
  <2> QED BY <2>2, <2>3, <2>4, <2>5 DEF Reading, ReaderLeaves
<1>4. (g \in Tasks => owner[g] = None /\ running[d] = g) /\ (g \notin Tasks => g = d)
      /\ cpuPending[d] /\ snapshot[d] \in {None, 0} => cpuPending'[d] /\ snapshot'[d] \in {None, 0}
  BY <1>1, <1>2, <1>3, CrossHeld
<1> QED BY <1>1, <1>4, HeldKept

LEMMA CleanupHeld ==
    ASSUME ReaderInv, DriverInv, NEW c \in CPUs, Cleanup(c), NEW g \in Scopes, NEW d \in CPUs,
           HeldAt(d, g)
    PROVE  HeldAt(d, g)'
<1> DEFINE t == running[c]
<1>1. /\ UNCHANGED <<period, cpuPending, nesting>>
      /\ FinishCleanup(c, t)
      /\ InTask(c)
  BY DEF Cleanup, CheckReaderCleanup, EnterQuiescent, SwitchNote
<1>2. Depart(c) \/ UNCHANGED running
  BY DEF Cleanup, CheckReaderCleanup, EnterQuiescent, SwitchNote, cpuVars
<1>3. \/ UNCHANGED <<readers, blocker, owner>>
      \/ t \in Tasks /\ nesting[t] = 0 /\ owner[t] # None /\ Remove(t)
  <2>1. t \in Tasks \cup {Idle} /\ (t \in Tasks => nesting[t] \in Nat)
    BY DEF ReaderInv, ReaderTypes
  <2> QED BY SMT, <1>1, <2>1 DEF FinishCleanup
<1>4. t = g /\ g \in Tasks => UNCHANGED <<readers, blocker, owner>>
  BY SMT, <1>3, ScopeKinds
<1>5. g \in Tasks => owner'[g] = owner[g]
  BY <1>3, <1>4 DEF Remove, ReaderInv, ReaderTypes
<1>6. g \in Tasks /\ owner[g] = None /\ running'[d] = g => running[d] = g
  BY <1>2, ScopeKinds, DepartScope
<1>7. g \in Tasks /\ owner[g] = d /\ blocker[d] # None /\ Before(readers[d], blocker[d], g) =>
          blocker'[d] # None /\ Before(readers'[d], blocker'[d], g)
  BY <1>3, <1>4, RemoveSuffix
<1>8. Cross(c) \/ UNCHANGED snapshot
  BY DEF Cleanup, CheckReaderCleanup, EnterQuiescent, SwitchNote
<1>9. Cross(c) => irq[c] # "reading" /\ (running[c] # Idle => nesting[running[c]] = 0)
  <2> SUFFICES ASSUME Cross(c) PROVE running[c] # Idle => nesting[running[c]] = 0
    BY <1>1 DEF InTask
  <2>1. watch'[c] # watch[c]
    BY DEF Cross, ReaderInv, ReaderTypes
  <2>2. EnterQuiescent(c)
    BY <2>1 DEF Cleanup, CheckReaderCleanup, SwitchNote, cpuVars
  <2> QED BY <2>2 DEF EnterQuiescent
<1>10. (g \in Tasks => owner[g] = None /\ running[d] = g) /\ (g \notin Tasks => g = d)
       /\ cpuPending[d] /\ snapshot[d] \in {None, 0} => cpuPending'[d] /\ snapshot'[d] \in {None, 0}
  BY <1>1, <1>8, <1>9, CrossHeld
<1> QED BY <1>1, <1>5, <1>6, <1>7, <1>10, HeldKept

LEMMA ReportHeld ==
    ASSUME ReaderInv, NEW c \in CPUs, Report(c), NEW g \in Scopes, NEW d \in CPUs, HeldAt(d, g)
    PROVE  HeldAt(d, g)'
<1>1. /\ UNCHANGED <<owner, readers, period, blocker, cpuPending, snapshot>>
      /\ Depart(c)
  BY DEF Report, SwitchReport, readerVars, nodeVars
<1>2. g \in Tasks /\ owner[g] = None /\ running'[d] = g => running[d] = g
  BY <1>1, ScopeKinds, DepartScope
<1> QED BY <1>1, <1>2, HeldKept

(* The reader of an exited task is taken off; its scope is no longer open. *)
LEMMA ExitHeld ==
    ASSUME ReaderInv, NEW c \in CPUs, Exit(c), NEW g \in Scopes, NEW d \in CPUs, HeldAt(d, g),
           g # running[c]
    PROVE  HeldAt(d, g)'
<1> DEFINE t == running[c]
<1>1. PICK u \in Incoming(c) : SwitchExit(c, u)
  BY DEF Exit
<1>2. /\ UNCHANGED <<period, cpuPending, snapshot>>
      /\ t \in Tasks
      /\ running' = [running EXCEPT ![c] = u] /\ u \in Incoming(c) \ {t}
      /\ UNCHANGED <<readers, blocker, owner>> \/ (owner[t] # None /\ Remove(t))
  BY <1>1 DEF SwitchExit, ReaderInv, Placement
<1>3. g \in Tasks => owner'[g] = owner[g]
  BY <1>2 DEF Remove, ReaderInv, ReaderTypes
<1>4. g \in Tasks /\ owner[g] = None /\ running'[d] = g => running[d] = g
  <2> SUFFICES ASSUME g \in Tasks, owner[g] = None, running'[d] = g PROVE running[d] = g
    OBVIOUS
  <2>1. running'[d] = IF d = c THEN u ELSE running[d]
    BY <1>2 DEF ReaderInv, ReaderTypes
  <2>2. nesting[g] > 0
    BY ScopeKinds
  <2>3. PICK e \in CPUs : running[e] = g
    BY <2>2 DEF ReaderInv, Placement
  <2> QED BY <1>2, <2>1, <2>3, RcuAssumption DEF Incoming
<1>5. g \in Tasks /\ owner[g] = d /\ blocker[d] # None /\ Before(readers[d], blocker[d], g) =>
          blocker'[d] # None /\ Before(readers'[d], blocker'[d], g)
  BY <1>2, RemoveSuffix
<1> QED BY <1>2, <1>3, <1>4, <1>5, HeldKept

(* Enrolment: what the CPU's observation covered, the suffix covers now. *)
LEMMA EnrolmentHeld ==
    ASSUME ReaderInv, DriverInv, NEW c \in CPUs, Enrolment(c), NEW g \in Scopes, NEW d \in CPUs,
           HeldAt(d, g)
    PROVE  HeldAt(d, g)'
<1> DEFINE t == running[c]
           q == readers[c]
<1>1. /\ UNCHANGED <<period, nesting>>
      /\ sw[c] = "lock"
      /\ cpuPending' = [cpuPending EXCEPT ![c] = FALSE]
      /\ snapshot' = [snapshot EXCEPT ![c] = None]
      /\ Depart(c) \/ UNCHANGED running
      /\ \/ NeedsEnrollment(t) /\ Enroll(c, t)
         \/ ~NeedsEnrollment(t) /\ UNCHANGED <<readers, blocker, owner>>
  BY DEF Enrolment, SwitchLock
<1>2. irq[c] = "none"
  BY <1>1 DEF ReaderInv, Windows
<1>3. /\ t \in Tasks \cup {Idle} /\ q \in Seq(Tasks) /\ None \notin CPUs
      /\ \A x \in CPUs : cpuPending'[x] = IF x = c THEN FALSE ELSE cpuPending[x]
      /\ \A x \in CPUs : snapshot'[x] = IF x = c THEN None ELSE snapshot[x]
  BY SMT, <1>1, RcuAssumption DEF ReaderInv, ReaderTypes, DriverInv, DriverTypes
<1>4. ASSUME Enroll(c, t), NeedsEnrollment(t)
      PROVE  /\ t \in Tasks /\ owner[t] = None
             /\ \A x \in Tasks : owner'[x] = IF x = t THEN c ELSE owner[x]
             /\ \A x \in CPUs : readers'[x] =
                   IF x # c THEN readers[x]
                   ELSE IF period[c] # 0 /\ cpuPending[c] THEN Append(q, t) ELSE <<t>> \o q
             /\ \A x \in CPUs : blocker'[x] =
                   IF x = c /\ period[c] # 0 /\ cpuPending[c] /\ blocker[c] = None THEN t
                   ELSE blocker[x]
  <2>1. t \in Tasks /\ owner[t] = None
    BY <1>3, <1>4 DEF NeedsEnrollment
  <2>2. \A x \in Tasks : owner'[x] = IF x = t THEN c ELSE owner[x]
    BY <1>4 DEF Enroll, ReaderInv, ReaderTypes
  <2>3. CASE period[c] # 0 /\ cpuPending[c]
    BY SMT, <1>4, <2>1, <2>2, <2>3 DEF Enroll, ReaderInv, ReaderTypes
  <2>4. CASE ~(period[c] # 0 /\ cpuPending[c])
    BY <1>4, <2>1, <2>2, <2>4 DEF Enroll, ReaderInv, ReaderTypes
  <2> QED BY <2>3, <2>4
<1>5. CASE g = t /\ NeedsEnrollment(t)
  <2>1. Enroll(c, t) /\ t \in Tasks /\ g \notin CPUs
    BY <1>1, <1>4, <1>5, ScopeKinds
  <2> SUFFICES ASSUME Located(d, g)', period'[d] # 0 PROVE Covered(d, g)'
    BY DEF HeldAt
  <2>2. owner'[g] = c /\ d = c
    BY SMT, <1>3, <1>4, <1>5, <2>1 DEF Located
  <2>3. cpuPending[c] /\ period[c] # 0
    <3>1. Located(c, g) /\ period[c] # 0
      BY <1>1, <1>4, <1>5, <2>1, <2>2 DEF Located
    <3>2. Covered(c, g)
      BY <2>2, <3>1 DEF HeldAt
    <3> QED BY <1>3, <1>4, <1>5, <2>1, <3>1, <3>2 DEF Covered
  <2>4. readers'[c] = Append(q, t) /\ blocker'[c] = IF blocker[c] = None THEN t ELSE blocker[c]
    BY <1>4, <1>5, <2>1, <2>3
  <2>5. blocker[c] # None => In(q, blocker[c])
    BY DEF ReaderInv, ReaderTypes, NodesMatchOwners
  <2>6. blocker'[c] # None /\ Before(readers'[c], blocker'[c], g)
    BY SMT, <1>3, <1>5, <2>1, <2>4, <2>5, BeforeAppend, RcuAssumption
  <2> QED BY <1>5, <2>1, <2>2, <2>6 DEF Covered
<1>6. CASE ~(g = t /\ NeedsEnrollment(t))
  <2>1. g \in Tasks => owner'[g] = owner[g]
    BY <1>1, <1>4, <1>6
  <2>2. g \in Tasks /\ owner[g] = None /\ running'[d] = g => running[d] = g
    BY <1>1, ScopeKinds, DepartScope
  <2>3. g \in Tasks /\ owner[g] = d /\ blocker[d] # None /\ Before(readers[d], blocker[d], g) =>
            blocker'[d] # None /\ Before(readers'[d], blocker'[d], g)
    <3> SUFFICES ASSUME g \in Tasks, owner[g] = d, blocker[d] # None,
                        Before(readers[d], blocker[d], g)
                 PROVE  blocker'[d] # None /\ Before(readers'[d], blocker'[d], g)
      OBVIOUS
    <3>1. CASE UNCHANGED <<readers, blocker, owner>>
      BY <3>1
    <3>2. CASE NeedsEnrollment(t) /\ Enroll(c, t)
      <4>1. blocker'[d] = blocker[d] /\ t \in Tasks
        BY <1>4, <3>2
      <4>2. readers'[d] \in {readers[d], Append(q, t), <<t>> \o q}
            /\ (d # c => readers'[d] = readers[d])
        BY <1>4, <3>2
      <4>3. d = c => /\ Before(Append(q, t), blocker[d], g)
                     /\ Before(<<t>> \o q, blocker[d], g)
        BY <1>3, <4>1, BeforeAppend, BeforePrepend
      <4> QED BY <4>1, <4>2, <4>3
    <3> QED BY <1>1, <3>1, <3>2
  <2>4. (g \in Tasks => owner[g] = None /\ running[d] = g) /\ (g \notin Tasks => g = d) => d # c
    <3>1. ASSUME g \in Tasks, owner[g] = None, running[c] = g PROVE FALSE
      BY <1>6, <3>1, ScopeKinds, RcuAssumption DEF NeedsEnrollment
    <3>2. g = c /\ g \notin Tasks => FALSE
      BY <1>2, ScopeKinds
    <3> QED BY <3>1, <3>2
  <2>5. (g \in Tasks => owner[g] = None /\ running[d] = g) /\ (g \notin Tasks => g = d)
        /\ cpuPending[d] /\ snapshot[d] \in {None, 0} =>
            cpuPending'[d] /\ snapshot'[d] \in {None, 0}
    BY <1>3, <2>4
  <2> QED BY <1>1, <2>1, <2>2, <2>3, <2>5, HeldKept
<1> QED BY <1>5, <1>6

(* The scopes that hold a callback back are open scopes, and grow fewer. *)
LEMMA GuardsKept ==
    ASSUME GraceInv,
           \/ UNCHANGED guards /\ Scopes \in SUBSET Scopes'
           \/ \E s : Release(s) /\ Scopes \ {s} \in SUBSET Scopes'
    PROVE  /\ Submitted' = Submitted
           /\ \A b \in Submitted : /\ guards'[b] \in SUBSET guards[b]
                                   /\ guards'[b] \in SUBSET Scopes'
<1>1. \A b \in Submitted : guards[b] \in SUBSET Scopes
  BY DEF GraceInv
<1>2. CASE UNCHANGED guards /\ Scopes \in SUBSET Scopes'
  BY <1>1, <1>2 DEF Submitted
<1>3. ASSUME NEW s, Release(s), Scopes \ {s} \in SUBSET Scopes'
      PROVE  /\ Submitted' = Submitted
             /\ \A b \in Submitted : /\ guards'[b] \in SUBSET guards[b]
                                     /\ guards'[b] \in SUBSET Scopes'
  <2>1. guards' = [b \in Submitted |-> guards[b] \ {s}]
    BY <1>3 DEF Release
  <2>2. Submitted' = Submitted
    BY <2>1 DEF Submitted
  <2>3. \A b \in Submitted : guards'[b] = guards[b] \ {s}
    BY <2>1, ZenonT(60)
  <2> QED BY <1>1, <1>3, <2>2, <2>3
<1> QED BY <1>2, <1>3

LEMMA ReaderGuards ==
    ASSUME ReaderInv, NEW c \in CPUs,
           Reading(c) \/ Cleanup(c) \/ Enrolment(c) \/ Report(c) \/ Exit(c)
    PROVE  \/ UNCHANGED guards /\ Scopes \in SUBSET Scopes'
           \/ \E s : Release(s) /\ Scopes \ {s} \in SUBSET Scopes' /\ (Exit(c) => s = running[c])
<1>1. nesting \in [Tasks -> Nat] /\ irq \in [CPUs -> {"none", "in", "reading"}]
  BY DEF ReaderInv, ReaderTypes
<1>2. ASSUME UNCHANGED <<nesting, irq>> PROVE Scopes \in SUBSET Scopes'
  BY <1>2 DEF Scopes
<1>3. ASSUME UNCHANGED nesting, NEW v, irq' = [irq EXCEPT ![c] = v]
      PROVE  Scopes \ {c} \in SUBSET Scopes' /\ (irq[c] # "reading" => Scopes \in SUBSET Scopes')
  BY <1>1, <1>3 DEF Scopes
<1>4. CASE Cleanup(c) \/ Enrolment(c) \/ Report(c)
  <2>1. UNCHANGED <<nesting, irq, guards>>
    BY <1>4 DEF Cleanup, Enrolment, Report, CheckReaderCleanup, EnterQuiescent, SwitchNote,
                SwitchLock, SwitchReport, cpuVars, readerVars, historyVars
  <2> QED BY <1>2, <2>1
<1>5. CASE Exit(c)
  <2>1. PICK u \in Incoming(c) : SwitchExit(c, u)
    BY <1>5 DEF Exit
  <2>2. nesting' = [nesting EXCEPT ![running[c]] = 0] /\ irq' = irq
    BY <2>1 DEF SwitchExit
  <2>3. Scopes \ {running[c]} \in SUBSET Scopes'
    BY <1>1, <2>2 DEF Scopes
  <2> QED BY <1>5, <2>3 DEF Exit
<1>6. CASE Reading(c) /\ EnterScope(c) /\ UNCHANGED guards
  <2>1. nesting' = [nesting EXCEPT ![running[c]] = nesting[running[c]] + 1] /\ irq' = irq
    BY <1>6 DEF EnterScope, cpuVars
  <2>2. \A t \in Tasks : nesting[t] > 0 => nesting'[t] > 0
    BY SMT, <1>1, <2>1
  <2> QED BY <1>6, <2>1, <2>2 DEF Scopes
<1>7. CASE Reading(c) /\ ReaderLeaves(c)
  <2> DEFINE t == running[c]
  <2>1. nesting' = [nesting EXCEPT ![t] = nesting[t] - 1] /\ irq' = irq /\ t # Idle /\ nesting[t] > 0
    BY <1>7 DEF ReaderLeaves, LeaveScope, cpuVars
  <2>2. t \in Tasks /\ nesting[t] \in Nat
    BY <1>1, <2>1 DEF ReaderInv, ReaderTypes
  <2>3. \A x \in Tasks : nesting[x] > 0 /\ (x # t \/ nesting[t] # 1) => nesting'[x] > 0
    BY SMT, <1>1, <2>1, <2>2
  <2>4. CASE nesting[t] = 1
    <3>1. Release(t)
      BY <1>7, <2>4 DEF ReaderLeaves
    <3>2. Scopes \ {t} \in SUBSET Scopes'
      BY <2>1, <2>3 DEF Scopes
    <3>3. ~Exit(c)
      BY <1>7, <2>1 DEF Exit, SwitchExit, ReaderLeaves, LeaveScope, InTask
    <3> QED BY <3>1, <3>2, <3>3
  <2>5. CASE nesting[t] # 1
    <3>1. UNCHANGED guards
      BY <1>7, <2>5 DEF ReaderLeaves
    <3> QED BY <2>1, <2>3, <2>5, <3>1 DEF Scopes
  <2> QED BY <2>4, <2>5
<1>8. CASE Reading(c) /\ UNCHANGED guards /\ (ExitQuiescent(c) \/ IrqEnter(c) \/ IrqExit(c)
                                              \/ IrqEnterScope(c))
  <2>1. CASE ExitQuiescent(c)
    BY <1>2, <1>8, <2>1 DEF ExitQuiescent, readerVars
  <2>2. CASE IrqEnter(c) \/ IrqExit(c) \/ IrqEnterScope(c)
    <3>1. UNCHANGED nesting /\ irq[c] # "reading" /\ \E v : irq' = [irq EXCEPT ![c] = v]
      BY <2>2 DEF IrqEnter, IrqExit, IrqEnterScope, readerVars
    <3> QED BY <1>3, <1>8, <3>1
  <2> QED BY <1>8, <2>1, <2>2
<1>9. CASE Reading(c) /\ IrqLeaveScope(c) /\ Release(c)
  <2>1. UNCHANGED nesting /\ irq[c] = "reading" /\ irq' = [irq EXCEPT ![c] = "in"]
    BY <1>9 DEF IrqLeaveScope, readerVars
  <2>2. ~Exit(c)
    BY <2>1 DEF Exit, SwitchExit, ReaderInv, Windows
  <2> QED BY <1>3, <1>9, <2>1, <2>2
<1> QED BY SMT, <1>4, <1>5, <1>6, <1>7, <1>8, <1>9 DEF Reading

-----------------------------------------------------------------------------
(* Callbacks. *)

(* Where a callback waits after a step. *)
Waits(b, p) == \E c \in CPUs, i \in 1..2 :
                  waiting'[c][i].period = p /\ In(waiting'[c][i].callbacks, b)

LEMMA GraceKept ==
    ASSUME GraceInv, Submitted' = Submitted, UNCHANGED completed,
           phase' \in {"Initializing", "Waiting"} => phase \in {"Initializing", "Waiting"},
           phase' = "Finalizing" => phase = "Finalizing",
           gp' = "promote" => gp = "promote",
           \A b \in Submitted : guards'[b] \in SUBSET guards[b] /\ guards'[b] \in SUBSET Scopes',
           phase' # "Idle" =>
               \A b \in Submitted : Waits(b, completed + 1) => InPeriod(b, completed + 1),
           gp' = "promote" => \A b \in Submitted : Waits(b, completed) => InPeriod(b, completed),
           \A b \in Submitted : Free(b)' => Free(b),
           phase' \in {"Initializing", "Waiting"} =>
               \A b \in Submitted : \A g \in guards'[b], d \in CPUs : HeldAt(d, g) => HeldAt(d, g)'
    PROVE  GraceInv'
<1> SUFFICES ASSUME NEW b \in Submitted
             PROVE  /\ guards'[b] \in SUBSET Scopes'
                    /\ phase' \in {"Initializing", "Waiting"} /\ InPeriod(b, completed + 1)' => Held(b)'
                    /\ phase' = "Finalizing" /\ InPeriod(b, completed + 1)' => guards'[b] = {}
                    /\ gp' = "promote" /\ InPeriod(b, completed)' => guards'[b] = {}
                    /\ Free(b)' => guards'[b] = {}
  BY DEF GraceInv
<1>1. /\ guards[b] \in SUBSET Scopes
      /\ phase \in {"Initializing", "Waiting"} /\ InPeriod(b, completed + 1) => Held(b)
      /\ phase = "Finalizing" /\ InPeriod(b, completed + 1) => guards[b] = {}
      /\ gp = "promote" /\ InPeriod(b, completed) => guards[b] = {}
      /\ Free(b) => guards[b] = {}
  BY DEF GraceInv
<1>2. /\ InPeriod(b, completed + 1)' => Waits(b, completed + 1)
      /\ InPeriod(b, completed)' => Waits(b, completed)
  BY DEF InPeriod, Waits
<1>3. guards'[b] \in SUBSET guards[b] /\ guards'[b] \in SUBSET Scopes'
  OBVIOUS
<1>4. ASSUME phase' \in {"Initializing", "Waiting"}, InPeriod(b, completed + 1)' PROVE Held(b)'
  <2>1. Held(b)
    BY <1>1, <1>2, <1>4
  <2>2. \A g \in guards'[b], d \in CPUs : HeldAt(d, g)
    BY <1>3, <2>1 DEF Held, HeldAt
  <2>3. \A g \in guards'[b], d \in CPUs : HeldAt(d, g)'
    BY <1>4, <2>2
  <2> QED BY <2>3 DEF Held, HeldAt
<1>5. phase' = "Finalizing" /\ InPeriod(b, completed + 1)' => guards'[b] = {}
  BY <1>1, <1>2, <1>3
<1>6. gp' = "promote" /\ InPeriod(b, completed)' => guards'[b] = {}
  BY <1>1, <1>2, <1>3
<1>7. Free(b)' => guards'[b] = {}
  BY <1>1, <1>3
<1> QED BY <1>3, <1>4, <1>5, <1>6, <1>7

LEMMA StillWaits ==
    ASSUME UNCHANGED waiting, NEW b, NEW p
    PROVE  Waits(b, p) <=> InPeriod(b, p)
BY DEF Waits, InPeriod

LEMMA ReaderStepGrace ==
    ASSUME ReaderInv, DriverInv, QueueInv, GraceInv, NEW c \in CPUs,
           Reading(c) \/ Cleanup(c) \/ Enrolment(c) \/ Report(c) \/ Exit(c)
    PROVE  GraceInv'
<1>1. UNCHANGED <<waiting, eligible, batch, invoked, gp>>
  BY DEF Reading, Cleanup, Enrolment, Report, Exit, queueVars, historyVars, gpVars
<1>2. UNCHANGED <<completed, phase>>
  <2>1. CASE Reading(c)
    BY <2>1 DEF Reading, ReaderLeaves, EnterScope, LeaveScope, ExitQuiescent, IrqEnter, IrqExit,
                IrqEnterScope, IrqLeaveScope, coordVars
  <2>2. CASE Cleanup(c) \/ Enrolment(c) \/ Report(c) \/ Exit(c)
    BY <2>2 DEF Cleanup, Enrolment, Report, Exit, CheckReaderCleanup, EnterQuiescent, SwitchNote,
                SwitchLock, SwitchReport, SwitchExit, AcceptReport, coordVars
  <2> QED BY <2>1, <2>2
<1>3. \/ UNCHANGED guards /\ Scopes \in SUBSET Scopes'
      \/ \E s : Release(s) /\ Scopes \ {s} \in SUBSET Scopes' /\ (Exit(c) => s = running[c])
  BY ReaderGuards
<1>4. /\ Submitted' = Submitted
      /\ \A b \in Submitted : guards'[b] \in SUBSET guards[b] /\ guards'[b] \in SUBSET Scopes'
  BY <1>3, GuardsKept
<1>5. ASSUME Exit(c), NEW b \in Submitted PROVE running[c] \notin guards'[b]
  <2>1. Release(running[c])
    BY <1>5 DEF Exit
  <2> QED BY <1>5, <2>1 DEF Release
<1>6. ASSUME NEW b \in Submitted, NEW g \in guards'[b], NEW d \in CPUs, HeldAt(d, g)
      PROVE  HeldAt(d, g)'
  <2>1. g \in Scopes
    BY <1>4, <1>6 DEF GraceInv
  <2>2. CASE Exit(c)
    BY <1>5, <1>6, <2>1, <2>2, ExitHeld
  <2> QED BY <1>6, <2>1, <2>2, ReadingHeld, CleanupHeld, EnrolmentHeld, ReportHeld
<1>7. \A b \in Submitted : Free(b)' => Free(b)
  BY <1>1 DEF Free
<1> QED BY <1>1, <1>2, <1>4, <1>6, <1>7, StillWaits, GraceKept

(* Steps in which readers and nodes rest. *)
LEMMA RestHeld ==
    ASSUME UNCHANGED rcuVars
    PROVE  /\ Scopes' = Scopes
           /\ \A g, d : HeldAt(d, g)' <=> HeldAt(d, g)
BY SMT DEF rcuVars, cpuVars, readerVars, nodeVars, Scopes, HeldAt, Located, Covered

LEMMA ExecutorGrace ==
    ASSUME QueueInv, GraceInv, NEW c \in CPUs, BatchTake(c) \/ Invoke(c) \/ BatchDrop(c)
    PROVE  GraceInv'
<1>1. UNCHANGED <<rcuVars, completed, phase, gp, guards, waiting>>
  BY DEF BatchTake, Invoke, BatchDrop, rcuVars, coordVars, gpVars, historyVars
<1>2. Submitted' = Submitted
  BY <1>1 DEF Submitted
<1>3. eligible \in [CPUs -> Seq(Nodes)] /\ batch \in [CPUs -> Seq(Nodes)]
  BY DEF QueueInv, QueueTypes
<1>4. \A b : Free(b)' => Free(b)
  <2>1. CASE BatchTake(c)
    <3>1. /\ UNCHANGED invoked
          /\ \A d \in CPUs : /\ batch'[d] = IF d = c THEN eligible[c] ELSE batch[d]
                             /\ eligible'[d] = IF d = c THEN <<>> ELSE eligible[d]
      BY <1>3, <2>1 DEF BatchTake, historyVars
    <3> QED BY <3>1, EmptyList DEF Free
  <2>2. CASE Invoke(c)
    <3>1. /\ UNCHANGED eligible /\ batch[c] # <<>>
          /\ invoked' \in SUBSET (invoked \cup {Head(batch[c])})
          /\ \A d \in CPUs : batch'[d] = IF d = c THEN Tail(batch[c]) ELSE batch[d]
      BY <1>3, <2>2 DEF Invoke
    <3>2. In(batch[c], Head(batch[c])) /\ \A y : In(Tail(batch[c]), y) => In(batch[c], y)
      BY <1>3, <3>1, TailMembers
    <3> QED BY <3>1, <3>2 DEF Free
  <2>3. CASE BatchDrop(c)
    <3>1. /\ UNCHANGED invoked
          /\ \A d \in CPUs : /\ eligible'[d] = IF d = c THEN batch[c] \o eligible[c] ELSE eligible[d]
                             /\ batch'[d] = IF d = c THEN <<>> ELSE batch[d]
      BY <1>3, <2>3 DEF BatchDrop, historyVars
    <3>2. \A y : In(batch[c] \o eligible[c], y) => In(batch[c], y) \/ In(eligible[c], y)
      BY <1>3, ConcatMembers
    <3> QED BY <3>1, <3>2, EmptyList DEF Free
  <2> QED BY <2>1, <2>2, <2>3
<1>5. \A b \in Submitted : guards'[b] \in SUBSET guards[b] /\ guards'[b] \in SUBSET Scopes'
  BY <1>1, RestHeld DEF GraceInv
<1> QED BY <1>1, <1>2, <1>4, <1>5, RestHeld, StillWaits, GraceKept

LEMMA DrainGrace ==
    ASSUME QueueInv, GraceInv, Drain
    PROVE  GraceInv'
<1>1. UNCHANGED <<rcuVars, completed, phase, gp, guards, batch, invoked>>
  BY DEF Drain, DrainStart, DrainInstall, DrainInstalled, DrainReturn, rcuVars, coordVars,
         queueVars, historyVars, gpVars
<1>2. Submitted' = Submitted /\ \A b \in Submitted : b \notin Markers
  BY <1>1, CallbacksAssumption DEF Submitted, QueueInv, QueueTypes
<1>3. \A b \in Submitted : guards'[b] \in SUBSET guards[b] /\ guards'[b] \in SUBSET Scopes'
  BY <1>1, RestHeld DEF GraceInv
<1>4. \A b \in Submitted : /\ Free(b)' => Free(b)
                           /\ \A p : Waits(b, p) => InPeriod(b, p)
  <2>1. CASE UNCHANGED <<waiting, eligible>>
    BY <1>1, <2>1 DEF Free, Waits, InPeriod
  <2>2. CASE drain.at \in CPUs /\ EnqueueDrainMarker(drain.at)
    <3>1. /\ \A d \in CPUs : \A y : In(eligible'[d], y) => In(eligible[d], y) \/ y \in Markers
          /\ \A d \in CPUs, j \in 1..2 :
               /\ waiting'[d][j].period = waiting[d][j].period
               /\ \A y : In(waiting'[d][j].callbacks, y) =>
                            In(waiting[d][j].callbacks, y) \/ y \in Markers
      BY <2>2, MarkerQueue DEF OnlyMarkersAdded
    <3> QED BY <1>1, <1>2, <3>1 DEF Free, Waits, InPeriod
  <2> QED BY <2>1, <2>2 DEF Drain, DrainStart, DrainInstall, DrainInstalled, DrainReturn, queueVars
<1> QED BY <1>1, <1>2, <1>3, <1>4, RestHeld, GraceKept

(* A callback is held back by every scope open when it is submitted, and is   *)
(* in no period yet.                                                          *)
LEMMA SubmitGrace ==
    ASSUME QueueInv, GraceInv, NEW c \in CPUs, NEW b \in Callbacks, Submit(c, b)
    PROVE  GraceInv'
<1>1. /\ UNCHANGED <<rcuVars, completed, phase, gp, waiting, eligible, batch, invoked>>
      /\ b \notin Submitted
      /\ guards' = [x \in Submitted \cup {b} |-> IF x = b THEN Scopes ELSE guards[x]]
  BY DEF Submit, rcuVars, coordVars, gpVars
<1>2. Submitted' = Submitted \cup {b}
  BY <1>1 DEF Submitted
<1>3. \A x : /\ Free(x)' <=> Free(x)
             /\ InPeriod(x, completed + 1)' <=> InPeriod(x, completed + 1)
             /\ InPeriod(x, completed)' <=> InPeriod(x, completed)
  BY <1>1 DEF Free, InPeriod
<1>4. ~Free(b) /\ \A p : ~InPeriod(b, p)
  <2>1. ~Queued(b)
    BY <1>1 DEF QueueInv
  <2>2. b \notin invoked
    BY <1>1 DEF QueueInv, QueueTypes
  <2> QED BY <2>1, <2>2 DEF Free, InPeriod, Queued
<1>5. Scopes' = Scopes /\ \A g, d : HeldAt(d, g)' <=> HeldAt(d, g)
  BY <1>1, RestHeld
<1>6. \A x \in Submitted : guards'[x] = guards[x]
  BY <1>1
<1>7. guards'[b] = Scopes
  BY <1>1
<1>8. ASSUME NEW x \in Submitted, Held(x) PROVE Held(x)'
  <2>1. \A g \in guards'[x], d \in CPUs : HeldAt(d, g)'
    BY <1>5, <1>6, <1>8 DEF Held, HeldAt
  <2> QED BY <2>1 DEF Held, HeldAt
<1>9. ASSUME NEW x \in Submitted
      PROVE  /\ guards'[x] \in SUBSET Scopes'
             /\ phase' \in {"Initializing", "Waiting"} /\ InPeriod(x, completed + 1)' => Held(x)'
             /\ phase' = "Finalizing" /\ InPeriod(x, completed + 1)' => guards'[x] = {}
             /\ gp' = "promote" /\ InPeriod(x, completed)' => guards'[x] = {}
             /\ Free(x)' => guards'[x] = {}
  BY <1>1, <1>3, <1>5, <1>6, <1>8 DEF GraceInv
<1>10. /\ guards'[b] \in SUBSET Scopes'
       /\ ~InPeriod(b, completed + 1)' /\ ~InPeriod(b, completed)' /\ ~Free(b)'
  BY <1>3, <1>4, <1>5, <1>7
<1> QED BY <1>2, <1>9, <1>10 DEF GraceInv

-----------------------------------------------------------------------------
(* The driver. *)

LEMMA NodesRest ==
    ASSUME UNCHANGED <<cpuVars, readerVars, nodeVars>>
    PROVE  /\ Scopes' = Scopes
           /\ \A g, d : HeldAt(d, g)' <=> HeldAt(d, g)
BY SMT DEF cpuVars, readerVars, nodeVars, Scopes, HeldAt, Located, Covered

(* A CPU seen in a quiescent window, or to have crossed one, has no scope of  *)
(* its own that was open when the period began.                               *)
LEMMA GpObserveHeld ==
    ASSUME ReaderInv, DriverInv, GpObserve, NEW g \in Scopes, NEW d \in CPUs, HeldAt(d, g)
    PROVE  HeldAt(d, g)'
<1>1. /\ UNCHANGED <<owner, readers, running, period, blocker>>
      /\ ObserveWatching(at)
  BY DEF GpObserve, cpuVars, readerVars
<1>2. /\ cpuPending \in [CPUs -> BOOLEAN] /\ snapshot \in [CPUs -> Nat \cup {None}]
      /\ at \in CPUs /\ watch \in [CPUs -> BOOLEAN]
  BY DEF DriverInv, DriverTypes, ReaderInv, ReaderTypes
<1>3. ASSUME g \in Tasks => owner[g] = None /\ running[d] = g, g \notin Tasks => g = d,
             cpuPending[d], snapshot[d] \in {None, 0}
      PROVE  cpuPending'[d] /\ snapshot'[d] \in {None, 0}
  <2>1. CASE d # at
    <3>1. cpuPending'[d] = cpuPending[d] /\ snapshot'[d] = snapshot[d]
      BY <1>1, <1>2, <2>1 DEF ObserveWatching
    <3> QED BY <1>3, <3>1
  <2>2. CASE d = at
    <3>1. watch[d]
      <4>1. CASE g \in Tasks
        <5>1. running[d] = g /\ g # Idle /\ nesting[g] # 0
          BY SMT, <1>3, <4>1, ScopeKinds, RcuAssumption DEF ReaderInv, ReaderTypes
        <5>2. mode[d] = "kernel"
          BY <5>1 DEF ReaderInv, ReaderTypes, Windows
        <5> QED BY <5>2 DEF ReaderInv, Windows
      <4>2. CASE g \notin Tasks
        <5>1. irq[d] = "reading"
          BY <1>3, <4>2, ScopeKinds
        <5> QED BY <5>1 DEF ReaderInv, Windows
      <4> QED BY <4>1, <4>2
    <3>2. ~SeenQuiescent(d)
      BY <1>3, <3>1 DEF SeenQuiescent
    <3>3. snapshot' = [snapshot EXCEPT ![d] = 0] /\ UNCHANGED cpuPending
      BY <1>1, <1>3, <2>2, <3>2 DEF ObserveWatching
    <3> QED BY <1>2, <1>3, <3>3
  <2> QED BY <2>1, <2>2
<1> QED BY <1>1, <1>3, HeldKept

(* A period that begins at a node is held back by every scope located there. *)
LEMMA GpBeginNodeHeld ==
    ASSUME ReaderInv, DriverInv, GpBeginNode, NEW g \in Scopes, NEW d \in CPUs, HeldAt(d, g)
    PROVE  HeldAt(d, g)'
<1>1. /\ UNCHANGED <<owner, readers, running, irq>>
      /\ period' = [period EXCEPT ![at] = completed + 1]
      /\ blocker' = [blocker EXCEPT ![at] = IF readers[at] = <<>> THEN None ELSE readers[at][1]]
      /\ snapshot' = [snapshot EXCEPT ![at] = None]
      /\ cpuPending' = [cpuPending EXCEPT ![at] = TRUE]
  BY DEF GpBeginNode, BeginNode, cpuVars, readerVars
<1>2. /\ cpuPending \in [CPUs -> BOOLEAN] /\ snapshot \in [CPUs -> Nat \cup {None}]
      /\ period \in [CPUs -> Nat] /\ blocker \in [CPUs -> Tasks \cup {None}] /\ at \in CPUs
  BY DEF DriverInv, DriverTypes, ReaderInv, ReaderTypes
<1>3. CASE d # at
  <2>1. period'[d] = period[d] /\ blocker'[d] = blocker[d] /\ snapshot'[d] = snapshot[d]
        /\ cpuPending'[d] = cpuPending[d]
    BY <1>1, <1>2, <1>3
  <2> QED BY <1>1, <2>1, HeldAt(d, g) DEF HeldAt, Located, Covered
<1>4. CASE d = at
  <2> DEFINE q == readers[d]
  <2>1. /\ blocker'[d] = IF q = <<>> THEN None ELSE q[1]
        /\ cpuPending'[d] /\ snapshot'[d] = None
    BY <1>1, <1>2, <1>4
  <2>2. ASSUME g \in Tasks, owner[g] = d
        PROVE  blocker'[d] # None /\ Before(q, blocker'[d], g)
    <3>1. q \in Seq(Tasks) /\ In(q, g)
      BY <2>2 DEF ReaderInv, ReaderTypes, NodesMatchOwners
    <3>2. q # <<>> /\ Before(q, q[1], g)
      BY <3>1, BeforeFirst
    <3>3. q[1] \in Tasks
      BY SMT, <3>1, <3>2
    <3> QED BY <2>1, <3>2, <3>3, RcuAssumption
  <2>3. Covered(d, g)'
    BY <1>1, <2>1, <2>2 DEF Covered
  <2> QED BY <2>3 DEF HeldAt
<1> QED BY <1>3, <1>4

LEMMA GpNodeGrace ==
    ASSUME ReaderInv, DriverInv, GraceInv,
           \/ GpStart \/ GpObserve \/ GpReport \/ GpInspect \/ GpAccept \/ GpFinishNode
           \/ GpBeginNode \/ GpInitialized
    PROVE  GraceInv'
<1>1. /\ UNCHANGED <<completed, guards, waiting, eligible, batch, invoked>>
      /\ gp' # "promote"
  BY DEF GpStart, GpObserve, GpReport, GpInspect, GpAccept, GpFinishNode, GpBeginNode,
         GpInitialized, rcuVars, coordVars, queueVars, historyVars, AcceptReport,
         FinishInitialization, GpNext
<1>2. UNCHANGED phase \/ (phase = "Initializing" /\ phase' = "Waiting")
  <2>1. CASE GpStart \/ GpObserve \/ GpReport \/ GpInspect \/ GpAccept
    BY <2>1 DEF GpStart, GpObserve, GpReport, GpInspect, GpAccept, rcuVars, coordVars, AcceptReport
  <2>2. CASE GpFinishNode \/ GpBeginNode
    BY <2>2 DEF GpFinishNode, GpBeginNode, coordVars
  <2>3. CASE GpInitialized
    BY <2>3 DEF GpInitialized, FinishInitialization, DriverInv, Phases
  <2> QED BY <2>1, <2>2, <2>3
<1>3. UNCHANGED <<nesting, irq>>
  BY DEF GpStart, GpObserve, GpReport, GpInspect, GpAccept, GpFinishNode, GpBeginNode,
         GpInitialized, rcuVars, cpuVars, readerVars
<1>4. Submitted' = Submitted /\ Scopes' = Scopes
  BY <1>1, <1>3 DEF Submitted, Scopes
<1>5. \A b \in Submitted : guards'[b] \in SUBSET guards[b] /\ guards'[b] \in SUBSET Scopes'
  BY <1>1, <1>4 DEF GraceInv
<1>6. \A b \in Submitted : Free(b)' => Free(b)
  BY <1>1 DEF Free
<1>7. ASSUME phase' \in {"Initializing", "Waiting"}, NEW b \in Submitted, NEW g \in guards'[b],
             NEW d \in CPUs, HeldAt(d, g)
      PROVE  HeldAt(d, g)'
  <2>1. g \in Scopes
    BY <1>1, <1>7 DEF GraceInv
  <2>2. CASE GpStart \/ GpReport \/ GpInspect \/ GpAccept \/ GpInitialized
    <3>1. UNCHANGED <<cpuVars, readerVars, nodeVars>>
      BY <2>2 DEF GpStart, GpReport, GpInspect, GpAccept, GpInitialized, rcuVars
    <3> QED BY <1>7, <3>1, NodesRest
  <2>3. CASE GpFinishNode
    BY <1>2, <1>7, <2>3 DEF GpFinishNode, DriverInv, Phases
  <2> QED BY <1>7, <2>1, <2>2, <2>3, GpObserveHeld, GpBeginNodeHeld
<1> QED BY SMT, <1>1, <1>2, <1>4, <1>5, <1>6, <1>7, StillWaits, GraceKept

(* Callbacks accepted during a period wait for the next one. *)
LEMMA GpAssignGrace ==
    ASSUME DriverInv, QueueInv, GraceInv, GpAssign
    PROVE  GraceInv'
<1>1. /\ gp = "assign" /\ gp' # "promote"
      /\ UNCHANGED <<rcuVars, completed, phase, guards, eligible, batch, invoked>>
  BY DEF GpAssign, rcuVars, coordVars, historyVars, GpNext
<1>2. Submitted' = Submitted
  BY <1>1 DEF Submitted
<1>3. \A b \in Submitted : guards'[b] \in SUBSET guards[b] /\ guards'[b] \in SUBSET Scopes'
  BY <1>1, RestHeld DEF GraceInv
<1>4. \A b \in Submitted : Free(b)' => Free(b)
  BY <1>1 DEF Free
<1>5. ASSUME phase # "Idle", NEW b \in Submitted, Waits(b, completed + 1)
      PROVE  InPeriod(b, completed + 1)
  <2>1. CASE unassigned[at] = <<>>
    <3>1. UNCHANGED waiting
      BY <2>1 DEF GpAssign
    <3> QED BY <1>5, <3>1, StillWaits
  <2>2. CASE unassigned[at] # <<>>
    <3>1. at \in CPUs /\ completed \in Nat /\ Target = completed + 2 /\ Chosen \in 1..2
      BY <1>1, <1>5, AssignTarget, AssignSlot
    <3>2. waiting' = [waiting EXCEPT ![at] = [waiting[at] EXCEPT ![Chosen] =
             [period |-> Target, callbacks |-> waiting[at][Chosen].callbacks \o unassigned[at]]]]
      BY <2>2, AssignWaiting
    <3>3. waiting \in [CPUs -> [1..2 -> Segment]]
      BY DEF QueueInv, QueueTypes
    <3>4. \A c \in CPUs, i \in 1..2 : waiting'[c][i].period = Target \/ waiting'[c][i] = waiting[c][i]
      BY <3>1, <3>2, <3>3
    <3> QED BY SMT, <1>5, <3>1, <3>4 DEF Waits, InPeriod
  <2> QED BY <2>1, <2>2
<1> QED BY <1>1, <1>2, <1>3, <1>4, <1>5, RestHeld, GraceKept

(* Every node has reported, so no scope is left that a node answers for; and  *)
(* there is a node for every open scope.                                      *)
LEMMA NothingHeld ==
    ASSUME ReaderInv, DriverInv, GraceInv, gp = "finalize", pending = {},
           NEW b \in Submitted, InPeriod(b, completed + 1)
    PROVE  guards[b] = {}
<1>1. phase = "Waiting" /\ guards[b] \in SUBSET Scopes /\ Held(b)
  BY DEF DriverInv, Phases, GraceInv
<1>2. \A c \in CPUs : NodeReady(c)
  BY <1>1 DEF DriverInv, Reports
<1>3. ASSUME NEW g \in guards[b] PROVE FALSE
  <2>1. g \in Scopes
    BY <1>1
  <2>2. PICK c \in CPUs : Located(c, g)
    <3>1. CASE g \in Tasks
      <4>1. nesting[g] > 0 /\ owner[g] \in CPUs \cup {None}
        BY <2>1, <3>1, ScopeKinds DEF ReaderInv, ReaderTypes
      <4>2. CASE owner[g] = None
        BY SMT, <3>1, <4>1, <4>2 DEF ReaderInv, Placement, Located
      <4>3. CASE owner[g] \in CPUs
        BY <3>1, <4>3 DEF Located
      <4> QED BY <4>1, <4>2, <4>3
    <3>2. CASE g \notin Tasks
      BY <2>1, <3>2, ScopeKinds DEF Located
    <3> QED BY <3>1, <3>2
  <2>3. Covered(c, g)
    BY <1>1, <1>2, <2>2 DEF Held, NodeReady
  <2> QED BY <1>2, <2>3 DEF Covered, NodeReady
<1> QED BY <1>3

LEMMA GpFinalizeGrace ==
    ASSUME ReaderInv, DriverInv, GraceInv, GpFinalize
    PROVE  GraceInv'
<1>1. /\ gp = "finalize" /\ gp' # "promote"
      /\ UNCHANGED <<completed, guards, waiting, eligible, batch, invoked, cpuVars, readerVars,
                     nodeVars>>
      /\ UNCHANGED phase \/ (pending = {} /\ phase' = "Finalizing")
  BY DEF GpFinalize, CanFinalize, queueVars, historyVars
<1>2. Submitted' = Submitted
  BY <1>1 DEF Submitted
<1>3. Scopes' = Scopes /\ \A g, d : HeldAt(d, g)' <=> HeldAt(d, g)
  BY <1>1, NodesRest
<1>4. \A b \in Submitted : guards'[b] \in SUBSET guards[b] /\ guards'[b] \in SUBSET Scopes'
  BY <1>1, <1>3 DEF GraceInv
<1>5. \A b \in Submitted : Free(b)' <=> Free(b)
  BY <1>1 DEF Free
<1>6. CASE UNCHANGED phase
  BY SMT, <1>1, <1>2, <1>3, <1>4, <1>5, <1>6, StillWaits, GraceKept
<1>7. CASE pending = {} /\ phase' = "Finalizing"
  <2>1. \A b \in Submitted : InPeriod(b, completed + 1)' <=> InPeriod(b, completed + 1)
    BY <1>1 DEF InPeriod
  <2>2. \A b \in Submitted : InPeriod(b, completed + 1)' => guards'[b] = {}
    BY <1>1, <1>7, <2>1, NothingHeld
  <2>3. \A b \in Submitted : Free(b)' => guards'[b] = {}
    BY <1>1, <1>5 DEF GraceInv
  <2> QED BY <1>1, <1>2, <1>4, <1>7, <2>2, <2>3 DEF GraceInv
<1> QED BY <1>1, <1>6, <1>7

LEMMA GpCompleteGrace ==
    ASSUME DriverInv, GraceInv, GpComplete
    PROVE  GraceInv'
<1>1. /\ gp = "complete" /\ phase' = "Idle" /\ completed' = completed + 1
      /\ UNCHANGED <<guards, waiting, eligible, batch, invoked, cpuVars, readerVars, nodeVars>>
  BY DEF GpComplete, FinishFinalization, queueVars, historyVars
<1>2. phase = "Finalizing"
  BY <1>1 DEF DriverInv, Phases
<1>3. Submitted' = Submitted /\ Scopes' = Scopes
  BY <1>1, NodesRest DEF Submitted
<1>4. \A b : /\ InPeriod(b, completed)' <=> InPeriod(b, completed + 1)
             /\ Free(b)' <=> Free(b)
  BY <1>1 DEF InPeriod, Free
<1> QED BY SMT, <1>1, <1>2, <1>3, <1>4 DEF GraceInv

LEMMA GpPromoteGrace ==
    ASSUME DriverInv, QueueInv, GraceInv, GpPromote
    PROVE  GraceInv'
<1>1. /\ gp = "promote" /\ at \in CPUs /\ completed \in Nat /\ phase = "Idle"
      /\ UNCHANGED <<unassigned, batch, invoked, guards, completed, phase, Submitted>>
      /\ \A d \in CPUs, j \in 1..2 : waiting'[d][j] =
            IF d = at /\ waiting[d][j].period = completed THEN NoSegment ELSE waiting[d][j]
      /\ \A d \in CPUs : \A y : In(eligible'[d], y) =>
            \/ In(eligible[d], y)
            \/ \E j \in 1..2 : waiting[d][j].period = completed /\ In(waiting[d][j].callbacks, y)
  BY PromoteQueue
<1>2. Scopes' = Scopes
  BY RestHeld DEF GpPromote
<1>3. NoSegment.callbacks = <<>>
  BY DEF NoSegment
<1>4. ASSUME NEW b, InPeriod(b, completed)' PROVE InPeriod(b, completed)
  <2>1. PICK d \in CPUs, j \in 1..2 :
           waiting'[d][j].period = completed' /\ In(waiting'[d][j].callbacks, b)
    BY <1>4 DEF InPeriod
  <2>2. waiting'[d][j] = waiting[d][j]
    BY SMT, <1>1, <1>3, <2>1, EmptyList
  <2> QED BY <1>1, <2>1, <2>2 DEF InPeriod
<1>5. \A b : Free(b)' => Free(b) \/ InPeriod(b, completed)
  BY <1>1 DEF Free, InPeriod
<1>6. ASSUME NEW b \in Submitted
      PROVE  /\ guards'[b] \in SUBSET Scopes'
             /\ InPeriod(b, completed)' => guards'[b] = {}
             /\ Free(b)' => guards'[b] = {}
  BY <1>1, <1>2, <1>4, <1>5 DEF GraceInv
<1> QED BY <1>1, <1>6 DEF GraceInv

(* No node takes part yet. *)
LEMMA GpBeginGrace ==
    ASSUME DriverInv, GraceInv, GpBegin
    PROVE  GraceInv'
<1>1. /\ gp = "begin" /\ gp' # "promote"
      /\ UNCHANGED <<completed, guards, waiting, eligible, batch, invoked, cpuVars, readerVars,
                     nodeVars>>
      /\ phase' \in {"Initializing", phase}
  BY DEF GpBegin, StartInitialization, coordVars, queueVars, historyVars
<1>2. phase = "Idle" /\ \A d \in CPUs : period[d] = 0
  BY <1>1 DEF DriverInv, Phases, Reports, Engaged
<1>3. Submitted' = Submitted /\ Scopes' = Scopes
  BY <1>1, NodesRest DEF Submitted
<1>4. \A b : Held(b)'
  BY <1>1, <1>2 DEF Held, nodeVars
<1>5. \A b : Free(b)' <=> Free(b)
  BY <1>1 DEF Free
<1> QED BY <1>1, <1>2, <1>3, <1>4, <1>5 DEF GraceInv

LEMMA IInvInit == Init => IInv
<1>1. Init => GraceInv
  BY DEF Init, GraceInv, Submitted
<1> QED BY <1>1, ReaderInvInit, DriverInvInit, QueueInvInit DEF IInv

LEMMA IInvNext == IInv /\ [Next]_vars => IInv'
<1> SUFFICES ASSUME IInv, [Next]_vars PROVE IInv'
  OBVIOUS
<1>1. ReaderInv /\ DriverInv /\ QueueInv /\ GraceInv
  BY DEF IInv
<1>2. ASSUME NEW c \in CPUs, Cpu(c) PROVE GraceInv'
  BY <1>1, <1>2, ReaderStepGrace, SubmitGrace, ExecutorGrace DEF Cpu
<1>3. ASSUME GpStep PROVE GraceInv'
  BY <1>1, <1>3, GpNodeGrace, GpAssignGrace, GpFinalizeGrace, GpCompleteGrace, GpPromoteGrace,
     GpBeginGrace DEF GpStep
<1>4. ASSUME Drain PROVE GraceInv'
  BY <1>1, <1>4, DrainGrace
<1>5. ASSUME UNCHANGED vars PROVE GraceInv'
  <2>1. UNCHANGED <<rcuVars, completed, phase, gp, guards, waiting, eligible, batch, invoked>>
    BY <1>5 DEF vars, rcuVars, coordVars, gpVars, historyVars, queueVars
  <2>2. Submitted' = Submitted /\ \A b \in Submitted : Free(b)' => Free(b)
    BY <2>1 DEF Submitted, Free
  <2>3. \A b \in Submitted : guards'[b] \in SUBSET guards[b] /\ guards'[b] \in SUBSET Scopes'
    BY <1>1, <2>1, RestHeld DEF GraceInv
  <2> QED BY <1>1, <2>1, <2>2, <2>3, RestHeld, StillWaits, GraceKept
<1>6. GraceInv'
  BY <1>2, <1>3, <1>4, <1>5 DEF Next
<1> QED BY <1>1, <1>6, ReaderInvNext, DriverInvNext, QueueInvNext DEF IInv

(* RCU's promise, for any number of CPUs, tasks, callbacks and scopes: when a *)
(* callback runs, every read scope open at its submission has been left.      *)
THEOREM CallbacksWaitForReaders == Spec => []GracePeriodHonoured
<1>1. Init => IInv
  BY IInvInit
<1>2. IInv /\ [Next]_vars => IInv'
  BY IInvNext
<1>3. IInv => GracePeriodHonoured
  BY DEF IInv, GraceInv, QueueInv, QueueTypes, GracePeriodHonoured, Free
<1> QED BY <1>1, <1>2, <1>3, PTL DEF Spec
=============================================================================
