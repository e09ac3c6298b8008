-------------------------- MODULE RcuReaders_proofs --------------------------
(* For any number of CPUs and tasks: the nodes and the owner fields agree,    *)
(* open scopes are on record, and the watching counters are even exactly in   *)
(* the quiescent windows.                                                     *)
EXTENDS RcuInvariant, TLAPS

(* A leaf that names no prover is tried with Zenon, then with the SMT solver. *)
USE Zenon, SMT

(* What adding to and taking from a list does to its members. *)

\* Appending a new element.
LEMMA AppendList ==
    ASSUME NEW S, NEW q \in Seq(S), NEW x \in S, Distinct(q), ~In(q, x)
    PROVE  /\ Append(q, x) \in Seq(S)
           /\ Distinct(Append(q, x))
           /\ \A y : In(Append(q, x), y) <=> In(q, y) \/ y = x
<1>1. Append(q, x) \in Seq(S) /\ Len(Append(q, x)) = Len(q) + 1 /\ Len(q) \in Nat
  BY SMT
<1>2. \A i \in 1..(Len(q) + 1) : Append(q, x)[i] = IF i = Len(q) + 1 THEN x ELSE q[i]
  BY SMT
<1>3. Distinct(Append(q, x))
  BY SMT, <1>1, <1>2 DEF Distinct, In
<1>4. ASSUME NEW y PROVE In(Append(q, x), y) <=> In(q, y) \/ y = x
  <2>1. In(q, y) => In(Append(q, x), y)
    BY SMT, <1>1, <1>2 DEF In
  <2>2. y = x => In(Append(q, x), y)
    <3>1. Len(q) + 1 \in 1..(Len(q) + 1)
      BY SMT, <1>1
    <3> QED BY <1>1, <1>2, <3>1 DEF In
  <2>3. In(Append(q, x), y) => In(q, y) \/ y = x
    BY SMT, <1>1, <1>2 DEF In
  <2> QED BY <2>1, <2>2, <2>3
<1> QED BY <1>1, <1>3, <1>4

\* Taking an element out.
LEMMA WithoutList ==
    ASSUME NEW S, NEW q \in Seq(S), NEW t, Distinct(q), In(q, t)
    PROVE  /\ Without(q, t) \in Seq(S)
           /\ Distinct(Without(q, t))
           /\ \A y : In(Without(q, t), y) <=> In(q, y) /\ y # t
<1> DEFINE u == Without(q, t)
<1>1. PICK k \in 1..Len(q) : q[k] = t
  BY DEF In
<1>2. (CHOOSE i \in 1..Len(q) : q[i] = t) = k
  BY <1>1 DEF Distinct
<1>3. u = [j \in 1..(Len(q) - 1) |-> IF j < k THEN q[j] ELSE q[j + 1]]
  BY <1>2 DEF Without, Position
<1>4. Len(q) \in Nat /\ Len(q) - 1 \in Nat /\ k \in Nat /\ k <= Len(q) /\ k >= 1
  BY SMT, <1>1
<1>5. u \in Seq(S)
  <2>1. \A j \in 1..(Len(q) - 1) : (IF j < k THEN q[j] ELSE q[j + 1]) \in S
    BY SMT, <1>4
  <2> QED BY SMT, <1>3, <1>4, <2>1
<1>6. Len(u) = Len(q) - 1
  BY SMT, <1>3, <1>4, <1>5
<1>7. \A j \in 1..(Len(q) - 1) : u[j] = IF j < k THEN q[j] ELSE q[j + 1]
  BY <1>3
<1> HIDE DEF u
<1>8. Distinct(u)
  BY SMT, <1>4, <1>6, <1>7 DEF Distinct
<1>9. ASSUME NEW y PROVE In(u, y) <=> In(q, y) /\ y # t
  <2>1. ASSUME In(u, y) PROVE In(q, y) /\ y # t
    <3>1. PICK j \in 1..(Len(q) - 1) : u[j] = y
      BY <2>1, <1>6 DEF In
    <3>2. PICK i \in 1..Len(q) : i # k /\ q[i] = y
      <4>1. CASE j < k
        BY SMT, <4>1, <3>1, <1>4, <1>7
      <4>2. CASE ~(j < k)
        BY SMT, <4>2, <3>1, <1>4, <1>7
      <4> QED BY <4>1, <4>2
    <3> QED BY <3>2, <1>1 DEF In, Distinct
  <2>2. ASSUME In(q, y), y # t PROVE In(u, y)
    <3>1. PICK i \in 1..Len(q) : q[i] = y
      BY <2>2 DEF In
    <3>2. i # k
      BY <3>1, <2>2, <1>1
    <3>3. CASE i < k
      <4>1. i \in 1..(Len(q) - 1) /\ u[i] = y
        BY SMT, <3>3, <3>1, <1>4, <1>7
      <4> QED BY <4>1, <1>6 DEF In
    <3>4. CASE i > k
      <4>1. i - 1 \in 1..(Len(q) - 1) /\ u[i - 1] = y
        BY SMT, <3>4, <3>1, <1>4, <1>7
      <4> QED BY <4>1, <1>6 DEF In
    <3> QED BY SMT, <3>2, <3>3, <3>4, <1>4
  <2> QED BY <2>1, <2>2
<1> QED BY <1>5, <1>8, <1>9 DEF u

\* A new element at the front.
LEMMA PrependList ==
    ASSUME NEW S, NEW q \in Seq(S), NEW x \in S, Distinct(q), ~In(q, x)
    PROVE  /\ <<x>> \o q \in Seq(S)
           /\ Distinct(<<x>> \o q)
           /\ \A y : In(<<x>> \o q, y) <=> In(q, y) \/ y = x
<1> DEFINE u == <<x>> \o q
<1>1. u \in Seq(S) /\ Len(u) = Len(q) + 1 /\ Len(q) \in Nat
  BY SMT
<1>2. \A i \in 1..(Len(q) + 1) : u[i] = IF i = 1 THEN x ELSE q[i - 1]
  BY SMT, <1>1
<1> HIDE DEF u
<1>3. Distinct(u)
  <2>1. SUFFICES ASSUME NEW i \in 1..Len(u), NEW j \in 1..Len(u), i < j, u[i] = u[j]
                 PROVE  FALSE
    BY SMT, <1>1 DEF Distinct
  <2>2. j - 1 \in 1..Len(q) /\ u[j] = q[j - 1]
    BY SMT, <1>1, <1>2, <2>1
  <2>3. CASE i = 1
    BY <2>1, <2>2, <2>3, <1>1, <1>2 DEF In
  <2>4. CASE i # 1
    <3>1. i - 1 \in 1..Len(q) /\ u[i] = q[i - 1]
      BY SMT, <2>1, <2>4, <1>1, <1>2
    <3> QED BY SMT, <2>1, <2>2, <3>1 DEF Distinct
  <2> QED BY <2>3, <2>4
<1>4. ASSUME NEW y PROVE In(u, y) <=> In(q, y) \/ y = x
  <2>1. ASSUME In(q, y) PROVE In(u, y)
    <3>1. PICK i \in 1..Len(q) : q[i] = y
      BY <2>1 DEF In
    <3>2. i + 1 \in 1..Len(u) /\ u[i + 1] = y
      BY SMT, <3>1, <1>1, <1>2
    <3> QED BY <3>2 DEF In
  <2>2. y = x => In(u, y)
    <3>1. 1 \in 1..Len(u) /\ u[1] = x
      BY SMT, <1>1, <1>2
    <3> QED BY <3>1 DEF In
  <2>3. In(u, y) => In(q, y) \/ y = x
    BY SMT, <1>1, <1>2 DEF In
  <2> QED BY <2>1, <2>2, <2>3
<1> QED BY <1>1, <1>3, <1>4 DEF u

\* Appending, to a list that may hold an element twice.
LEMMA AppendMembers ==
    ASSUME NEW S, NEW q \in Seq(S), NEW x \in S, NEW y
    PROVE  In(Append(q, x), y) <=> In(q, y) \/ y = x
<1>1. Append(q, x) \in Seq(S) /\ Len(Append(q, x)) = Len(q) + 1 /\ Len(q) \in Nat
  BY SMT
<1>2. \A i \in 1..(Len(q) + 1) : Append(q, x)[i] = IF i = Len(q) + 1 THEN x ELSE q[i]
  BY SMT
<1>3. Len(q) + 1 \in 1..(Len(q) + 1)
  BY SMT, <1>1
<1>4. In(q, y) => In(Append(q, x), y)
  BY SMT, <1>1, <1>2 DEF In
<1>5. y = x => In(Append(q, x), y)
  BY <1>1, <1>2, <1>3 DEF In
<1>6. In(Append(q, x), y) => In(q, y) \/ y = x
  BY SMT, <1>1, <1>2 DEF In
<1> QED BY <1>4, <1>5, <1>6

\* A member of two lists in a row is a member of one of them.
LEMMA ConcatMembers ==
    ASSUME NEW S, NEW p \in Seq(S), NEW q \in Seq(S), NEW y, In(p \o q, y)
    PROVE  In(p, y) \/ In(q, y)
<1> DEFINE u == p \o q
<1>1. u \in Seq(S) /\ Len(u) = Len(p) + Len(q) /\ Len(p) \in Nat /\ Len(q) \in Nat
  BY SMT
<1>2. \A i \in 1..(Len(p) + Len(q)) : u[i] = IF i <= Len(p) THEN p[i] ELSE q[i - Len(p)]
  BY SMT, <1>1
<1> HIDE DEF u
<1>3. PICK i \in 1..(Len(p) + Len(q)) : u[i] = y
  BY <1>1 DEF In, u
<1>4. CASE i <= Len(p)
  BY SMT, <1>1, <1>2, <1>3, <1>4 DEF In
<1>5. CASE i > Len(p)
  <2>1. i - Len(p) \in 1..Len(q) /\ q[i - Len(p)] = y
    BY SMT, <1>1, <1>2, <1>3, <1>5
  <2> QED BY <2>1 DEF In
<1> QED BY SMT, <1>1, <1>4, <1>5

\* Taking the first element of such a list.
LEMMA TailMembers ==
    ASSUME NEW S, NEW q \in Seq(S), q # <<>>
    PROVE  /\ Head(q) \in S /\ In(q, Head(q))
           /\ Tail(q) \in Seq(S)
           /\ \A y : In(Tail(q), y) => In(q, y)
<1>1. Len(q) \in Nat /\ Len(q) > 0 /\ Head(q) = q[1] /\ Head(q) \in S
  BY SMT
<1>2. Tail(q) \in Seq(S) /\ Len(Tail(q)) = Len(q) - 1
  BY SMT, <1>1
<1>3. \A i \in 1..(Len(q) - 1) : Tail(q)[i] = q[i + 1]
  BY SMT, <1>1
<1>4. 1 \in 1..Len(q)
  BY SMT, <1>1
<1>5. ASSUME NEW y, In(Tail(q), y) PROVE In(q, y)
  <2>1. PICK i \in 1..(Len(q) - 1) : Tail(q)[i] = y
    BY <1>2, <1>5 DEF In
  <2>2. i + 1 \in 1..Len(q) /\ q[i + 1] = y
    BY SMT, <1>1, <1>3, <2>1
  <2> QED BY <2>2 DEF In
<1> QED BY <1>1, <1>2, <1>4, <1>5 DEF In

-----------------------------------------------------------------------------

(* NodesMatchOwners without the exited tasks. *)
NodeLists ==
    /\ \A c \in CPUs : Distinct(readers[c])
    /\ \A t \in Tasks, c \in CPUs : In(readers[c], t) <=> owner[t] = c
    /\ \A c \in CPUs : blocker[c] # None => owner[blocker[c]] = c

ListTypes ==
    /\ owner \in [Tasks -> CPUs \cup {None}]
    /\ readers \in [CPUs -> Seq(Tasks)]
    /\ blocker \in [CPUs -> Tasks \cup {None}]

(* What a reader leaves behind when it is taken off its node. *)
LEMMA RemoveLists ==
    ASSUME ListTypes, NodeLists, NEW t \in Tasks, owner[t] # None, Remove(t)
    PROVE  /\ ListTypes' /\ NodeLists'
           /\ \A x \in Tasks : owner'[x] = IF x = t THEN None ELSE owner[x]
<1> DEFINE c == owner[t]
           q == readers[c]
<1>1. c \in CPUs /\ q \in Seq(Tasks) /\ Distinct(q) /\ In(q, t)
  BY SMT DEF ListTypes, NodeLists
<1>2. /\ readers' = [readers EXCEPT ![c] = Without(q, t)]
      /\ blocker' = [blocker EXCEPT ![c] = NextBlocker(c, t)]
      /\ owner' = [owner EXCEPT ![t] = None]
  BY DEF Remove
<1>3. /\ Without(q, t) \in Seq(Tasks)
      /\ Distinct(Without(q, t))
      /\ \A y : In(Without(q, t), y) <=> In(q, y) /\ y # t
  BY <1>1, WithoutList
<1>4. \A x \in Tasks : owner'[x] = IF x = t THEN None ELSE owner[x]
  BY <1>2 DEF ListTypes
<1>5. \A d \in CPUs : readers'[d] = IF d = c THEN Without(q, t) ELSE readers[d]
  BY <1>2 DEF ListTypes
<1>6. \A d \in CPUs : blocker'[d] = IF d = c THEN NextBlocker(c, t) ELSE blocker[d]
  BY <1>2 DEF ListTypes
<1>7. NextBlocker(c, t) = None \/ (NextBlocker(c, t) \in Tasks /\ In(q, NextBlocker(c, t))
                                   /\ NextBlocker(c, t) # t)
  <2>1. CASE blocker[c] # t
    <3>1. NextBlocker(c, t) = blocker[c]
      BY <2>1 DEF NextBlocker
    <3>2. blocker[c] \in Tasks \cup {None} /\ (blocker[c] # None => owner[blocker[c]] = c)
      BY <1>1 DEF ListTypes, NodeLists
    <3> QED BY <2>1, <3>1, <3>2, <1>1 DEF NodeLists
  <2>2. CASE blocker[c] = t
    <3>1. PICK k \in 1..Len(q) : q[k] = t
      BY <1>1 DEF In
    <3>2. Position(q, t) = k
      BY <3>1, <1>1 DEF Position, Distinct
    <3>3. NextBlocker(c, t) = IF k < Len(q) THEN q[k + 1] ELSE None
      BY <2>2, <3>2 DEF NextBlocker
    <3>4. ASSUME k < Len(q) PROVE q[k + 1] \in Tasks /\ In(q, q[k + 1]) /\ q[k + 1] # t
      <4>1. k + 1 \in 1..Len(q) /\ k + 1 # k
        BY SMT, <3>4, <1>1
      <4> QED BY SMT, <4>1, <3>1, <1>1 DEF In, Distinct
    <3> QED BY <3>3, <3>4
  <2> QED BY <2>1, <2>2
<1> HIDE DEF c, q
<1>8. ListTypes'
  <2>1. NextBlocker(c, t) \in Tasks \cup {None}
    BY <1>7
  <2> QED BY <1>1, <1>2, <1>3, <2>1 DEF ListTypes
<1>9. \A x \in Tasks, d \in CPUs : In(readers'[d], x) <=> owner'[x] = d
  <2> SUFFICES ASSUME NEW x \in Tasks, NEW d \in CPUs
               PROVE  In(readers'[d], x) <=> owner'[x] = d
    OBVIOUS
  <2>1. In(readers[d], x) <=> owner[x] = d
    BY DEF NodeLists
  <2>2. CASE d = c
    <3>1. In(readers'[d], x) <=> In(q, x) /\ x # t
      BY <2>2, <1>3, <1>5
    <3> QED BY SMT, <2>1, <2>2, <3>1, <1>4, RcuAssumption DEF q
  <2>3. CASE d # c
    <3>1. readers'[d] = readers[d]
      BY <2>3, <1>5
    <3> QED BY <2>1, <2>3, <3>1, <1>4, RcuAssumption DEF c
  <2> QED BY <2>2, <2>3
<1>10. \A d \in CPUs : blocker'[d] # None => owner'[blocker'[d]] = d
  <2> SUFFICES ASSUME NEW d \in CPUs, blocker'[d] # None
               PROVE  owner'[blocker'[d]] = d
    OBVIOUS
  <2>1. CASE d = c
    <3>1. blocker'[d] = NextBlocker(c, t)
      BY <2>1, <1>6
    <3>2. owner[blocker'[d]] = c
      BY SMT, <3>1, <1>1, <1>7 DEF NodeLists, q
    <3> QED BY <2>1, <3>1, <3>2, <1>4, <1>7
  <2>2. CASE d # c
    <3>1. blocker'[d] = blocker[d] /\ blocker[d] \in Tasks
      BY <2>2, <1>6 DEF ListTypes
    <3>2. owner[blocker[d]] = d
      BY <3>1 DEF NodeLists
    <3> QED BY <2>2, <3>1, <3>2, <1>4 DEF c
  <2> QED BY <2>1, <2>2
<1>11. \A d \in CPUs : Distinct(readers'[d])
  BY <1>3, <1>5 DEF NodeLists
<1> QED BY <1>4, <1>8, <1>9, <1>10, <1>11 DEF NodeLists

LEMMA EnrollLists ==
    ASSUME ListTypes, NodeLists, NEW c \in CPUs, NEW t \in Tasks, owner[t] = None, Enroll(c, t)
    PROVE  /\ ListTypes' /\ NodeLists'
           /\ \A x \in Tasks : owner'[x] = IF x = t THEN c ELSE owner[x]
<1> DEFINE q == readers[c]
           p == readers'[c]
<1>1. q \in Seq(Tasks) /\ Distinct(q) /\ ~In(q, t)
  BY SMT, RcuAssumption DEF ListTypes, NodeLists
<1>2. /\ owner' = [owner EXCEPT ![t] = c]
      /\ \/ readers' = [readers EXCEPT ![c] = Append(q, t)]
         \/ readers' = [readers EXCEPT ![c] = <<t>> \o q]
      /\ \/ blocker' = [blocker EXCEPT ![c] = t] /\ blocker[c] = None
         \/ blocker' = blocker
  <2>1. CASE period[c] # 0 /\ cpuPending[c]
    <3>1. /\ readers' = [readers EXCEPT ![c] = Append(q, t)]
          /\ blocker' = [blocker EXCEPT ![c] = IF blocker[c] = None THEN t ELSE blocker[c]]
      BY <2>1 DEF Enroll
    <3>2. blocker[c] # None => blocker' = blocker
      BY <3>1 DEF ListTypes
    <3> QED BY <3>1, <3>2 DEF Enroll
  <2>2. CASE ~(period[c] # 0 /\ cpuPending[c])
    BY <2>2 DEF Enroll
  <2> QED BY <2>1, <2>2
<1>3. p \in Seq(Tasks) /\ Distinct(p) /\ \A y : In(p, y) <=> In(q, y) \/ y = t
  <2>1. CASE readers' = [readers EXCEPT ![c] = Append(q, t)]
    <3>1. p = Append(q, t)
      BY <2>1 DEF ListTypes
    <3> QED BY SMT, <3>1, <1>1, AppendList
  <2>2. CASE readers' = [readers EXCEPT ![c] = <<t>> \o q]
    <3>1. p = <<t>> \o q
      BY <2>2 DEF ListTypes
    <3> QED BY SMT, <3>1, <1>1, PrependList
  <2> QED BY <2>1, <2>2, <1>2
<1>4. readers' = [readers EXCEPT ![c] = p]
  BY <1>2 DEF ListTypes
<1> HIDE DEF p
<1>5. \A d \in CPUs : readers'[d] = IF d = c THEN p ELSE readers[d]
  BY <1>4 DEF ListTypes
<1>6. \A x \in Tasks : owner'[x] = IF x = t THEN c ELSE owner[x]
  BY <1>2 DEF ListTypes
<1>7. ListTypes'
  BY <1>2, <1>3, <1>4 DEF ListTypes
<1>8. \A x \in Tasks, d \in CPUs : In(readers'[d], x) <=> owner'[x] = d
  <2> SUFFICES ASSUME NEW x \in Tasks, NEW d \in CPUs
               PROVE  In(readers'[d], x) <=> owner'[x] = d
    OBVIOUS
  <2>1. In(readers[d], x) <=> owner[x] = d
    BY DEF NodeLists
  <2>2. CASE d = c
    BY <2>1, <2>2, <1>3, <1>5, <1>6
  <2>3. CASE d # c
    BY <2>1, <2>3, <1>5, <1>6, RcuAssumption
  <2> QED BY <2>2, <2>3
<1>9. \A d \in CPUs : blocker'[d] # None => owner'[blocker'[d]] = d
  BY SMT, <1>2, <1>6, RcuAssumption DEF ListTypes, NodeLists
<1>10. \A d \in CPUs : Distinct(readers'[d])
  BY <1>3, <1>5 DEF NodeLists
<1> QED BY <1>6, <1>7, <1>8, <1>9, <1>10 DEF NodeLists

LEMMA InvLists ==
    ASSUME ReaderInv
    PROVE  ListTypes /\ NodeLists
BY DEF ReaderInv, ReaderTypes, NodesMatchOwners, ListTypes, NodeLists

(* Only the current task of the CPU leaves its node, and only outside scopes. *)
LEMMA CleanupLists ==
    ASSUME ReaderInv, NEW c \in CPUs, FinishCleanup(c, running[c])
    PROVE  /\ ListTypes' /\ NodeLists'
           /\ \A x \in Tasks :
                owner'[x] = owner[x] \/ (owner'[x] = None /\ nesting[x] = 0 /\ x = running[c])
<1> DEFINE t == running[c]
<1>1. ListTypes /\ NodeLists
  BY InvLists
<1>2. t \in Tasks \cup {Idle}
  BY DEF ReaderInv, ReaderTypes
<1>3. CASE UNCHANGED <<readers, blocker, owner>>
  BY <1>1, <1>3 DEF ListTypes, NodeLists
<1>4. CASE t \in Tasks /\ nesting[t] = 0 /\ owner[t] # None /\ Remove(t)
  <2>1. /\ ListTypes' /\ NodeLists'
        /\ \A x \in Tasks : owner'[x] = IF x = t THEN None ELSE owner[x]
    BY <1>1, <1>4, RemoveLists
  <2> QED BY <2>1, <1>4
<1>5. t \in Tasks => nesting[t] \in Nat
  BY DEF ReaderInv, ReaderTypes
<1> QED BY SMT, <1>2, <1>3, <1>4, <1>5 DEF FinishCleanup

-----------------------------------------------------------------------------
(* Steps that leave the lists alone. *)

LEMMA EnterScopeReaders ==
    ASSUME ReaderInv, NEW c \in CPUs, EnterScope(c)
    PROVE  ReaderInv'
<1> DEFINE t == running[c]
<1>1. /\ t \in Tasks
      /\ nesting' = [nesting EXCEPT ![t] = nesting[t] + 1]
      /\ UNCHANGED <<running, mode, sw, irq, watch, activated, owner, exited, readers, blocker>>
  BY DEF EnterScope, ReaderInv, ReaderTypes, cpuVars, nodeVars
<1>2. sw[c] = "none" /\ irq[c] = "none" /\ mode[c] = "kernel"
  BY DEF EnterScope, InTask
<1>3. ReaderTypes'
  BY SMT, <1>1 DEF ReaderInv, ReaderTypes
<1>4. \A x \in Tasks : nesting'[x] = IF x = t THEN nesting[x] + 1 ELSE nesting[x]
  BY <1>1 DEF ReaderInv, ReaderTypes
<1> HIDE DEF t
<1>5. NodesMatchOwners'
  BY <1>1 DEF ReaderInv, NodesMatchOwners
<1>6. \A d \in CPUs : running[d] = t => d = c
  BY <1>1, RcuAssumption DEF ReaderInv, Placement, t
<1>7. Placement'
  <2>1. /\ \A d, e \in CPUs : running'[d] = running'[e] /\ running'[d] # Idle => d = e
        /\ \A d \in CPUs : running'[d] \notin exited'
        /\ \A d \in CPUs : sw'[d] = "exit" => running'[d] \in Tasks
    BY <1>1 DEF ReaderInv, Placement
  <2>2. \A x \in exited' : nesting'[x] = 0
    BY SMT, <1>1, <1>4 DEF ReaderInv, Placement, ReaderTypes, t
  <2>3. \A x \in Tasks : nesting'[x] > 0 /\ owner'[x] = None => \E d \in CPUs : running'[d] = x
    BY <1>1, <1>4 DEF ReaderInv, Placement, ReaderTypes, t
  <2>4. \A d \in CPUs : sw'[d] = "report" => ~NeedsEnrollment(running[d])'
    BY SMT, <1>1, <1>2, <1>4, <1>6 DEF ReaderInv, Placement, ReaderTypes, NeedsEnrollment
  <2> QED BY <2>1, <2>2, <2>3, <2>4 DEF Placement
<1>8. Windows'
  BY SMT, <1>1, <1>2, <1>4, <1>6 DEF ReaderInv, Windows, ReaderTypes
<1> QED BY <1>3, <1>5, <1>7, <1>8 DEF ReaderInv

LEMMA LeaveScopeReaders ==
    ASSUME ReaderInv, NEW c \in CPUs, LeaveScope(c)
    PROVE  ReaderInv'
<1> DEFINE t == running[c]
<1>1. /\ t \in Tasks /\ nesting[t] > 0
      /\ nesting' = [nesting EXCEPT ![t] = nesting[t] - 1]
      /\ UNCHANGED <<running, mode, sw, irq, watch, activated, owner, exited, readers, blocker>>
  BY DEF LeaveScope, ReaderInv, ReaderTypes, cpuVars, nodeVars
<1>2. sw[c] = "none" /\ irq[c] = "none" /\ mode[c] = "kernel"
  BY DEF LeaveScope, InTask
<1>3. ReaderTypes'
  BY SMT, <1>1 DEF ReaderInv, ReaderTypes
<1>4. \A x \in Tasks : nesting'[x] = IF x = t THEN nesting[x] - 1 ELSE nesting[x]
  BY <1>1 DEF ReaderInv, ReaderTypes
<1> HIDE DEF t
<1>5. NodesMatchOwners'
  BY <1>1 DEF ReaderInv, NodesMatchOwners
<1>6. \A d \in CPUs : running[d] = t => d = c
  BY <1>1, RcuAssumption DEF ReaderInv, Placement, t
<1>7. Placement'
  <2>1. /\ \A d, e \in CPUs : running'[d] = running'[e] /\ running'[d] # Idle => d = e
        /\ \A d \in CPUs : running'[d] \notin exited'
        /\ \A d \in CPUs : sw'[d] = "exit" => running'[d] \in Tasks
    BY <1>1 DEF ReaderInv, Placement
  <2>2. \A x \in exited' : nesting'[x] = 0
    BY SMT, <1>1, <1>4 DEF ReaderInv, Placement, ReaderTypes, t
  <2>3. \A x \in Tasks : nesting'[x] > 0 /\ owner'[x] = None => \E d \in CPUs : running'[d] = x
    BY <1>1, <1>4 DEF ReaderInv, Placement, ReaderTypes, t
  <2>4. \A d \in CPUs : sw'[d] = "report" => ~NeedsEnrollment(running[d])'
    BY SMT, <1>1, <1>2, <1>4, <1>6 DEF ReaderInv, Placement, ReaderTypes, NeedsEnrollment
  <2> QED BY <2>1, <2>2, <2>3, <2>4 DEF Placement
<1>8. Windows'
  BY SMT, <1>1, <1>2, <1>4, <1>6 DEF ReaderInv, Windows, ReaderTypes
<1> QED BY <1>3, <1>5, <1>7, <1>8 DEF ReaderInv

LEMMA PlacementKept ==
    ASSUME ReaderInv, UNCHANGED <<running, sw, nesting, owner, exited, readers, blocker>>
    PROVE  NodesMatchOwners' /\ Placement'
BY DEF ReaderInv, NodesMatchOwners, Placement, NeedsEnrollment

(* The steps that only move the handler, the mode and the watching counter. *)
LEMMA WindowSteps ==
    ASSUME ReaderInv, NEW c \in CPUs,
           ExitQuiescent(c) \/ IrqEnter(c) \/ IrqExit(c) \/ IrqEnterScope(c) \/ IrqLeaveScope(c)
    PROVE  ReaderInv'
<1>1. UNCHANGED <<running, sw, nesting, owner, exited, readers, blocker>>
  BY DEF ExitQuiescent, IrqEnter, IrqExit, IrqEnterScope, IrqLeaveScope, readerVars, nodeVars
<1>2. NodesMatchOwners' /\ Placement'
  BY <1>1, PlacementKept
<1>3. CASE ExitQuiescent(c)
  <2>1. /\ mode' = [mode EXCEPT ![c] = "kernel"] /\ watch' = [watch EXCEPT ![c] = ~watch[c]]
        /\ mode[c] = "quiet" /\ irq[c] = "none" /\ UNCHANGED <<irq, activated>>
    BY <1>3 DEF ExitQuiescent, Cross
  <2>2. ReaderTypes'
    BY <1>1, <2>1 DEF ReaderInv, ReaderTypes
  <2>3. Windows'
    BY ZenonT(60), <1>1, <2>1 DEF ReaderInv, ReaderTypes, Windows
  <2> QED BY <1>2, <2>2, <2>3 DEF ReaderInv
<1>4. CASE IrqEnter(c)
  <2>1. /\ irq' = [irq EXCEPT ![c] = "in"] /\ activated' = [activated EXCEPT ![c] = ~watch[c]]
        /\ watch' = [watch EXCEPT ![c] = TRUE]
        /\ sw[c] = "none" /\ irq[c] = "none" /\ UNCHANGED mode
    <3>1. watch[c] => watch' = watch
      BY <1>4 DEF IrqEnter, NoCross
    <3>2. ~watch[c] => watch' = [watch EXCEPT ![c] = ~watch[c]]
      BY <1>4 DEF IrqEnter, Cross
    <3>3. watch' = [watch EXCEPT ![c] = TRUE]
      BY <3>1, <3>2 DEF ReaderInv, ReaderTypes
    <3> QED BY <1>4, <3>3 DEF IrqEnter
  <2>2. ReaderTypes'
    BY <1>1, <2>1 DEF ReaderInv, ReaderTypes
  <2>3. watch[c] <=> mode[c] = "kernel"
    BY <2>1 DEF ReaderInv, Windows
  <2>4. /\ irq'[c] = "in" /\ (activated'[c] <=> ~watch[c]) /\ watch'[c]
        /\ mode[c] \in {"kernel", "quiet"}
    BY <2>1 DEF ReaderInv, ReaderTypes
  <2>5. \A d \in CPUs \ {c} : irq'[d] = irq[d] /\ activated'[d] = activated[d] /\ watch'[d] = watch[d]
    BY <2>1 DEF ReaderInv, ReaderTypes
  <2>6. Windows'
    BY SMT, <1>1, <2>1, <2>3, <2>4, <2>5 DEF ReaderInv, Windows
  <2> QED BY <1>2, <2>2, <2>6 DEF ReaderInv
<1>5. CASE IrqExit(c)
  <2>1. /\ irq' = [irq EXCEPT ![c] = "none"] /\ activated' = [activated EXCEPT ![c] = FALSE]
        /\ watch' = [watch EXCEPT ![c] = ~activated[c]]
        /\ irq[c] = "in" /\ UNCHANGED mode
    <3>1. watch[c] = TRUE
      BY <1>5 DEF IrqExit, ReaderInv, Windows, ReaderTypes
    <3>2. ~activated[c] => watch' = watch
      BY <1>5 DEF IrqExit, NoCross
    <3>3. activated[c] => watch' = [watch EXCEPT ![c] = ~watch[c]]
      BY <1>5 DEF IrqExit, Cross
    <3>4. watch' = [watch EXCEPT ![c] = ~activated[c]]
      BY <3>1, <3>2, <3>3 DEF ReaderInv, ReaderTypes
    <3> QED BY <1>5, <3>4 DEF IrqExit
  <2>2. ReaderTypes'
    BY <1>1, <2>1 DEF ReaderInv, ReaderTypes
  <2>3. Windows'
    BY ZenonT(60), <1>1, <2>1 DEF ReaderInv, ReaderTypes, Windows
  <2> QED BY <1>2, <2>2, <2>3 DEF ReaderInv
<1>6. CASE IrqEnterScope(c) \/ IrqLeaveScope(c)
  <2>1. /\ irq[c] \in {"in", "reading"} /\ UNCHANGED <<mode, watch, activated>>
        /\ \E i \in {"in", "reading"} : irq' = [irq EXCEPT ![c] = i]
    BY <1>6 DEF IrqEnterScope, IrqLeaveScope
  <2>2. ReaderTypes'
    BY SMT, <1>1, <2>1 DEF ReaderInv, ReaderTypes
  <2>3. Windows'
    BY SMT, <1>1, <2>1 DEF ReaderInv, ReaderTypes, Windows
  <2> QED BY <1>2, <2>2, <2>3 DEF ReaderInv
<1> QED BY <1>3, <1>4, <1>5, <1>6

-----------------------------------------------------------------------------
(* Cleanup and the scheduler boundaries. *)

LEMMA CheckReaderCleanupReaders ==
    ASSUME ReaderInv, NEW c \in CPUs, CheckReaderCleanup(c)
    PROVE  ReaderInv'
<1>1. /\ ListTypes' /\ NodeLists'
      /\ \A x \in Tasks :
           owner'[x] = owner[x] \/ (owner'[x] = None /\ nesting[x] = 0 /\ x = running[c])
  BY CleanupLists DEF CheckReaderCleanup
<1>2. UNCHANGED <<running, mode, sw, irq, watch, activated, nesting, exited>>
  BY DEF CheckReaderCleanup, cpuVars
<1>3. ReaderTypes' /\ Windows'
  BY <1>1, <1>2 DEF ReaderInv, ReaderTypes, ListTypes, Windows
<1>4. \A x \in exited' : owner'[x] = None
  BY <1>1, <1>2 DEF ReaderInv, ReaderTypes, NodesMatchOwners
<1>5. NodesMatchOwners'
  BY <1>1, <1>4 DEF NodesMatchOwners, NodeLists
<1>6. Placement'
  <2>1. \A x \in Tasks : nesting'[x] > 0 /\ owner'[x] = None => \E d \in CPUs : running'[d] = x
    BY <1>1, <1>2 DEF ReaderInv, ReaderTypes, Placement
  <2>2. \A d \in CPUs : sw'[d] = "report" => ~NeedsEnrollment(running[d])'
    BY SMT, <1>1, <1>2 DEF ReaderInv, ReaderTypes, Placement, NeedsEnrollment
  <2> QED BY <1>2, <2>1, <2>2 DEF ReaderInv, Placement
<1> QED BY <1>3, <1>5, <1>6 DEF ReaderInv

LEMMA EnterQuiescentReaders ==
    ASSUME ReaderInv, NEW c \in CPUs, EnterQuiescent(c)
    PROVE  ReaderInv'
<1>1. /\ ListTypes' /\ NodeLists'
      /\ \A x \in Tasks :
           owner'[x] = owner[x] \/ (owner'[x] = None /\ nesting[x] = 0 /\ x = running[c])
  BY CleanupLists DEF EnterQuiescent
<1>2. /\ UNCHANGED <<running, sw, irq, activated, nesting, exited>>
      /\ mode' = [mode EXCEPT ![c] = "quiet"] /\ watch' = [watch EXCEPT ![c] = ~watch[c]]
      /\ sw[c] = "none" /\ irq[c] = "none" /\ mode[c] = "kernel"
      /\ running[c] # Idle => nesting[running[c]] = 0
  BY DEF EnterQuiescent, Cross, InTask
<1>3. ReaderTypes'
  BY <1>1, <1>2 DEF ReaderInv, ReaderTypes, ListTypes
<1>4. Windows'
  BY SMT, <1>2 DEF ReaderInv, ReaderTypes, Windows
<1>5. \A x \in exited' : owner'[x] = None
  BY <1>1, <1>2 DEF ReaderInv, ReaderTypes, NodesMatchOwners
<1>6. NodesMatchOwners'
  BY <1>1, <1>5 DEF NodesMatchOwners, NodeLists
<1>7. Placement'
  <2>1. \A x \in Tasks : nesting'[x] > 0 /\ owner'[x] = None => \E d \in CPUs : running'[d] = x
    BY <1>1, <1>2 DEF ReaderInv, ReaderTypes, Placement
  <2>2. \A d \in CPUs : sw'[d] = "report" => ~NeedsEnrollment(running[d])'
    BY SMT, <1>1, <1>2 DEF ReaderInv, ReaderTypes, Placement, NeedsEnrollment
  <2> QED BY <1>2, <2>1, <2>2 DEF ReaderInv, Placement
<1> QED BY <1>3, <1>4, <1>6, <1>7 DEF ReaderInv

(* A boundary ends with a task that was on no CPU, or with the one it had. *)
LEMMA DepartRuns ==
    ASSUME ReaderInv, NEW c \in CPUs, Depart(c)
    PROVE  /\ running' \in [CPUs -> Tasks \cup {Idle}]
           /\ sw' \in [CPUs -> {"none", "lock", "report", "exit"}]
           /\ \A d \in CPUs \ {c} : running'[d] = running[d] /\ sw'[d] = sw[d]
           /\ sw'[c] \in {"none", "exit"}
           /\ sw'[c] = "exit" => running'[c] \in Tasks
           /\ running'[c] # running[c] /\ running'[c] # Idle =>
                /\ running'[c] \in Tasks \ exited
                /\ \A d \in CPUs : running[d] # running'[c]
<1>1. CASE \E u \in Incoming(c) : running' = [running EXCEPT ![c] = u]
                                  /\ sw' = [sw EXCEPT ![c] = "none"]
  <2>1. PICK u \in Incoming(c) : running' = [running EXCEPT ![c] = u]
                                 /\ sw' = [sw EXCEPT ![c] = "none"]
    BY <1>1
  <2>2. u \in Tasks \cup {Idle} /\ (u # running[c] /\ u # Idle =>
                                      u \in Tasks \ exited /\ \A d \in CPUs : running[d] # u)
    BY DEF Incoming, ReaderInv, ReaderTypes
  <2> QED BY <2>1, <2>2 DEF ReaderInv, ReaderTypes
<1>2. CASE running[c] \in Mortal /\ sw' = [sw EXCEPT ![c] = "exit"] /\ UNCHANGED running
  BY <1>2, RcuAssumption DEF ReaderInv, ReaderTypes
<1> QED BY <1>1, <1>2 DEF Depart

(* What the boundary has to show: its outgoing task is enrolled if it must be. *)
LEMMA DepartPlacement ==
    ASSUME ReaderInv, NEW c \in CPUs, Depart(c), nesting' = nesting, exited' = exited,
           \A x \in Tasks : nesting[x] > 0 /\ owner'[x] = None => owner[x] = None /\ x # running[c],
           \A x \in Tasks : owner'[x] # owner[x] => x = running[c]
    PROVE  Placement'
<1>1. /\ running' \in [CPUs -> Tasks \cup {Idle}]
      /\ \A d \in CPUs \ {c} : running'[d] = running[d] /\ sw'[d] = sw[d]
      /\ sw'[c] \in {"none", "exit"}
      /\ sw'[c] = "exit" => running'[c] \in Tasks
      /\ running'[c] # running[c] /\ running'[c] # Idle =>
           /\ running'[c] \in Tasks \ exited
           /\ \A d \in CPUs : running[d] # running'[c]
  BY DepartRuns
<1>2. \A d, e \in CPUs : running'[d] = running'[e] /\ running'[d] # Idle => d = e
  BY SMT, <1>1 DEF ReaderInv, Placement
<1>3. \A d \in CPUs : running'[d] \notin exited'
  <2>1. Idle \notin exited
    BY RcuAssumption DEF ReaderInv, ReaderTypes
  <2>2. \A d \in CPUs : running[d] \notin exited
    BY DEF ReaderInv, Placement
  <2>3. running'[c] \notin exited
    BY <1>1, <2>1, <2>2
  <2> QED BY <1>1, <2>2, <2>3
<1>4. \A x \in exited' : nesting'[x] = 0
  BY DEF ReaderInv, Placement
<1>5. \A x \in Tasks : nesting'[x] > 0 /\ owner'[x] = None => \E d \in CPUs : running'[d] = x
  <2> SUFFICES ASSUME NEW x \in Tasks, nesting'[x] > 0, owner'[x] = None
               PROVE  \E d \in CPUs : running'[d] = x
    OBVIOUS
  <2>1. owner[x] = None /\ x # running[c]
    OBVIOUS
  <2>2. PICK d \in CPUs : running[d] = x
    BY <2>1 DEF ReaderInv, Placement
  <2> QED BY <2>1, <2>2, <1>1
<1>6. \A d \in CPUs : sw'[d] = "exit" => running'[d] \in Tasks
  BY <1>1 DEF ReaderInv, Placement
<1>7. \A d \in CPUs : sw'[d] = "report" => ~NeedsEnrollment(running[d])'
  <2> SUFFICES ASSUME NEW d \in CPUs, sw'[d] = "report", NeedsEnrollment(running[d])'
               PROVE  FALSE
    OBVIOUS
  <2>1. d # c /\ running'[d] = running[d] /\ sw[d] = "report"
    BY <1>1
  <2>2. running[d] \in Tasks /\ running[d] # Idle /\ nesting[running[d]] > 0 /\ owner'[running[d]] = None
    BY SMT, <2>1 DEF NeedsEnrollment, ReaderInv, ReaderTypes
  <2>3. owner[running[d]] = None
    BY <2>2
  <2> QED BY <2>1, <2>2, <2>3 DEF ReaderInv, Placement, NeedsEnrollment
<1> QED BY <1>2, <1>3, <1>4, <1>5, <1>6, <1>7 DEF Placement

LEMMA SwitchNoteReaders ==
    ASSUME ReaderInv, NEW c \in CPUs, SwitchNote(c)
    PROVE  ReaderInv'
<1> DEFINE t == running[c]
<1>1. /\ ListTypes' /\ NodeLists'
      /\ \A x \in Tasks :
           owner'[x] = owner[x] \/ (owner'[x] = None /\ nesting[x] = 0 /\ x = t)
  BY CleanupLists DEF SwitchNote
<1>2. /\ UNCHANGED <<mode, irq, watch, activated, nesting, exited>>
      /\ sw[c] = "none" /\ irq[c] = "none" /\ mode[c] = "kernel"
  BY DEF SwitchNote, InTask
<1>3. \A x \in exited' : owner'[x] = None
  BY <1>1, <1>2 DEF ReaderInv, ReaderTypes, NodesMatchOwners
<1>4. NodesMatchOwners'
  BY <1>1, <1>3 DEF NodesMatchOwners, NodeLists
<1>5. CASE sw' = [sw EXCEPT ![c] = "lock"] /\ UNCHANGED running
  <2>1. ReaderTypes'
    BY <1>1, <1>2, <1>5 DEF ReaderInv, ReaderTypes, ListTypes
  <2>2. \A d \in CPUs : sw'[d] = IF d = c THEN "lock" ELSE sw[d]
    BY <1>5 DEF ReaderInv, ReaderTypes
  <2>3. Windows'
    BY <1>2, <1>5, <2>2 DEF ReaderInv, Windows
  <2>4. \A x \in Tasks : nesting'[x] > 0 /\ owner'[x] = None => \E d \in CPUs : running'[d] = x
    BY <1>1, <1>2, <1>5 DEF ReaderInv, ReaderTypes, Placement
  <2>5. \A d \in CPUs : sw'[d] = "report" => ~NeedsEnrollment(running[d])'
    BY SMT, <1>1, <1>2, <1>5, <2>2 DEF ReaderInv, ReaderTypes, Placement, NeedsEnrollment
  <2>6. Placement'
    BY SMT, <1>2, <1>5, <2>2, <2>4, <2>5 DEF ReaderInv, Placement
  <2> QED BY <1>4, <2>1, <2>3, <2>6 DEF ReaderInv
<1>6. CASE ~NeedsEnrollment(t) /\ Depart(c)
  <2>1. /\ running' \in [CPUs -> Tasks \cup {Idle}]
        /\ sw' \in [CPUs -> {"none", "lock", "report", "exit"}]
        /\ \A d \in CPUs \ {c} : running'[d] = running[d] /\ sw'[d] = sw[d]
    BY <1>6, DepartRuns
  <2>2. ReaderTypes'
    BY <1>1, <1>2, <2>1 DEF ReaderInv, ReaderTypes, ListTypes
  <2>3. Windows'
    BY <1>2, <2>1 DEF ReaderInv, Windows
  <2>4. \A x \in Tasks : nesting[x] > 0 /\ owner'[x] = None => owner[x] = None /\ x # t
    BY SMT, <1>1, <1>6, RcuAssumption DEF NeedsEnrollment, ReaderInv, ReaderTypes
  <2>5. Placement'
    BY <1>1, <1>2, <1>6, <2>4, DepartPlacement
  <2> QED BY <1>4, <2>2, <2>3, <2>5 DEF ReaderInv
<1> QED BY <1>5, <1>6 DEF SwitchNote

LEMMA SwitchLockReaders ==
    ASSUME ReaderInv, NEW c \in CPUs, SwitchLock(c)
    PROVE  ReaderInv'
<1> DEFINE t == running[c]
<1>1. /\ UNCHANGED <<mode, irq, watch, activated, nesting, exited>>
      /\ sw[c] = "lock"
  BY DEF SwitchLock
<1>2. irq[c] = "none" /\ mode[c] = "kernel" /\ t \in Tasks \cup {Idle} /\ t \notin exited
  BY <1>1 DEF ReaderInv, Windows, ReaderTypes, Placement
<1>3. /\ ListTypes' /\ NodeLists'
      /\ \A x \in Tasks : owner'[x] = IF x = t /\ NeedsEnrollment(t) THEN c ELSE owner[x]
  <2>1. ListTypes /\ NodeLists
    BY InvLists
  <2>2. CASE NeedsEnrollment(t)
    <3>1. t \in Tasks /\ owner[t] = None /\ Enroll(c, t)
      BY <1>2, <2>2 DEF NeedsEnrollment, SwitchLock
    <3> QED BY <2>1, <2>2, <3>1, EnrollLists
  <2>3. CASE ~NeedsEnrollment(t)
    <3>1. UNCHANGED <<readers, blocker, owner>>
      BY <2>3 DEF SwitchLock
    <3> QED BY <2>1, <2>3, <3>1 DEF ListTypes, NodeLists
  <2> QED BY <2>2, <2>3
<1>4. \A x \in exited' : owner'[x] = None
  BY SMT, <1>1, <1>2, <1>3 DEF ReaderInv, ReaderTypes, NodesMatchOwners
<1>5. NodesMatchOwners'
  BY <1>3, <1>4 DEF NodesMatchOwners, NodeLists
<1>6. \A x \in Tasks : nesting[x] > 0 /\ owner'[x] = None => owner[x] = None /\ x # t
  BY SMT, <1>3, RcuAssumption DEF NeedsEnrollment, ReaderInv, ReaderTypes
<1>7. CASE sw' = [sw EXCEPT ![c] = "report"] /\ UNCHANGED running
  <2>1. ReaderTypes'
    BY <1>1, <1>3, <1>7 DEF ReaderInv, ReaderTypes, ListTypes
  <2>2. \A d \in CPUs : sw'[d] = IF d = c THEN "report" ELSE sw[d]
    BY <1>7 DEF ReaderInv, ReaderTypes
  <2>3. Windows'
    BY <1>1, <1>2, <1>7, <2>2 DEF ReaderInv, Windows
  <2>4. \A x \in Tasks : nesting'[x] > 0 /\ owner'[x] = None => \E d \in CPUs : running'[d] = x
    BY <1>1, <1>6, <1>7 DEF ReaderInv, ReaderTypes, Placement
  <2>5. \A d \in CPUs : sw'[d] = "report" => ~NeedsEnrollment(running[d])'
    <3> SUFFICES ASSUME NEW d \in CPUs, sw'[d] = "report", NeedsEnrollment(running[d])'
                 PROVE  FALSE
      OBVIOUS
    <3>1. /\ running[d] \in Tasks /\ running[d] # Idle /\ nesting[running[d]] > 0
          /\ owner'[running[d]] = None
      BY <1>1, <1>7 DEF NeedsEnrollment, ReaderInv, ReaderTypes
    <3>2. owner[running[d]] = None /\ running[d] # t
      BY <3>1, <1>6
    <3>3. sw[d] = "report"
      BY <2>2, <3>2
    <3> QED BY <3>1, <3>2, <3>3 DEF ReaderInv, Placement, NeedsEnrollment
  <2>6. Placement'
    BY SMT, <1>1, <1>7, <2>2, <2>4, <2>5 DEF ReaderInv, Placement
  <2> QED BY <1>5, <2>1, <2>3, <2>6 DEF ReaderInv
<1>8. CASE Depart(c)
  <2>1. /\ running' \in [CPUs -> Tasks \cup {Idle}]
        /\ sw' \in [CPUs -> {"none", "lock", "report", "exit"}]
        /\ \A d \in CPUs \ {c} : running'[d] = running[d] /\ sw'[d] = sw[d]
    BY <1>8, DepartRuns
  <2>2. ReaderTypes'
    BY <1>1, <1>3, <2>1 DEF ReaderInv, ReaderTypes, ListTypes
  <2>3. Windows'
    BY <1>1, <1>2, <2>1 DEF ReaderInv, Windows
  <2>4. Placement'
    BY <1>1, <1>3, <1>6, <1>8, DepartPlacement
  <2> QED BY <1>5, <2>2, <2>3, <2>4 DEF ReaderInv
<1> QED BY <1>7, <1>8 DEF SwitchLock

LEMMA SwitchReportReaders ==
    ASSUME ReaderInv, NEW c \in CPUs, SwitchReport(c)
    PROVE  ReaderInv'
<1>1. /\ UNCHANGED <<mode, irq, watch, activated, nesting, exited, owner, readers, blocker>>
      /\ sw[c] = "report" /\ Depart(c)
  BY DEF SwitchReport, readerVars, nodeVars
<1>2. irq[c] = "none" /\ mode[c] = "kernel" /\ ~NeedsEnrollment(running[c])
  BY <1>1 DEF ReaderInv, Windows, Placement
<1>3. /\ running' \in [CPUs -> Tasks \cup {Idle}]
      /\ sw' \in [CPUs -> {"none", "lock", "report", "exit"}]
      /\ \A d \in CPUs \ {c} : running'[d] = running[d] /\ sw'[d] = sw[d]
  BY <1>1, DepartRuns
<1>4. ReaderTypes' /\ NodesMatchOwners'
  BY <1>1, <1>3 DEF ReaderInv, ReaderTypes, NodesMatchOwners
<1>5. Windows'
  BY SMT, <1>1, <1>2, <1>3 DEF ReaderInv, Windows
<1>6. \A x \in Tasks : nesting[x] > 0 /\ owner'[x] = None => owner[x] = None /\ x # running[c]
  BY <1>1, <1>2, RcuAssumption DEF NeedsEnrollment
<1>7. Placement'
  BY <1>1, <1>6, DepartPlacement
<1> QED BY <1>4, <1>5, <1>7 DEF ReaderInv

LEMMA SwitchExitReaders ==
    ASSUME ReaderInv, NEW c \in CPUs, NEW u, SwitchExit(c, u)
    PROVE  ReaderInv'
<1> DEFINE t == running[c]
<1>1. /\ UNCHANGED <<mode, irq, watch, activated>>
      /\ sw[c] = "exit"
      /\ running' = [running EXCEPT ![c] = u]
      /\ sw' = [sw EXCEPT ![c] = "none"]
      /\ exited' = exited \cup {t}
      /\ nesting' = [nesting EXCEPT ![t] = 0]
      /\ u \in Incoming(c) \ {t}
  BY DEF SwitchExit
<1>2. irq[c] = "none" /\ mode[c] = "kernel" /\ t \in Tasks /\ t # Idle
  BY <1>1, RcuAssumption DEF ReaderInv, Windows, Placement
<1>3. /\ ListTypes' /\ NodeLists'
      /\ \A x \in Tasks : owner'[x] = IF x = t THEN None ELSE owner[x]
  <2>1. ListTypes /\ NodeLists
    BY InvLists
  <2>2. CASE owner[t] # None
    BY <1>2, <2>1, <2>2, RemoveLists DEF SwitchExit
  <2>3. CASE owner[t] = None
    <3>1. UNCHANGED <<readers, blocker, owner>>
      BY <2>3 DEF SwitchExit
    <3> QED BY <2>1, <2>3, <3>1 DEF ListTypes, NodeLists
  <2> QED BY <2>2, <2>3
<1>4. \A x \in exited' : owner'[x] = None
  BY <1>1, <1>2, <1>3 DEF ReaderInv, ReaderTypes, NodesMatchOwners
<1>5. NodesMatchOwners'
  BY <1>3, <1>4 DEF NodesMatchOwners, NodeLists
<1>6. /\ u \in Tasks \cup {Idle}
      /\ u # Idle => u \in Tasks \ (exited \cup {t}) /\ \A d \in CPUs : running[d] # u
  BY <1>1 DEF Incoming
<1>7. ReaderTypes'
  BY <1>1, <1>2, <1>3, <1>6 DEF ReaderInv, ReaderTypes, ListTypes
<1>8. \A d \in CPUs : /\ running'[d] = IF d = c THEN u ELSE running[d]
                      /\ sw'[d] = IF d = c THEN "none" ELSE sw[d]
  BY <1>1 DEF ReaderInv, ReaderTypes
<1>9. \A x \in Tasks : nesting'[x] = IF x = t THEN 0 ELSE nesting[x]
  BY <1>1 DEF ReaderInv, ReaderTypes
<1>10. \A d \in CPUs : running[d] = t => d = c
  BY <1>2 DEF ReaderInv, Placement
<1> HIDE DEF t
<1>11. Windows'
  <2>1. \A d \in CPUs : mode[d] = "quiet" => d # c
    BY <1>2
  <2>2. \A d \in CPUs : mode'[d] = "quiet" /\ running'[d] # Idle => nesting'[running'[d]] = 0
    BY SMT, <1>1, <1>8, <1>9, <2>1 DEF ReaderInv, Windows, ReaderTypes
  <2> QED BY SMT, <1>1, <1>8, <2>2 DEF ReaderInv, Windows
<1>12. Placement'
  <2>1. \A d, e \in CPUs : running'[d] = running'[e] /\ running'[d] # Idle => d = e
    BY SMT, <1>6, <1>8 DEF ReaderInv, Placement
  <2>2. \A d \in CPUs : running'[d] \notin exited'
    <3>1. Idle \notin exited /\ Idle # t
      BY <1>2, RcuAssumption DEF ReaderInv, ReaderTypes
    <3>2. u \notin exited'
      BY <1>1, <1>6, <3>1 DEF t
    <3>3. \A d \in CPUs : running[d] \notin exited
      BY DEF ReaderInv, Placement
    <3> QED BY SMT, <1>1, <1>8, <1>10, <3>2, <3>3 DEF t
  <2>3. \A x \in exited' : nesting'[x] = 0
    BY <1>1, <1>2, <1>9 DEF ReaderInv, Placement, ReaderTypes, t
  <2>4. \A x \in Tasks : nesting'[x] > 0 /\ owner'[x] = None => \E d \in CPUs : running'[d] = x
    <3> SUFFICES ASSUME NEW x \in Tasks, nesting'[x] > 0, owner'[x] = None
                 PROVE  \E d \in CPUs : running'[d] = x
      OBVIOUS
    <3>1. x # t /\ nesting[x] > 0 /\ owner[x] = None
      BY SMT, <1>3, <1>9
    <3>2. PICK d \in CPUs : running[d] = x
      BY <3>1 DEF ReaderInv, Placement
    <3> QED BY <3>1, <3>2, <1>8 DEF t
  <2>5. \A d \in CPUs : sw'[d] = "exit" => running'[d] \in Tasks
    BY <1>8 DEF ReaderInv, Placement
  <2>6. \A d \in CPUs : sw'[d] = "report" => ~NeedsEnrollment(running[d])'
    <3> SUFFICES ASSUME NEW d \in CPUs, sw'[d] = "report", NeedsEnrollment(running[d])'
                 PROVE  FALSE
      OBVIOUS
    <3>1. d # c /\ running'[d] = running[d] /\ sw[d] = "report" /\ running[d] # t
      BY <1>8, <1>10
    <3>2. running[d] \in Tasks /\ nesting[running[d]] > 0 /\ owner[running[d]] = None
      BY SMT, <3>1, <1>3, <1>9 DEF NeedsEnrollment, ReaderInv, ReaderTypes
    <3> QED BY <3>1, <3>2, RcuAssumption DEF ReaderInv, Placement, NeedsEnrollment
  <2> QED BY <2>1, <2>2, <2>3, <2>4, <2>5, <2>6 DEF Placement
<1> QED BY <1>5, <1>7, <1>11, <1>12 DEF ReaderInv

-----------------------------------------------------------------------------
(* The driver, the executors and the drain do not touch the readers, except   *)
(* for the marker of a period that begins.                                    *)

LEMMA GpBeginNodeReaders ==
    ASSUME ReaderInv, GpBeginNode
    PROVE  ReaderInv'
<1>1. /\ UNCHANGED <<running, mode, sw, irq, watch, activated, nesting, owner, exited, readers>>
      /\ blocker' = [blocker EXCEPT ![at] = IF readers[at] = <<>> THEN None ELSE readers[at][1]]
  BY DEF GpBeginNode, BeginNode, cpuVars, readerVars
<1>2. ASSUME at \in CPUs, readers[at] # <<>>
      PROVE  readers[at][1] \in Tasks /\ owner[readers[at][1]] = at
  <2>1. readers[at] \in Seq(Tasks)
    BY <1>2 DEF ReaderInv, ReaderTypes
  <2>2. 1 \in 1..Len(readers[at]) /\ readers[at][1] \in Tasks
    BY SMT, <1>2, <2>1
  <2>3. In(readers[at], readers[at][1])
    BY <2>2 DEF In
  <2> QED BY <1>2, <2>2, <2>3 DEF ReaderInv, NodesMatchOwners
<1>3. blocker' \in [CPUs -> Tasks \cup {None}]
  BY <1>1, <1>2 DEF ReaderInv, ReaderTypes
<1>4. ReaderTypes'
  BY <1>1, <1>3 DEF ReaderInv, ReaderTypes
<1>5. \A c \in CPUs : blocker'[c] # None => owner[blocker'[c]] = c
  BY <1>1, <1>2 DEF ReaderInv, ReaderTypes, NodesMatchOwners
<1>6. NodesMatchOwners'
  BY <1>1, <1>5 DEF ReaderInv, NodesMatchOwners
<1>7. Placement' /\ Windows'
  BY <1>1 DEF ReaderInv, Placement, Windows, NeedsEnrollment
<1> QED BY <1>4, <1>6, <1>7 DEF ReaderInv

LEMMA QuietReaders ==
    ASSUME ReaderInv,
           UNCHANGED <<running, mode, sw, irq, watch, activated, nesting, owner, exited, readers,
                       blocker>>
    PROVE  ReaderInv'
BY SMT DEF ReaderInv, ReaderTypes, NodesMatchOwners, Placement, Windows, NeedsEnrollment

LEMMA QueueSteps ==
    ASSUME NEW c \in CPUs,
           (\E b \in Callbacks : Submit(c, b)) \/ BatchTake(c) \/ Invoke(c) \/ BatchDrop(c)
    PROVE  UNCHANGED rcuVars
BY DEF Submit, BatchTake, Invoke, BatchDrop

LEMMA DrainSteps ==
    ASSUME Drain
    PROVE  UNCHANGED rcuVars
BY DEF Drain, DrainStart, DrainInstall, DrainInstalled, DrainReturn

LEMMA GpSteps ==
    ASSUME GpStep, ~GpBeginNode
    PROVE  UNCHANGED <<running, mode, sw, irq, watch, activated, nesting, owner, exited, readers,
                       blocker>>
<1>1. CASE GpStart \/ GpObserve \/ GpReport \/ GpInspect \/ GpAccept \/ GpAssign
  BY <1>1 DEF GpStart, GpObserve, GpReport, GpInspect, GpAccept, GpAssign, rcuVars, cpuVars,
              readerVars, nodeVars
<1>2. CASE GpFinalize \/ GpFinishNode \/ GpComplete \/ GpPromote \/ GpBegin \/ GpInitialized
  BY <1>2 DEF GpFinalize, GpFinishNode, GpComplete, GpPromote, GpBegin, GpInitialized, rcuVars,
              cpuVars, readerVars, nodeVars
<1> QED BY <1>1, <1>2 DEF GpStep

LEMMA ReaderInvInit == Init => ReaderInv
<1> SUFFICES ASSUME Init PROVE ReaderInv
  OBVIOUS
<1>1. <<>> \in Seq(Tasks) /\ Distinct(<<>>) /\ \A y : ~In(<<>>, y)
  BY SMT DEF Distinct, In
<1>2. ReaderTypes
  <2>1. watch \in [CPUs -> BOOLEAN] /\ activated \in [CPUs -> BOOLEAN]
    BY DEF Init, RcuInit
  <2> QED BY <1>1, <2>1 DEF Init, RcuInit, ReaderTypes
<1>3. NodesMatchOwners
  BY <1>1, RcuAssumption DEF Init, RcuInit, NodesMatchOwners
<1>4. Placement
  BY SMT DEF Init, RcuInit, Placement
<1>5. Windows
  BY DEF Init, RcuInit, Windows
<1> QED BY <1>2, <1>3, <1>4, <1>5 DEF ReaderInv

LEMMA ReaderInvNext == ReaderInv /\ [Next]_vars => ReaderInv'
<1> SUFFICES ASSUME ReaderInv, [Next]_vars PROVE ReaderInv'
  OBVIOUS
<1>1. ASSUME NEW c \in CPUs, Reading(c) PROVE ReaderInv'
  BY <1>1, EnterScopeReaders, LeaveScopeReaders, WindowSteps DEF Reading, ReaderLeaves
<1>2. ASSUME NEW c \in CPUs, Cleanup(c) PROVE ReaderInv'
  BY <1>2, CheckReaderCleanupReaders, EnterQuiescentReaders, SwitchNoteReaders DEF Cleanup
<1>3. ASSUME NEW c \in CPUs, Enrolment(c) PROVE ReaderInv'
  BY <1>3, SwitchLockReaders DEF Enrolment
<1>4. ASSUME NEW c \in CPUs, Report(c) PROVE ReaderInv'
  BY <1>4, SwitchReportReaders DEF Report
<1>5. ASSUME NEW c \in CPUs, Exit(c) PROVE ReaderInv'
  BY <1>5, SwitchExitReaders DEF Exit
<1>6. CASE UNCHANGED rcuVars
  BY <1>6, QuietReaders DEF rcuVars, cpuVars, readerVars, nodeVars
<1>7. CASE GpStep
  BY <1>7, GpBeginNodeReaders, GpSteps, QuietReaders
<1>8. CASE UNCHANGED vars
  BY <1>8, <1>6 DEF vars
<1> QED BY <1>1, <1>2, <1>3, <1>4, <1>5, <1>6, <1>7, <1>8, QueueSteps, DrainSteps DEF Next, Cpu

(* For any number of CPUs and tasks, with preemption, migration, interrupts   *)
(* and exits inside scopes: the node lists and the owner fields agree, and a  *)
(* period's marker names a reader that is still in its list.                  *)
THEOREM NodesAlwaysMatchOwners == Spec => []NodesMatchOwners
<1>1. Init => ReaderInv
  BY ReaderInvInit
<1>2. ReaderInv /\ [Next]_vars => ReaderInv'
  BY ReaderInvNext
<1>3. ReaderInv => NodesMatchOwners
  BY DEF ReaderInv
<1> QED BY <1>1, <1>2, <1>3, PTL DEF Spec
=============================================================================
