-------------------------- MODULE Completion_proofs --------------------------
(* For any tasks, roles and bounds: a wait node never outlives its wait, and  *)
(* nobody sleeps unregistered or through a broadcast.                         *)
EXTENDS Completion, FiniteSetTheorems, TLAPS

(* A leaf that names no prover is tried with Zenon, then with the SMT solver. *)
USE Zenon, SMT

(* What adding to and taking from a list does to its members. *)

\* Appending a new element.
LEMMA AppendList ==
    ASSUME NEW S, NEW q \in Seq(S), NEW x \in S, Distinct(q), ~In(q, x)
    PROVE  /\ Append(q, x) \in Seq(S)
           /\ Distinct(Append(q, x))
           /\ \A y : In(Append(q, x), y) <=> In(q, y) \/ y = x
<1>1. Append(q, x) \in Seq(S) /\ Len(Append(q, x)) = Len(q) + 1 /\ Len(q) \in Nat
  BY SMT
<1>2. \A i \in 1..(Len(q) + 1) : Append(q, x)[i] = IF i = Len(q) + 1 THEN x ELSE q[i]
  BY SMT
<1>3. Distinct(Append(q, x))
  BY SMT, <1>1, <1>2 DEF Distinct, In
<1>4. ASSUME NEW y PROVE In(Append(q, x), y) <=> In(q, y) \/ y = x
  <2>1. In(q, y) => In(Append(q, x), y)
    BY SMT, <1>1, <1>2 DEF In
  <2>2. y = x => In(Append(q, x), y)
    <3>1. Len(q) + 1 \in 1..(Len(q) + 1)
      BY SMT, <1>1
    <3> QED BY <1>1, <1>2, <3>1 DEF In
  <2>3. In(Append(q, x), y) => In(q, y) \/ y = x
    BY SMT, <1>1, <1>2 DEF In
  <2> QED BY <2>1, <2>2, <2>3
<1> QED BY <1>1, <1>3, <1>4

\* Taking an element out.
LEMMA WithoutList ==
    ASSUME NEW S, NEW q \in Seq(S), NEW t, Distinct(q), In(q, t)
    PROVE  /\ Without(q, t) \in Seq(S)
           /\ Distinct(Without(q, t))
           /\ \A y : In(Without(q, t), y) <=> In(q, y) /\ y # t
           /\ Len(Without(q, t)) = Len(q) - 1
<1> DEFINE u == Without(q, t)
<1>1. PICK k \in 1..Len(q) : q[k] = t
  BY DEF In
<1>2. (CHOOSE i \in 1..Len(q) : q[i] = t) = k
  BY <1>1 DEF Distinct
<1>3. u = [j \in 1..(Len(q) - 1) |-> IF j < k THEN q[j] ELSE q[j + 1]]
  BY <1>2 DEF Without, Position
<1>4. Len(q) \in Nat /\ Len(q) - 1 \in Nat /\ k \in Nat /\ k <= Len(q) /\ k >= 1
  BY SMT, <1>1
<1>5. u \in Seq(S)
  <2>1. \A j \in 1..(Len(q) - 1) : (IF j < k THEN q[j] ELSE q[j + 1]) \in S
    BY SMT, <1>4
  <2> QED BY SMT, <1>3, <1>4, <2>1
<1>6. Len(u) = Len(q) - 1
  BY SMT, <1>3, <1>4, <1>5
<1>7. \A j \in 1..(Len(q) - 1) : u[j] = IF j < k THEN q[j] ELSE q[j + 1]
  BY <1>3
<1> HIDE DEF u
<1>8. Distinct(u)
  BY SMT, <1>4, <1>6, <1>7 DEF Distinct
<1>9. ASSUME NEW y PROVE In(u, y) <=> In(q, y) /\ y # t
  <2>1. ASSUME In(u, y) PROVE In(q, y) /\ y # t
    <3>1. PICK j \in 1..(Len(q) - 1) : u[j] = y
      BY <2>1, <1>6 DEF In
    <3>2. PICK i \in 1..Len(q) : i # k /\ q[i] = y
      <4>1. CASE j < k
        BY SMT, <4>1, <3>1, <1>4, <1>7
      <4>2. CASE ~(j < k)
        BY SMT, <4>2, <3>1, <1>4, <1>7
      <4> QED BY <4>1, <4>2
    <3> QED BY <3>2, <1>1 DEF In, Distinct
  <2>2. ASSUME In(q, y), y # t PROVE In(u, y)
    <3>1. PICK i \in 1..Len(q) : q[i] = y
      BY <2>2 DEF In
    <3>2. i # k
      BY <3>1, <2>2, <1>1
    <3>3. CASE i < k
      <4>1. i \in 1..(Len(q) - 1) /\ u[i] = y
        BY SMT, <3>3, <3>1, <1>4, <1>7
      <4> QED BY <4>1, <1>6 DEF In
    <3>4. CASE i > k
      <4>1. i - 1 \in 1..(Len(q) - 1) /\ u[i - 1] = y
        BY SMT, <3>4, <3>1, <1>4, <1>7
      <4> QED BY <4>1, <1>6 DEF In
    <3> QED BY SMT, <3>2, <3>3, <3>4, <1>4
  <2> QED BY <2>1, <2>2
<1> QED BY <1>5, <1>6, <1>8, <1>9 DEF u

\* Taking the first element.
LEMMA TailList ==
    ASSUME NEW S, NEW q \in Seq(S), q # <<>>, Distinct(q)
    PROVE  /\ Head(q) \in S
           /\ Tail(q) \in Seq(S)
           /\ Distinct(Tail(q))
           /\ \A y : In(Tail(q), y) <=> In(q, y) /\ y # Head(q)
<1>1. Len(q) \in Nat /\ Len(q) > 0 /\ Head(q) = q[1] /\ Head(q) \in S
  BY SMT
<1>2. Tail(q) \in Seq(S) /\ Len(Tail(q)) = Len(q) - 1
  BY SMT, <1>1
<1>3. \A i \in 1..(Len(q) - 1) : Tail(q)[i] = q[i + 1]
  BY SMT, <1>1
<1>4. Distinct(Tail(q))
  BY SMT, <1>1, <1>2, <1>3 DEF Distinct
<1>5. ASSUME NEW y PROVE In(Tail(q), y) <=> In(q, y) /\ y # Head(q)
  <2>1. ASSUME In(Tail(q), y) PROVE In(q, y) /\ y # Head(q)
    <3>1. PICK i \in 1..(Len(q) - 1) : Tail(q)[i] = y
      BY <2>1, <1>2 DEF In
    <3>2. i + 1 \in 1..Len(q) /\ q[i + 1] = y /\ 1 \in 1..Len(q) /\ i + 1 # 1
      BY SMT, <3>1, <1>1, <1>3
    <3> QED BY <3>2, <1>1 DEF In, Distinct
  <2>2. ASSUME In(q, y), y # Head(q) PROVE In(Tail(q), y)
    <3>1. PICK i \in 1..Len(q) : q[i] = y
      BY <2>2 DEF In
    <3>2. i - 1 \in 1..(Len(q) - 1) /\ Tail(q)[i - 1] = y
      BY SMT, <3>1, <2>2, <1>1, <1>3
    <3> QED BY <3>2, <1>2 DEF In
  <2> QED BY <2>1, <2>2
<1> QED BY <1>1, <1>2, <1>4, <1>5

-----------------------------------------------------------------------------

(* The loops keep to their own source. *)
Loops ==
    \A t \in Tasks : /\ pc[t] = "check" => source[t] = "token"
                     /\ pc[t] \in {"enrol", "ready"} => source[t] = "queue"

(* SleeperRegistered, from the enrolment on. *)
Registered ==
    \A t \in Tasks :
        /\ pc[t] = "blocked" => In(waiters[source[t]], t)
        /\ pc[t] \in {"park", "ready"} => In(waiters[source[t]], t) \/ latch[t]

(* Nobody sleeps, or is about to sleep with nothing to stop it. *)
Awake(s) ==
    \A t \in Tasks : source[t] = s => pc[t] # "blocked" /\ (pc[t] = "park" => latch[t])

Broadcasts ==
    /\ done = COMPLETE_ALL /\ deferred = 0 => Awake("token")
    /\ ready /\ ~notifyDue => Awake("queue")

IInv == TypeOK /\ NodesLive /\ Loops /\ Registered /\ Broadcasts

(* Every token since the count was last zero took a waiter off the list, and  *)
(* none enrols before it is zero again: a count that saturates leaves none.   *)
Counted ==
    \/ Len(waiters["token"]) = 0
    \/ done + Len(waiters["token"]) <= Cardinality(Tasks)
    \/ done = COMPLETE_ALL /\ deferred > 0

(* A list of different tasks is no longer than the tasks are many. *)
LEMMA ListFits ==
    ASSUME NEW q \in Seq(Tasks), Distinct(q)
    PROVE  Len(q) \in Nat /\ Cardinality(Tasks) \in Nat /\ Len(q) <= Cardinality(Tasks)
<1>1. Len(q) \in Nat /\ q \in [1..Len(q) -> Tasks]
  BY SMT
<1>2. \A i, j \in 1..Len(q) : q[i] = q[j] => i = j
  BY DEF Distinct
<1>3. q \in Injection(1..Len(q), Tasks)
  BY <1>1, <1>2 DEF Injection, IsInjective
<1>4. Cardinality(1..Len(q)) <= Cardinality(Tasks)
  BY <1>3, FS_Injection, CountsAssumption
<1>5. Cardinality(1..Len(q)) = Len(q)
  <2>1. Cardinality(1..Len(q)) = IF 1 > Len(q) THEN 0 ELSE Len(q) - 1 + 1
    BY SMT, <1>1, FS_Interval
  <2> QED BY SMT, <2>1, <1>1
<1>6. Cardinality(Tasks) \in Nat
  BY FS_CardinalityType, CountsAssumption
<1> QED BY <1>1, <1>4, <1>5, <1>6

-----------------------------------------------------------------------------
(* Notification.  The tasks of T are taken off source s and notified. *)

Woken(s, T) ==
    /\ Notify(T)
    /\ waiters' \in [Sources -> Seq(Tasks)]
    /\ \A r \in Sources :
         /\ Distinct(waiters'[r])
         /\ \A t \in Tasks : In(waiters'[r], t) <=> In(waiters[r], t) /\ ~(r = s /\ t \in T)
    /\ \A t \in T : In(waiters[s], t)

LEMMA WakeOneWoken ==
    ASSUME TypeOK, NodesLive, NEW s \in Sources, WakeOne(s)
    PROVE  \E T \in SUBSET Tasks :
             /\ Woken(s, T)
             /\ Len(waiters[s]) <= 1 => \A t \in Tasks : In(waiters[s], t) => t \in T
<1>1. CASE waiters[s] = <<>>
  <2>1. UNCHANGED <<waiters, latch, pc>>
    BY <1>1 DEF WakeOne
  <2>2. Notify({})
    BY <2>1 DEF Notify, TypeOK
  <2>3. Woken(s, {})
    BY <2>1, <2>2 DEF Woken, TypeOK, NodesLive, Linked
  <2>4. \A y : ~In(waiters[s], y)
    BY SMT, <1>1 DEF In
  <2> QED BY <2>3, <2>4
<1>2. CASE waiters[s] # <<>>
  <2> DEFINE q == waiters[s]
  <2>1. Notify({Head(q)}) /\ waiters' = [waiters EXCEPT ![s] = Tail(q)]
    BY <1>2 DEF WakeOne
  <2>2. q \in Seq(Tasks) /\ Distinct(q)
    BY DEF TypeOK, NodesLive, Linked
  <2>3. /\ Head(q) \in Tasks
        /\ Tail(q) \in Seq(Tasks)
        /\ Distinct(Tail(q))
        /\ \A y : In(Tail(q), y) <=> In(q, y) /\ y # Head(q)
    BY <1>2, <2>2, TailList
  <2>4. In(q, Head(q))
    BY SMT, <1>2, <2>2 DEF In
  <2>8. Len(q) <= 1 => \A y : In(q, y) => y \in {Head(q)}
    <3>1. Len(q) \in Nat /\ Head(q) = q[1]
      BY SMT, <2>2, <1>2
    <3> QED BY SMT, <3>1 DEF In
  <2> HIDE DEF q
  <2>5. waiters' \in [Sources -> Seq(Tasks)]
    BY <2>1, <2>3 DEF TypeOK
  <2>6. ASSUME NEW r \in Sources
        PROVE  /\ Distinct(waiters'[r])
               /\ \A t \in Tasks :
                    In(waiters'[r], t) <=> In(waiters[r], t) /\ ~(r = s /\ t \in {Head(q)})
    <3>1. CASE r = s
      <4>1. waiters'[r] = Tail(q) /\ waiters[r] = q
        BY <3>1, <2>1 DEF TypeOK, q
      <4> QED BY <3>1, <4>1, <2>3
    <3>2. CASE r # s
      <4>1. waiters'[r] = waiters[r]
        BY <3>2, <2>1 DEF TypeOK
      <4> QED BY <3>2, <4>1 DEF NodesLive, Linked
    <3> QED BY <3>1, <3>2
  <2>7. Woken(s, {Head(q)})
    BY <2>1, <2>4, <2>5, <2>6 DEF Woken, q
  <2> QED BY <2>3, <2>7, <2>8 DEF q
<1> QED BY <1>1, <1>2

LEMMA WakeAllWoken ==
    ASSUME TypeOK, NodesLive, NEW s \in Sources, WakeAll(s)
    PROVE  \E T \in SUBSET Tasks : /\ Woken(s, T)
                                   /\ \A t \in Tasks : In(waiters[s], t) => t \in T
<1> DEFINE T == {waiters[s][i] : i \in 1..Len(waiters[s])}
<1>1. Notify(T) /\ waiters' = [waiters EXCEPT ![s] = <<>>]
  BY DEF WakeAll
<1>2. T \in SUBSET Tasks
  BY SMT DEF TypeOK
<1>3. \A t : t \in T <=> In(waiters[s], t)
  BY DEF In
<1> HIDE DEF T
<1>4. <<>> \in Seq(Tasks) /\ Distinct(<<>>) /\ \A y : ~In(<<>>, y)
  BY SMT DEF Distinct, In
<1>5. waiters' \in [Sources -> Seq(Tasks)]
  BY <1>1, <1>4 DEF TypeOK
<1>6. ASSUME NEW r \in Sources
      PROVE  /\ Distinct(waiters'[r])
             /\ \A t \in Tasks :
                  In(waiters'[r], t) <=> In(waiters[r], t) /\ ~(r = s /\ t \in T)
  <2>1. CASE r = s
    <3>1. waiters'[r] = <<>>
      BY <2>1, <1>1 DEF TypeOK
    <3> QED BY <2>1, <3>1, <1>3, <1>4
  <2>2. CASE r # s
    <3>1. waiters'[r] = waiters[r]
      BY <2>2, <1>1 DEF TypeOK
    <3> QED BY <2>2, <3>1 DEF NodesLive, Linked
  <2> QED BY <2>1, <2>2
<1>7. Woken(s, T)
  BY <1>1, <1>3, <1>5, <1>6 DEF Woken
<1> QED BY <1>2, <1>3, <1>7

(* A notification keeps every waiter registered or awake, and reaches each    *)
(* task it takes off.                                                         *)
LEMMA WokenKeeps ==
    ASSUME IInv, NEW s \in Sources, NEW T \in SUBSET Tasks, Woken(s, T), source' = source
    PROVE  /\ latch' \in [Tasks -> BOOLEAN]
           /\ pc' \in [Tasks -> PCs]
           /\ NodesLive' /\ Loops' /\ Registered'
           /\ \A r \in Sources : Awake(r) => Awake(r)'
           /\ (\A t \in Tasks : In(waiters[s], t) => t \in T) => Awake(s)'
<1>1. latch' \in [Tasks -> BOOLEAN]
  BY DEF Woken, Notify, IInv, TypeOK
<1>2. pc' \in [Tasks -> PCs]
  BY DEF Woken, Notify, IInv, TypeOK, PCs, LoopHead
<1>3. \A t \in Tasks :
        /\ latch'[t] = (t \in T \/ latch[t])
        /\ pc'[t] = IF t \in T /\ pc[t] = "blocked" THEN LoopHead(source[t]) ELSE pc[t]
  BY DEF Woken, Notify
<1>4. \A r \in Sources : LoopHead(r) = IF r = "token" THEN "check" ELSE "enrol"
  BY DEF LoopHead
<1>5. \A t \in Tasks : source[t] \in Sources /\ source'[t] = source[t]
  BY DEF IInv, TypeOK
<1>6. NodesLive'
  BY <1>3, <1>4, <1>5 DEF IInv, NodesLive, Woken, Waiting, Linked
<1>7. Loops'
  BY <1>3, <1>4, <1>5 DEF IInv, Loops, Sources
<1>8. Registered'
  BY <1>3, <1>4, <1>5 DEF IInv, Registered, Woken
<1>9. \A r \in Sources : Awake(r) => Awake(r)'
  BY <1>3, <1>4, <1>5 DEF Awake
<1>10. (\A t \in Tasks : In(waiters[s], t) => t \in T) => Awake(s)'
  BY <1>3, <1>4, <1>5 DEF Awake, IInv, Registered
<1> QED BY <1>1, <1>2, <1>6, <1>7, <1>8, <1>9, <1>10

-----------------------------------------------------------------------------
(* The steps of a wait. *)

LEMMA WaitStep ==
    ASSUME IInv, NEW t \in Tasks, NEW s \in Sources, Wait(t, s)
    PROVE  IInv'
<1>1. waiters' = waiters /\ done' = done /\ deferred' = deferred /\ ready' = ready
      /\ notifyDue' = notifyDue
  BY DEF Wait
<1>2. /\ source' = [source EXCEPT ![t] = s]
      /\ pc' = [pc EXCEPT ![t] = LoopHead(s)]
      /\ pc[t] = "idle"
  BY DEF Wait
<1>3. latch' \in [Tasks -> BOOLEAN] /\ \A x \in Tasks \ {t} : latch'[x] = latch[x]
  <2>1. PICK fresh \in BOOLEAN : latch' = [latch EXCEPT ![t] = latch[t] /\ ~fresh]
    BY DEF Wait
  <2>2. (latch[t] /\ ~fresh) \in BOOLEAN
    OBVIOUS
  <2> QED BY <2>1, <2>2 DEF IInv, TypeOK
<1>4. LoopHead(s) \in {"check", "enrol"} /\ (LoopHead(s) = "check" <=> s = "token")
  BY DEF LoopHead, Sources
<1>5. TypeOK'
  BY <1>1, <1>2, <1>3, <1>4 DEF IInv, TypeOK, PCs
<1>6. \A r \in Sources : ~In(waiters[r], t)
  BY <1>2 DEF IInv, NodesLive, Waiting, Linked
<1>7. \A x \in Tasks : /\ x # t => source'[x] = source[x] /\ pc'[x] = pc[x]
                       /\ source'[t] = s /\ pc'[t] = LoopHead(s)
  BY <1>2 DEF IInv, TypeOK
<1>8. NodesLive'
  BY <1>1, <1>6, <1>7 DEF IInv, NodesLive, Waiting, Linked
<1>9. Loops'
  BY <1>4, <1>7 DEF IInv, Loops, Sources
<1>10. Registered'
  BY <1>1, <1>3, <1>4, <1>7 DEF IInv, Registered
<1>11. Broadcasts'
  BY <1>1, <1>3, <1>4, <1>7 DEF IInv, Broadcasts, Awake
<1> QED BY <1>5, <1>8, <1>9, <1>10, <1>11 DEF IInv

LEMMA CheckTokenStep ==
    ASSUME IInv, NEW t \in Tasks, CheckToken(t)
    PROVE  IInv'
<1>1. latch' = latch /\ source' = source /\ deferred' = deferred /\ ready' = ready
      /\ notifyDue' = notifyDue /\ pc[t] = "check"
  BY DEF CheckToken
<1>2. source[t] = "token" /\ "token" \in Sources
  BY <1>1 DEF IInv, Loops, Sources
<1>3. CASE done # 0 /\ TakeToken /\ pc' = [pc EXCEPT ![t] = "drop"] /\ waiters' = waiters
  <2>1. done' \in 0..COMPLETE_ALL /\ (done' = COMPLETE_ALL => done = COMPLETE_ALL)
    BY SMT, <1>3, CountsAssumption DEF TakeToken, IInv, TypeOK
  <2>2. TypeOK'
    BY <1>1, <1>3, <2>1 DEF IInv, TypeOK, PCs
  <2>3. \A x \in Tasks : pc'[x] = IF x = t THEN "drop" ELSE pc[x]
    BY <1>3 DEF IInv, TypeOK
  <2>4. NodesLive' /\ Loops' /\ Registered'
    BY SMT, <1>1, <1>2, <1>3, <2>3 DEF IInv, NodesLive, Loops, Registered, Waiting, Linked
  <2>5. Broadcasts'
    BY <1>1, <2>1, <2>3 DEF IInv, Broadcasts, Awake
  <2> QED BY <2>2, <2>4, <2>5 DEF IInv
<1>4. CASE /\ done = 0 /\ done' = done
           /\ waiters' = IF Linked(t, "token") THEN waiters
                         ELSE [waiters EXCEPT !["token"] = Append(@, t)]
           /\ pc' = [pc EXCEPT ![t] = "park"]
  <2>1. /\ waiters' \in [Sources -> Seq(Tasks)]
        /\ \A r \in Sources :
             /\ Distinct(waiters'[r])
             /\ \A x \in Tasks :
                  In(waiters'[r], x) <=> In(waiters[r], x) \/ (r = "token" /\ x = t)
    <3>1. CASE In(waiters["token"], t)
      <4>1. waiters' = waiters
        BY <3>1, <1>4 DEF Linked
      <4> QED BY <3>1, <4>1 DEF IInv, TypeOK, NodesLive, Linked
    <3>2. CASE ~In(waiters["token"], t)
      <4> DEFINE q == waiters["token"]
      <4>1. waiters' = [waiters EXCEPT !["token"] = Append(q, t)]
        BY <3>2, <1>4 DEF Linked
      <4>2. q \in Seq(Tasks) /\ Distinct(q)
        BY <1>2 DEF IInv, TypeOK, NodesLive, Linked
      <4>3. /\ Append(q, t) \in Seq(Tasks)
            /\ Distinct(Append(q, t))
            /\ \A y : In(Append(q, t), y) <=> In(q, y) \/ y = t
        BY <3>2, <4>2, AppendList
      <4>4. \A r \in Sources : waiters'[r] = IF r = "token" THEN Append(q, t) ELSE waiters[r]
        BY <4>1 DEF IInv, TypeOK
      <4>5. waiters' \in [Sources -> Seq(Tasks)]
        BY <4>1, <4>3 DEF IInv, TypeOK
      <4> QED BY <4>3, <4>4, <4>5 DEF IInv, NodesLive, Linked
    <3> QED BY <3>1, <3>2
  <2>2. TypeOK'
    BY <1>1, <1>4, <2>1 DEF IInv, TypeOK, PCs
  <2>3. \A x \in Tasks : pc'[x] = IF x = t THEN "park" ELSE pc[x]
    BY <1>4 DEF IInv, TypeOK
  <2>4. NodesLive'
    BY SMT, <1>1, <1>2, <2>1, <2>3 DEF IInv, NodesLive, Waiting, Linked
  <2>5. Loops'
    BY <1>1, <2>3 DEF IInv, Loops
  <2>6. Registered'
    <3>1. \A x \in Tasks : source[x] \in Sources
      BY DEF IInv, TypeOK
    <3>2. In(waiters'["token"], t)
      BY <1>2, <2>1
    <3>3. \A x \in Tasks : In(waiters[source[x]], x) => In(waiters'[source[x]], x)
      BY <2>1, <3>1
    <3> QED BY <1>1, <1>2, <2>3, <3>2, <3>3 DEF IInv, Registered
  <2>7. Broadcasts'
    <3>1. done' # COMPLETE_ALL
      BY SMT, <1>4, CountsAssumption
    <3> QED BY <1>1, <1>2, <2>3, <3>1 DEF IInv, Broadcasts, Awake
  <2> QED BY <2>2, <2>4, <2>5, <2>6, <2>7 DEF IInv
<1> QED BY <1>3, <1>4 DEF CheckToken

(* Enrolment at the back of the queue, out of its old place if it has one. *)
LEMMA EnrolStep ==
    ASSUME IInv, NEW t \in Tasks, Enrol(t)
    PROVE  IInv'
<1> DEFINE q == waiters["queue"]
           p == IF In(q, t) THEN Without(q, t) ELSE q
<1>1. /\ latch' = latch /\ source' = source /\ deferred' = deferred /\ ready' = ready
      /\ notifyDue' = notifyDue /\ done' = done
      /\ pc[t] = "enrol" /\ pc' = [pc EXCEPT ![t] = "ready"]
      /\ waiters' = [waiters EXCEPT !["queue"] = Append(p, t)]
  BY DEF Enrol, Linked, In
<1>2. source[t] = "queue" /\ "queue" \in Sources
  BY <1>1 DEF IInv, Loops, Sources
<1>3. q \in Seq(Tasks) /\ Distinct(q)
  BY <1>2 DEF IInv, TypeOK, NodesLive, Linked
<1>4. p \in Seq(Tasks) /\ Distinct(p) /\ \A y : In(p, y) <=> In(q, y) /\ y # t
  <2>1. CASE In(q, t)
    BY <2>1, <1>3, WithoutList
  <2>2. CASE ~In(q, t)
    BY <2>2, <1>3
  <2> QED BY <2>1, <2>2
<1> HIDE DEF p
<1>5. /\ Append(p, t) \in Seq(Tasks)
      /\ Distinct(Append(p, t))
      /\ \A y : In(Append(p, t), y) <=> In(q, y) \/ y = t
  BY <1>4, AppendList
<1>6. \A r \in Sources : waiters'[r] = IF r = "queue" THEN Append(p, t) ELSE waiters[r]
  BY <1>1 DEF IInv, TypeOK
<1>7. waiters' \in [Sources -> Seq(Tasks)]
  BY <1>1, <1>5 DEF IInv, TypeOK
<1>8. TypeOK'
  BY <1>1, <1>7 DEF IInv, TypeOK, PCs
<1>9. \A x \in Tasks : pc'[x] = (IF x = t THEN "ready" ELSE pc[x]) /\ source[x] \in Sources
  BY <1>1 DEF IInv, TypeOK
<1>10. NodesLive'
  BY SMT, <1>1, <1>2, <1>5, <1>6, <1>9 DEF IInv, NodesLive, Waiting, Linked
<1>11. Loops'
  BY SMT, <1>1, <1>2, <1>9 DEF IInv, Loops
<1>12. Registered'
  BY SMT, <1>1, <1>2, <1>5, <1>6, <1>9 DEF IInv, Registered
<1>13. Broadcasts'
  BY SMT, <1>1, <1>9 DEF IInv, Broadcasts, Awake
<1> QED BY <1>8, <1>10, <1>11, <1>12, <1>13 DEF IInv

LEMMA TestReadyStep ==
    ASSUME IInv, NEW t \in Tasks, TestReady(t)
    PROVE  IInv'
<1>1. /\ UNCHANGED <<done, waiters, latch, source, deferred, ready, notifyDue>>
      /\ pc[t] = "ready" /\ pc' = [pc EXCEPT ![t] = IF ready THEN "drop" ELSE "park"]
  BY DEF TestReady
<1>2. source[t] = "queue"
  BY <1>1 DEF IInv, Loops
<1>3. TypeOK'
  BY <1>1 DEF IInv, TypeOK, PCs
<1>4. \A x \in Tasks : pc'[x] = IF x = t THEN (IF ready THEN "drop" ELSE "park") ELSE pc[x]
  BY <1>1 DEF IInv, TypeOK
<1>5. NodesLive'
  BY SMT, <1>1, <1>4 DEF IInv, NodesLive, Waiting, Linked
<1>6. Loops'
  BY SMT, <1>1, <1>4 DEF IInv, Loops
<1>7. Registered'
  BY SMT, <1>1, <1>4 DEF IInv, Registered
<1>8. Broadcasts'
  BY SMT, <1>1, <1>2, <1>4 DEF IInv, Broadcasts, Awake
<1> QED BY <1>3, <1>5, <1>6, <1>7, <1>8 DEF IInv

(* The latch decides: a task goes to sleep only while it is in its list, and  *)
(* no broadcast has passed since.                                             *)
LEMMA ParkTaskStep ==
    ASSUME IInv, NEW t \in Tasks, ParkTask(t)
    PROVE  IInv'
<1>1. /\ UNCHANGED <<done, waiters, source, deferred, ready, notifyDue>>
      /\ pc[t] = "park"
      /\ pc' = [pc EXCEPT ![t] = IF latch[t] THEN LoopHead(source[t]) ELSE "blocked"]
      /\ latch' = [latch EXCEPT ![t] = FALSE]
  BY DEF ParkTask
<1>2. /\ source[t] \in Sources
      /\ LoopHead(source[t]) \in {"check", "enrol"}
      /\ LoopHead(source[t]) = "check" <=> source[t] = "token"
  BY DEF LoopHead, Sources, IInv, TypeOK
<1>3. TypeOK'
  BY <1>1, <1>2 DEF IInv, TypeOK, PCs
<1>4. \A x \in Tasks :
        /\ x # t => pc'[x] = pc[x] /\ latch'[x] = latch[x]
        /\ pc'[t] = IF latch[t] THEN LoopHead(source[t]) ELSE "blocked"
  BY <1>1 DEF IInv, TypeOK
<1>5. NodesLive'
  BY SMT, <1>1, <1>2, <1>4 DEF IInv, NodesLive, Waiting, Linked
<1>6. Loops'
  BY SMT, <1>1, <1>2, <1>4 DEF IInv, Loops, Sources
<1>7. Registered'
  BY <1>1, <1>2, <1>4 DEF IInv, Registered
<1>8. Broadcasts'
  BY ZenonT(60), <1>1, <1>2, <1>4 DEF IInv, Broadcasts, Awake
<1> QED BY <1>3, <1>5, <1>6, <1>7, <1>8 DEF IInv

LEMMA DisturbStep ==
    ASSUME IInv, NEW t \in Tasks, Disturb(t)
    PROVE  IInv'
<1>1. /\ UNCHANGED <<done, waiters, latch, source, deferred, ready, notifyDue>>
      /\ pc[t] = "blocked" /\ pc' = [pc EXCEPT ![t] = LoopHead(source[t])]
  BY DEF Disturb
<1>2. /\ source[t] \in Sources
      /\ LoopHead(source[t]) \in {"check", "enrol"}
      /\ LoopHead(source[t]) = "check" <=> source[t] = "token"
  BY DEF LoopHead, Sources, IInv, TypeOK
<1>3. TypeOK'
  BY <1>1, <1>2 DEF IInv, TypeOK, PCs
<1>4. \A x \in Tasks : pc'[x] = IF x = t THEN LoopHead(source[t]) ELSE pc[x]
  BY <1>1 DEF IInv, TypeOK
<1>5. NodesLive'
  BY SMT, <1>1, <1>2, <1>4 DEF IInv, NodesLive, Waiting, Linked
<1>6. Loops'
  BY SMT, <1>1, <1>2, <1>4 DEF IInv, Loops, Sources
<1>7. Registered' /\ Broadcasts'
  BY SMT, <1>1, <1>2, <1>4 DEF IInv, Registered, Broadcasts, Awake
<1> QED BY <1>3, <1>5, <1>6, <1>7 DEF IInv

LEMMA DropRegistrationStep ==
    ASSUME IInv, NEW t \in Tasks, DropRegistration(t)
    PROVE  IInv'
<1> DEFINE s == source[t]
           q == waiters[s]
           p == IF In(q, t) THEN Without(q, t) ELSE q
<1>1. /\ UNCHANGED <<done, latch, source, deferred, ready, notifyDue>>
      /\ pc[t] = "drop" /\ pc' = [pc EXCEPT ![t] = "idle"]
  BY DEF DropRegistration
<1>2. s \in Sources
  BY DEF IInv, TypeOK
<1>3. waiters' = [waiters EXCEPT ![s] = p]
  <2>1. CASE In(q, t)
    BY <2>1 DEF DropRegistration, Linked
  <2>2. CASE ~In(q, t)
    <3>1. waiters' = waiters
      BY <2>2 DEF DropRegistration, Linked
    <3> QED BY <3>1, <2>2, <1>2 DEF IInv, TypeOK
  <2> QED BY <2>1, <2>2
<1>4. q \in Seq(Tasks) /\ Distinct(q)
  BY <1>2 DEF IInv, TypeOK, NodesLive, Linked
<1>5. p \in Seq(Tasks) /\ Distinct(p) /\ \A y : In(p, y) <=> In(q, y) /\ y # t
  <2>1. CASE In(q, t)
    BY <2>1, <1>4, WithoutList
  <2>2. CASE ~In(q, t)
    BY <2>2, <1>4
  <2> QED BY <2>1, <2>2
<1> HIDE DEF p
<1>6. \A r \in Sources : waiters'[r] = IF r = s THEN p ELSE waiters[r]
  BY <1>3 DEF IInv, TypeOK
<1>7. TypeOK'
  BY <1>1, <1>2, <1>3, <1>5 DEF IInv, TypeOK, PCs
<1>8. \A x \in Tasks : pc'[x] = (IF x = t THEN "idle" ELSE pc[x]) /\ source[x] \in Sources
  BY <1>1 DEF IInv, TypeOK
<1>9. \A r \in Sources : /\ Distinct(waiters'[r])
                         /\ \A x \in Tasks : In(waiters'[r], x) <=> In(waiters[r], x) /\ x # t
  <2>1. \A r \in Sources : r # s => ~In(waiters[r], t)
    BY <1>2 DEF IInv, NodesLive, Waiting, Linked
  <2> QED BY <1>5, <1>6, <2>1 DEF IInv, NodesLive, Linked
<1>10. NodesLive'
  BY SMT, <1>1, <1>8, <1>9 DEF IInv, NodesLive, Waiting, Linked
<1>11. Loops'
  BY SMT, <1>1, <1>8 DEF IInv, Loops
<1>12. Registered'
  BY SMT, <1>1, <1>8, <1>9 DEF IInv, Registered
<1>13. Broadcasts'
  BY SMT, <1>1, <1>8 DEF IInv, Broadcasts, Awake
<1> QED BY <1>7, <1>10, <1>11, <1>12, <1>13 DEF IInv

-----------------------------------------------------------------------------
(* The signals. *)

(* What a step that notifies has to show beyond WokenKeeps. *)
LEMMA SignalKeeps ==
    ASSUME IInv, NEW s \in Sources, NEW T \in SUBSET Tasks, Woken(s, T), source' = source,
           done' \in 0..COMPLETE_ALL, deferred' \in 0..MaxDeferred,
           ready' \in BOOLEAN, notifyDue' \in BOOLEAN, Broadcasts'
    PROVE  IInv'
<1>1. /\ latch' \in [Tasks -> BOOLEAN] /\ pc' \in [Tasks -> PCs]
      /\ NodesLive' /\ Loops' /\ Registered'
  BY WokenKeeps
<1>2. waiters' \in [Sources -> Seq(Tasks)]
  BY DEF Woken
<1>3. TypeOK'
  BY <1>1, <1>2 DEF IInv, TypeOK
<1> QED BY <1>1, <1>3 DEF IInv

LEMMA CompleteStep ==
    ASSUME IInv, Counted, Complete
    PROVE  IInv'
<1>1. "token" \in Sources /\ WakeOne("token") /\ TypeOK /\ NodesLive
  BY DEF Complete, Sources, IInv
<1>2. PICK T \in SUBSET Tasks :
        /\ Woken("token", T)
        /\ Len(waiters["token"]) <= 1 => \A t \in Tasks : In(waiters["token"], t) => t \in T
  BY <1>1, WakeOneWoken
<1>3. UNCHANGED <<source, deferred, ready, notifyDue>>
  BY DEF Complete
<1>4. /\ done' \in 0..COMPLETE_ALL
      /\ done' = IF done = COMPLETE_ALL THEN done ELSE done + 1
  BY SMT, CountsAssumption DEF Complete, IInv, TypeOK
<1>5. Awake("token") => Awake("token")'
  BY <1>1, <1>2, <1>3, WokenKeeps
<1>6. "queue" \in Sources /\ (Awake("queue") => Awake("queue")')
  BY <1>1, <1>2, <1>3, WokenKeeps DEF Sources
<1>7. ASSUME done' = COMPLETE_ALL, done # COMPLETE_ALL PROVE Awake("token")'
  <2>1. waiters["token"] \in Seq(Tasks) /\ Distinct(waiters["token"])
    BY <1>1 DEF TypeOK, NodesLive
  <2>2. /\ Len(waiters["token"]) \in Nat /\ Cardinality(Tasks) \in Nat
        /\ done \in Nat /\ COMPLETE_ALL \in Nat /\ Cardinality(Tasks) <= COMPLETE_ALL
    BY SMT, <2>1, ListFits, CountsAssumption DEF IInv, TypeOK
  <2>3. Len(waiters["token"]) <= 1
    BY SMT, <1>4, <1>7, <2>2 DEF Counted
  <2> QED BY <1>1, <1>2, <1>3, <2>3, WokenKeeps
<1>8. Broadcasts'
  BY <1>3, <1>4, <1>5, <1>6, <1>7 DEF IInv, Broadcasts
<1> QED BY <1>1, <1>2, <1>3, <1>4, <1>8, SignalKeeps DEF IInv, TypeOK

LEMMA CompleteAllStep ==
    ASSUME IInv, CompleteAll
    PROVE  IInv'
<1>1. "token" \in Sources /\ WakeAll("token") /\ TypeOK /\ NodesLive
  BY DEF CompleteAll, Sources, IInv
<1>2. PICK T \in SUBSET Tasks :
        Woken("token", T) /\ \A t \in Tasks : In(waiters["token"], t) => t \in T
  BY <1>1, WakeAllWoken
<1>3. /\ UNCHANGED <<source, deferred, ready, notifyDue>> /\ done' = COMPLETE_ALL
      /\ COMPLETE_ALL \in 0..COMPLETE_ALL
  BY SMT, CountsAssumption DEF CompleteAll
<1>4. Awake("token")'
  BY <1>1, <1>2, <1>3, WokenKeeps
<1>5. "queue" \in Sources /\ (Awake("queue") => Awake("queue")')
  BY <1>1, <1>2, <1>3, WokenKeeps DEF Sources
<1>6. Broadcasts'
  BY <1>3, <1>4, <1>5 DEF IInv, Broadcasts
<1> QED BY <1>1, <1>2, <1>3, <1>6, SignalKeeps DEF IInv, TypeOK

LEMMA DeferredWakeStep ==
    ASSUME IInv, DeferredWake
    PROVE  IInv'
<1>1. "token" \in Sources /\ WakeAll("token") /\ TypeOK /\ NodesLive
  BY DEF DeferredWake, Sources, IInv
<1>2. PICK T \in SUBSET Tasks :
        Woken("token", T) /\ \A t \in Tasks : In(waiters["token"], t) => t \in T
  BY <1>1, WakeAllWoken
<1>3. UNCHANGED <<done, source, ready, notifyDue>> /\ deferred' \in 0..MaxDeferred
  BY SMT, CountsAssumption DEF DeferredWake, IInv, TypeOK
<1>4. Awake("token")'
  BY <1>1, <1>2, <1>3, WokenKeeps
<1>5. "queue" \in Sources /\ (Awake("queue") => Awake("queue")')
  BY <1>1, <1>2, <1>3, WokenKeeps DEF Sources
<1>6. Broadcasts'
  BY <1>3, <1>4, <1>5 DEF IInv, Broadcasts
<1> QED BY <1>1, <1>2, <1>3, <1>6, SignalKeeps DEF IInv, TypeOK

LEMMA NotifyAllStep ==
    ASSUME IInv, NotifyAll
    PROVE  IInv'
<1>1. "queue" \in Sources /\ WakeAll("queue") /\ TypeOK /\ NodesLive
  BY DEF NotifyAll, Sources, IInv
<1>2. PICK T \in SUBSET Tasks :
        Woken("queue", T) /\ \A t \in Tasks : In(waiters["queue"], t) => t \in T
  BY <1>1, WakeAllWoken
<1>3. UNCHANGED <<done, source, deferred, ready>> /\ notifyDue' = FALSE
  BY DEF NotifyAll
<1>4. Awake("queue")'
  BY <1>1, <1>2, <1>3, WokenKeeps
<1>5. "token" \in Sources /\ (Awake("token") => Awake("token")')
  BY <1>1, <1>2, <1>3, WokenKeeps DEF Sources
<1>6. Broadcasts'
  BY <1>3, <1>4, <1>5 DEF IInv, Broadcasts
<1> QED BY <1>1, <1>2, <1>3, <1>6, SignalKeeps DEF IInv, TypeOK

(* The steps that leave the waiters alone. *)
LEMMA OtherStep ==
    ASSUME IInv, TryWait \/ CompleteAllDeferWake \/ Reinit \/ Publish \/ Withdraw
    PROVE  IInv'
<1>1. UNCHANGED <<waiters, latch, pc, source>>
  BY DEF TryWait, CompleteAllDeferWake, Reinit, Publish, Withdraw
<1>2. NodesLive' /\ Loops' /\ Registered' /\ (Awake("token") => Awake("token")')
      /\ (Awake("queue") => Awake("queue")')
  BY <1>1 DEF IInv, NodesLive, Loops, Registered, Awake, Waiting, Linked
<1>3. CASE TryWait
  <2>1. UNCHANGED <<deferred, ready, notifyDue>>
    BY <1>3 DEF TryWait
  <2>2. /\ done' \in 0..COMPLETE_ALL
        /\ done' = COMPLETE_ALL => done = COMPLETE_ALL
    BY SMT, <1>3, CountsAssumption DEF TryWait, TakeToken, IInv, TypeOK
  <2> QED BY <1>1, <1>2, <2>1, <2>2 DEF IInv, TypeOK, Broadcasts
<1>4. CASE CompleteAllDeferWake
  <2>1. /\ UNCHANGED <<ready, notifyDue>> /\ done' = COMPLETE_ALL
        /\ deferred' \in 0..MaxDeferred /\ deferred' # 0 /\ COMPLETE_ALL \in 0..COMPLETE_ALL
    BY SMT, <1>4, CountsAssumption DEF CompleteAllDeferWake, IInv, TypeOK
  <2> QED BY <1>1, <1>2, <2>1 DEF IInv, TypeOK, Broadcasts
<1>5. CASE Reinit
  <2>1. UNCHANGED <<deferred, ready, notifyDue>> /\ done' = 0
    BY <1>5 DEF Reinit
  <2>2. done' \in 0..COMPLETE_ALL /\ done' # COMPLETE_ALL
    BY SMT, <2>1, CountsAssumption
  <2> QED BY <1>1, <1>2, <2>1, <2>2 DEF IInv, TypeOK, Broadcasts
<1>6. CASE Publish
  <2>1. UNCHANGED <<done, deferred>> /\ ready' = TRUE /\ notifyDue' = TRUE
    BY <1>6 DEF Publish
  <2> QED BY <1>1, <1>2, <2>1 DEF IInv, TypeOK, Broadcasts
<1>7. CASE Withdraw
  <2>1. UNCHANGED <<done, deferred, notifyDue>> /\ ready' = FALSE
    BY <1>7 DEF Withdraw
  <2> QED BY <1>1, <1>2, <2>1 DEF IInv, TypeOK, Broadcasts
<1> QED BY <1>3, <1>4, <1>5, <1>6, <1>7

LEMMA Sums ==
    \A a, b, m \in Nat :
        a + b <= m => (a - 1) + b <= m /\ a + (b - 1) <= m /\ (a + 1) + (b - 1) <= m
  BY SMT

(* The tokens and the enrolled waiters, in the steps that change them. *)
LEMMA CountedStep ==
    ASSUME IInv, Counted, IInv', [Next]_vars
    PROVE  Counted'
<1> DEFINE q == waiters["token"]
           n == Cardinality(Tasks)
<1>1. /\ q \in Seq(Tasks) /\ Distinct(q) /\ q' \in Seq(Tasks) /\ Distinct(q')
      /\ "token" \in Sources /\ "queue" \in Sources /\ waiters \in [Sources -> Seq(Tasks)]
  BY DEF IInv, TypeOK, NodesLive, Sources
<1>2. /\ Len(q) \in Nat /\ Len(q') \in Nat /\ n \in Nat /\ Len(q') <= n
      /\ done \in Nat /\ deferred \in Nat /\ COMPLETE_ALL \in Nat /\ COMPLETE_ALL # 0
  BY SMT, <1>1, ListFits, CountsAssumption DEF IInv, TypeOK
<1>3. Len(q) = 0 \/ done + Len(q) <= n \/ (done = COMPLETE_ALL /\ deferred > 0)
  BY DEF Counted
<1>4. Len(q') = 0 \/ done' + Len(q') <= n \/ (done' = COMPLETE_ALL /\ deferred' > 0) => Counted'
  BY DEF Counted
<1>5. q' = q /\ done' = done /\ deferred' = deferred => Counted'
  BY <1>3, <1>4
<1>6. done' = 0 => Counted'
  BY SMT, <1>2, <1>4
<1>7. TakeToken /\ done # 0 /\ q' = q /\ deferred' = deferred => Counted'
  <2> SUFFICES ASSUME done' = (IF done = COMPLETE_ALL THEN done ELSE done - 1), done # 0, q' = q,
                      deferred' = deferred
               PROVE  Counted'
    BY DEF TakeToken
  <2>1. CASE Len(q) = 0
    BY <2>1, <1>4
  <2>2. CASE done + Len(q) <= n
    <3>1. done' + Len(q) <= n
      BY Zenon, <2>2, <1>2, Sums
    <3> QED BY <3>1, <1>4
  <2>3. CASE done = COMPLETE_ALL /\ deferred > 0
    BY <2>3, <1>4
  <2> QED BY <2>1, <2>2, <2>3, <1>3
<1>8. WakeAll("token") => Counted'
  <2>1. WakeAll("token") => q' = <<>>
    BY <1>1 DEF WakeAll
  <2> QED BY SMT, <2>1, <1>4
<1>9. ASSUME NEW t \in Tasks, DropRegistration(t) PROVE Counted'
  <2>1. done' = done /\ deferred' = deferred
    BY <1>9 DEF DropRegistration
  <2>2. q' = q \/ (In(q, t) /\ q' = Without(q, t))
    BY <1>1, <1>9 DEF DropRegistration, Linked, IInv, TypeOK
  <2>3. In(q, t) => Len(Without(q, t)) = Len(q) - 1
    BY <1>1, WithoutList
  <2> QED BY SMT, <1>2, <1>3, <1>4, <2>1, <2>2, <2>3
<1>10. ASSUME Complete PROVE Counted'
  <2>1. deferred' = deferred /\ done' = IF done = COMPLETE_ALL THEN done ELSE done + 1
    BY <1>10 DEF Complete
  <2>2. (q = <<>> /\ q' = q) \/ (q # <<>> /\ q' = Tail(q))
    BY <1>1, <1>10 DEF Complete, WakeOne
  <2>3. q = <<>> => Len(q) = 0
    BY SMT
  <2>4. q # <<>> => Len(Tail(q)) = Len(q) - 1
    BY SMT, <1>1
  <2>5. CASE q = <<>> /\ q' = q
    BY <2>3, <2>5, <1>4
  <2>6. CASE q # <<>> /\ q' = Tail(q)
    <3>1. Len(q') = Len(q) - 1
      BY <2>4, <2>6
    <3>2. CASE Len(q) = 0
      BY SMT, <3>1, <3>2, <1>2
    <3>3. CASE done + Len(q) <= n
      <4>1. done' + Len(q') <= n
        BY Zenon, <3>1, <3>3, <2>1, <1>2, Sums
      <4> QED BY <4>1, <1>4
    <3>4. CASE done = COMPLETE_ALL /\ deferred > 0
      BY <3>4, <2>1, <1>4
    <3> QED BY <3>2, <3>3, <3>4, <1>3
  <2> QED BY <2>2, <2>5, <2>6
<1>11. ASSUME CompleteAllDeferWake PROVE Counted'
  <2>1. done' = COMPLETE_ALL /\ deferred' > 0
    BY SMT, <1>2, <1>11 DEF CompleteAllDeferWake
  <2> QED BY <1>4, <2>1
<1>12. ASSUME NEW t \in Tasks, CheckToken(t) PROVE Counted'
  <2>1. CASE done # 0 /\ TakeToken /\ waiters' = waiters
    BY <2>1, <1>7, <1>12 DEF CheckToken
  <2>2. CASE done = 0 /\ done' = done
    BY <2>2, <1>6
  <2> QED BY <2>1, <2>2, <1>12 DEF CheckToken
<1>13. ASSUME NEW t \in Tasks, Enrol(t) PROVE Counted'
  BY <1>1, <1>5, <1>13 DEF Enrol
<1>14. ASSUME NotifyAll PROVE Counted'
  BY <1>1, <1>5, <1>14 DEF NotifyAll, WakeAll
<1>15. ASSUME NEW t \in Tasks, TestReady(t) \/ ParkTask(t) \/ Disturb(t) \/ \E s \in Sources : Wait(t, s)
       PROVE  Counted'
  BY <1>5, <1>15 DEF TestReady, ParkTask, Disturb, Wait
<1>16. TryWait => Counted'
  BY <1>7 DEF TryWait
<1>17. Publish \/ Withdraw \/ UNCHANGED vars => Counted'
  BY <1>5 DEF Publish, Withdraw, vars
<1>18. CompleteAll \/ DeferredWake \/ Reinit => Counted'
  BY <1>6, <1>8 DEF CompleteAll, DeferredWake, Reinit
<1> QED BY <1>9, <1>10, <1>11, <1>12, <1>13, <1>14, <1>15, <1>16, <1>17, <1>18 DEF Next, TaskStep

-----------------------------------------------------------------------------
LEMMA InitInvariant == Init => IInv /\ Counted
<1> SUFFICES ASSUME Init PROVE IInv /\ Counted
  OBVIOUS
<1>1. <<>> \in Seq(Tasks) /\ Distinct(<<>>) /\ \A y : ~In(<<>>, y)
  BY SMT DEF Distinct, In
<1>2. TypeOK
  <2>1. done \in 0..COMPLETE_ALL /\ deferred \in 0..MaxDeferred
    BY SMT, CountsAssumption DEF Init
  <2>2. waiters \in [Sources -> Seq(Tasks)] /\ source \in [Tasks -> Sources]
    BY <1>1 DEF Init, Sources
  <2>3. pc \in [Tasks -> PCs]
    BY DEF Init, PCs
  <2>4. latch \in [Tasks -> BOOLEAN] /\ ready \in BOOLEAN /\ notifyDue \in BOOLEAN
    BY DEF Init
  <2> QED BY <2>1, <2>2, <2>3, <2>4 DEF TypeOK
<1>3. NodesLive
  BY <1>1 DEF Init, NodesLive, Sources, Linked
<1>4. Loops /\ Registered /\ Broadcasts
  BY CountsAssumption DEF Init, Loops, Registered, Broadcasts, Awake
<1>5. Counted
  <2>1. waiters["token"] = <<>>
    BY DEF Init, Sources
  <2> QED BY SMT, <2>1 DEF Counted
<1> QED BY <1>2, <1>3, <1>4, <1>5 DEF IInv

LEMMA NextInvariant == IInv /\ Counted /\ [Next]_vars => IInv' /\ Counted'
<1> SUFFICES ASSUME IInv, Counted, [Next]_vars PROVE IInv'
  BY CountedStep
<1>1. ASSUME NEW t \in Tasks, TaskStep(t) PROVE IInv'
  BY <1>1, CheckTokenStep, EnrolStep, TestReadyStep, ParkTaskStep, DropRegistrationStep
  DEF TaskStep
<1>2. ASSUME NEW t \in Tasks, Disturb(t) PROVE IInv'
  BY <1>2, DisturbStep
<1>3. ASSUME NEW t \in Tasks, NEW s \in Sources, Wait(t, s) PROVE IInv'
  BY <1>3, WaitStep
<1>4. CASE TryWait \/ CompleteAllDeferWake \/ Reinit \/ Publish \/ Withdraw
  BY <1>4, OtherStep
<1>5. CASE Complete
  BY <1>5, CompleteStep
<1>6. CASE CompleteAll
  BY <1>6, CompleteAllStep
<1>7. CASE DeferredWake
  BY <1>7, DeferredWakeStep
<1>8. CASE NotifyAll
  BY <1>8, NotifyAllStep
<1>9. CASE UNCHANGED vars
  BY <1>9, Zenon DEF vars, IInv, TypeOK, NodesLive, Loops, Registered, Broadcasts, Awake, Waiting, Linked
<1> QED BY <1>1, <1>2, <1>3, <1>4, <1>5, <1>6, <1>7, <1>8, <1>9 DEF Next

(* The invariant in every reachable state, from which the theorems follow. *)
LEMMA Invariant == Spec => []IInv
<1>1. Init => IInv /\ Counted
  BY InitInvariant
<1>2. IInv /\ Counted /\ [Next]_vars => IInv' /\ Counted'
  BY NextInvariant
<1> QED BY <1>1, <1>2, PTL DEF Spec

(* For any number of tasks: every value stays in its range, the count in a    *)
(* usize however often complete is called.                                    *)
THEOREM CountsInRange == Spec => []TypeOK
<1>1. IInv => TypeOK
  BY DEF IInv
<1> QED BY <1>1, Invariant, PTL

(* For any number of waiting tasks, any of them woken spuriously at any time: *)
(* a node is in a list only during a wait on that list's source, so wake_one  *)
(* never reaches a stack frame that is gone.                                  *)
THEOREM NodesNeverDangle == Spec => []NodesLive
<1>1. IInv => NodesLive
  BY DEF IInv
<1> QED BY <1>1, Invariant, PTL

(* A sleeper is always in the list of its source, and a task about to sleep   *)
(* is there or has its latch set: park_task cannot miss a notification.       *)
THEOREM NotificationsFindSleepers == Spec => []SleeperRegistered
<1>1. IInv => SleeperRegistered
  BY DEF IInv, Registered, SleeperRegistered, Linked, In
<1> QED BY <1>1, Invariant, PTL

(* After complete_all, the last deferred wake of it, or a complete that       *)
(* saturates the count, nobody sleeps on the completion.                      *)
THEOREM BroadcastsReachAll == Spec => []StickyReachesAll
<1>1. IInv => StickyReachesAll
  BY DEF IInv, Broadcasts, Awake, StickyReachesAll, Waiting
<1> QED BY <1>1, Invariant, PTL

(* After notify_all for a true predicate, nobody sleeps in wait_until.        *)
THEOREM PredicatesAreSeen == Spec => []PredicateSeen
<1>1. IInv => PredicateSeen
  BY DEF IInv, Broadcasts, Awake, PredicateSeen, Waiting
<1> QED BY <1>1, Invariant, PTL
=============================================================================
