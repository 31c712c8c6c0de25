------------------------- MODULE CeleryWorkerProofs -------------------------
(***************************************************************************)
(* Proofs about CeleryWorker, for any sets of tasks and workers, any time  *)
(* limits and any number of messages.  AgeInv is what makes the promise of *)
(* the sweep inductive: a row that says "running" was written after the    *)
(* run of every worker that executes its task began, whichever of them     *)
(* wrote it last; so it is never older than such a run may get.            *)
(***************************************************************************)
EXTENDS CeleryWorker, TLAPS

AgeInv ==
    \A w \in Workers, t \in Tasks :
        Executing(w, t) /\ row[t] = "running" => age[t] <= worker[w].age

-----------------------------------------------------------------------------
(* Types.                                                                  *)

\* The limits are numbers, and so is the age from which a row is stale.
LEMMA LimitsAreNat ==
    /\ TimeLimit \in Nat /\ Margin \in Nat /\ StaleAge \in Nat
    /\ TimeLimit <= StaleAge
    /\ None \notin Tasks
    /\ Ends \subseteq Outcomes
  BY CeleryAssumption DEF CeleryAssumption, StaleAge, Outcomes, Statuses

RunShape == [pc : Positions, task : Tasks \cup {None}, age : 0..TimeLimit,
             out : Outcomes, warned : BOOLEAN]
Busy == \A w \in Workers : worker[w].pc # "idle" => worker[w].task \in Tasks

\* An idle worker has the shape of a run.
LEMMA IdleHasShape == Idle \in RunShape
  BY LimitsAreNat DEF Idle, RunShape, Positions, Outcomes, Statuses

\* TypeOK in the parts that the steps below keep one by one.
RowType == row \in [Tasks -> Statuses]
AgeType == age \in [Tasks -> 0..StaleAge + 1]
BrokerType == /\ inserted \subseteq Tasks
              /\ queued \in [Tasks -> Nat]
              /\ unacked \in [Tasks -> Nat]
WorkerType == worker \in [Workers -> RunShape]

\* TypeOK is the conjunction of these parts.
LEMMA TypeParts == TypeOK <=> RowType /\ AgeType /\ BrokerType /\ WorkerType /\ Busy
  BY DEF TypeOK, RowType, AgeType, BrokerType, WorkerType, RunShape, Busy

\* update_task keeps the types.
LEMMA UpdateKeepsType ==
    ASSUME RowType, AgeType, NEW t \in Tasks, NEW status \in Statuses, UpdateTask(t, status)
    PROVE  RowType' /\ AgeType'
  BY LimitsAreNat DEF UpdateTask, RowType, AgeType

\* A worker that moves on, and one that becomes idle
LEMMA SetKeepsType ==
    ASSUME WorkerType, Busy, NEW w \in Workers, NEW r \in RunShape,
           r.pc # "idle" => r.task \in Tasks,
           worker' = [worker EXCEPT ![w] = r]
    PROVE  WorkerType' /\ Busy'
  BY DEF WorkerType, Busy

\* So does a worker that only changes its position.
LEMMA GotoKeepsType ==
    ASSUME WorkerType, Busy, NEW w \in Workers, worker[w].pc # "idle",
           NEW x \in Positions, Goto(w, x)
    PROVE  WorkerType' /\ Busy'
<1> DEFINE r == [worker[w] EXCEPT !.pc = x]
<1>1. r \in RunShape /\ r.task = worker[w].task
  BY DEF WorkerType, RunShape
<1>2. worker' = [worker EXCEPT ![w] = r]
  BY DEF Goto
<1> QED
  BY <1>1, <1>2, SetKeepsType DEF Busy

\* The stale sweep keeps the types of the rows.
LEMMA SweepKeepsType ==
    ASSUME RowType, AgeType, SweepRows PROVE RowType' /\ AgeType'
<1>1. 0 \in 0..StaleAge + 1 /\ "failed" \in Statuses
  BY LimitsAreNat DEF Statuses
<1> QED
  BY <1>1 DEF SweepRows, RowType, AgeType

\* The initial state is well typed.
LEMMA TypeInit == Init => TypeOK
<1> SUFFICES ASSUME Init PROVE TypeOK
  OBVIOUS
<1>1. RowType /\ AgeType /\ BrokerType
  BY LimitsAreNat DEF Init, RowType, AgeType, BrokerType, Statuses
<1>2. WorkerType /\ Busy
  BY IdleHasShape DEF Init, WorkerType, Busy, Idle
<1> QED
  BY <1>1, <1>2, TypeParts

\* Every step keeps TypeOK.
LEMMA TypeStep == TypeOK /\ [Next]_vars => TypeOK'
<1> SUFFICES ASSUME TypeOK, [Next]_vars PROVE TypeOK'
  OBVIOUS
<1>0. RowType /\ AgeType /\ BrokerType /\ WorkerType /\ Busy
  BY TypeParts
<1>00. SUFFICES RowType' /\ AgeType' /\ BrokerType' /\ WorkerType' /\ Busy'
  BY TypeParts DEF TypeOK, RowType, AgeType, BrokerType, WorkerType, RunShape, Busy
<1> DEFINE Good == RowType' /\ AgeType' /\ BrokerType' /\ WorkerType' /\ Busy'
<1>1. ASSUME NEW t \in Tasks, CreateInsert(t) PROVE Good
  BY <1>0, <1>1, LimitsAreNat DEF CreateInsert, RowType, AgeType, BrokerType, Statuses,
     WorkerType, Busy
<1>2. ASSUME NEW t \in Tasks, CreateDispatch(t) PROVE Good
  BY <1>0, <1>2 DEF CreateDispatch, Send, RowType, AgeType, BrokerType, WorkerType, Busy
<1>3. ASSUME NEW t \in Tasks, ResumeDispatch(t) PROVE Good
  BY <1>0, <1>3 DEF ResumeDispatch, Send, RowType, AgeType, BrokerType, WorkerType, Busy
<1>4. ASSUME NEW t \in Tasks, CancelRow(t) PROVE Good
  <2>1. "canceled" \in Statuses
    BY DEF Statuses
  <2> QED
    BY <1>0, <1>4, <2>1, UpdateKeepsType DEF CancelRow, broker, BrokerType, WorkerType, Busy
<1>5. ASSUME NEW t \in Tasks, DeleteRow(t) PROVE Good
  BY <1>0, <1>5 DEF DeleteRow, broker, RowType, AgeType, BrokerType, Statuses, WorkerType, Busy
<1>6. ASSUME NEW t \in Tasks, Redeliver(t) PROVE Good
  BY <1>0, <1>6 DEF Redeliver, RowType, AgeType, BrokerType, WorkerType, Busy
<1>7. ASSUME NEW w \in Workers, NEW t \in Tasks, Deliver(w, t) PROVE Good
  <2> DEFINE r == [Idle EXCEPT !.pc = "sweeping", !.task = t]
  <2>1. r \in RunShape /\ r.task \in Tasks
    BY IdleHasShape DEF RunShape, Positions
  <2>2. WorkerType' /\ Busy'
    BY <1>0, <1>7, <2>1, SetKeepsType DEF Deliver
  <2> QED
    BY <1>0, <1>7, <2>2 DEF Deliver, RowType, AgeType, BrokerType
<1>8. ASSUME NEW w \in Workers, Sweep(w) PROVE Good
  <2>1. WorkerType' /\ Busy'
    BY <1>0, <1>8, GotoKeepsType DEF Sweep, Positions
  <2>2. RowType' /\ AgeType'
    BY <1>0, <1>8, SweepKeepsType DEF Sweep, RowType, AgeType
  <2> QED
    BY <1>0, <1>8, <2>1, <2>2 DEF Sweep, broker, BrokerType
<1>9. ASSUME NEW w \in Workers, SweepForOther(w) PROVE Good
  BY <1>0, <1>9, SweepKeepsType DEF SweepForOther, broker, BrokerType, WorkerType, Busy
<1>10. ASSUME NEW w \in Workers, MarkRunning(w) PROVE Good
  <2>1. WorkerType' /\ Busy'
    BY <1>0, <1>10, GotoKeepsType DEF MarkRunning, Positions
  <2>2. Task(w) \in Tasks /\ "running" \in Statuses
    BY <1>0, <1>10 DEF MarkRunning, Task, Busy, Statuses
  <2>3. RowType' /\ AgeType'
    BY <1>0, <1>10, <2>2, UpdateKeepsType DEF MarkRunning
  <2> QED
    BY <1>0, <1>10, <2>1, <2>3 DEF MarkRunning, broker, BrokerType
<1>11. ASSUME NEW w \in Workers, EngineEnds(w) PROVE Good
  <2>1. PICK out \in Outcomes :
          worker' = [worker EXCEPT ![w].pc = "writing", ![w].out = out]
    BY <1>11, LimitsAreNat DEF EngineEnds, Outcomes, Statuses
  <2> DEFINE r == [worker[w] EXCEPT !.pc = "writing", !.out = out]
  <2>2. r \in RunShape /\ r.task = worker[w].task
    BY <1>0 DEF WorkerType, RunShape, Positions
  <2>3. worker' = [worker EXCEPT ![w] = r]
    BY <2>1
  <2>4. WorkerType' /\ Busy'
    BY <1>0, <1>11, <2>2, <2>3, SetKeepsType DEF EngineEnds, Busy
  <2> QED
    BY <1>0, <1>11, <2>4 DEF EngineEnds, broker, RowType, AgeType, BrokerType
<1>12. ASSUME NEW w \in Workers, WriteBack(w) PROVE Good
  <2>1. WorkerType' /\ Busy'
    BY <1>0, <1>12, GotoKeepsType DEF WriteBack, Positions
  <2>2. Task(w) \in Tasks /\ worker[w].out \in Statuses
    BY <1>0, <1>12 DEF WriteBack, Task, Busy, WorkerType, RunShape, Outcomes
  <2>3. RowType' /\ AgeType'
    BY <1>0, <1>12, <2>2, UpdateKeepsType DEF WriteBack
  <2> QED
    BY <1>0, <1>12, <2>1, <2>3 DEF WriteBack, broker, BrokerType
<1>13. ASSUME NEW w \in Workers, Ack(w) PROVE Good
  <2>1. WorkerType' /\ Busy'
    BY <1>0, <1>13, IdleHasShape, SetKeepsType DEF Ack, Idle
  <2> QED
    BY <1>0, <1>13, <2>1 DEF Ack, broker, RowType, AgeType, BrokerType
<1>14. ASSUME NEW w \in Workers, SoftTimeLimit(w) PROVE Good
  <2> DEFINE a == [worker[w] EXCEPT !.warned = TRUE]
             b == [worker[w] EXCEPT !.warned = TRUE, !.pc = "writing", !.out = "failed"]
             c == [worker[w] EXCEPT !.warned = TRUE, !.pc = "acking"]
  <2>1. {a, b, c} \subseteq RunShape
    BY <1>0 DEF WorkerType, RunShape, Positions, Outcomes, Statuses
  <2>2. \A r \in {a, b, c} : r.task = worker[w].task
    BY <1>0 DEF WorkerType, RunShape
  <2>3. \E r \in {a, b, c} : worker' = [worker EXCEPT ![w] = r]
    BY <1>14 DEF SoftTimeLimit
  <2>4. worker[w].task \in Tasks
    BY <1>0, <1>14 DEF SoftTimeLimit, Busy
  <2>5. WorkerType' /\ Busy'
    <3> HIDE DEF a, b, c
    <3> QED
      BY <1>0, <2>1, <2>2, <2>3, <2>4, SetKeepsType
  <2> QED
    BY <1>0, <1>14, <2>5 DEF SoftTimeLimit, broker, RowType, AgeType, BrokerType
<1>15. ASSUME NEW w \in Workers, ProcessLost(w) PROVE Good
  <2>1. WorkerType' /\ Busy'
    BY <1>0, <1>15, IdleHasShape, SetKeepsType DEF ProcessLost, Idle
  <2> QED
    BY <1>0, <1>15, <2>1 DEF ProcessLost, broker, RowType, AgeType, BrokerType
<1>16. ASSUME NEW w \in Workers, HostLost(w) PROVE Good
  <2>1. WorkerType' /\ Busy'
    BY <1>0, <1>16, IdleHasShape, SetKeepsType DEF HostLost, Idle
  <2> QED
    BY <1>0, <1>16, <2>1 DEF HostLost, Task, Busy, RowType, AgeType, BrokerType
<1>17. ASSUME Tick PROVE Good
  <2>1. AgeType'
    BY <1>0, <1>17, LimitsAreNat DEF Tick, AgeType
  <2>2. ASSUME NEW w \in Workers
        PROVE  worker'[w] \in RunShape /\ (worker'[w].pc # "idle" => worker'[w].task \in Tasks)
    BY <1>0, <1>17, LimitsAreNat DEF Tick, WorkerType, RunShape, Busy
  <2>3. WorkerType' /\ Busy'
    BY <1>17, <2>2 DEF Tick, WorkerType, Busy
  <2> QED
    BY <1>0, <1>17, <2>1, <2>3 DEF Tick, broker, RowType, BrokerType
<1>18. ASSUME UNCHANGED vars PROVE Good
  BY <1>0, <1>18 DEF vars, broker, RowType, AgeType, BrokerType, WorkerType, Busy
<1> QED
  BY <1>1, <1>2, <1>3, <1>4, <1>5, <1>6, <1>7, <1>8, <1>9, <1>10, <1>11, <1>12, <1>13, <1>14, <1>15, <1>16, <1>17, <1>18 DEF Next, Run

-----------------------------------------------------------------------------
(* Ages.                                                                   *)

\* Nobody executes anything at the beginning.
LEMMA AgeInit == Init => AgeInv
  BY DEF Init, AgeInv, Executing, Idle

\* update_task with a status that is not "running", or of a row just written
LEMMA UpdateEffect ==
    ASSUME TypeOK, NEW t \in Tasks, NEW status, UpdateTask(t, status)
    PROVE  \A u \in Tasks :
             row'[u] = "running" =>
               \/ u = t /\ status = "running" /\ age'[u] = 0
               \/ row[u] = "running" /\ age'[u] = age[u] /\ (u # t)
  BY DEF UpdateTask, TypeOK

\* The sweep only takes "running" away.
LEMMA SweepEffect ==
    ASSUME TypeOK, SweepRows
    PROVE  \A u \in Tasks :
             row'[u] = "running" => row[u] = "running" /\ age'[u] = age[u]
  BY DEF SweepRows, TypeOK

\* Every step keeps AgeInv.
LEMMA AgeStep == TypeOK /\ AgeInv /\ [Next]_vars => AgeInv'
<1> SUFFICES ASSUME TypeOK, AgeInv, [Next]_vars PROVE AgeInv'
  OBVIOUS
<1>0. WorkerType /\ Busy
  BY TypeParts
<1>1. ASSUME NEW t \in Tasks, CreateInsert(t) PROVE AgeInv'
  BY <1>1 DEF CreateInsert, TypeOK, AgeInv, Executing
<1>2. ASSUME NEW t \in Tasks, CreateDispatch(t) PROVE AgeInv'
  BY <1>2 DEF CreateDispatch, AgeInv, Executing
<1>3. ASSUME NEW t \in Tasks, ResumeDispatch(t) PROVE AgeInv'
  BY <1>3 DEF ResumeDispatch, AgeInv, Executing
<1>4. ASSUME NEW t \in Tasks, CancelRow(t) PROVE AgeInv'
  BY <1>4, UpdateEffect DEF CancelRow, AgeInv, Executing
<1>5. ASSUME NEW t \in Tasks, DeleteRow(t) PROVE AgeInv'
  BY <1>5 DEF DeleteRow, TypeOK, AgeInv, Executing
<1>6. ASSUME NEW t \in Tasks, Redeliver(t) PROVE AgeInv'
  BY <1>6 DEF Redeliver, AgeInv, Executing
<1>7. ASSUME NEW w \in Workers, NEW t \in Tasks, Deliver(w, t) PROVE AgeInv'
  BY <1>0, <1>7 DEF Deliver, Idle, WorkerType, RunShape, AgeInv, Executing
<1>8. ASSUME NEW w \in Workers, Sweep(w) PROVE AgeInv'
  <2>1. \A u \in Tasks : row'[u] = "running" => row[u] = "running" /\ age'[u] = age[u]
    BY <1>8, SweepEffect DEF Sweep
  <2> QED
    BY <1>0, <1>8, <2>1 DEF Sweep, Goto, WorkerType, RunShape, AgeInv, Executing
<1>9. ASSUME NEW w \in Workers, SweepForOther(w) PROVE AgeInv'
  BY <1>9, SweepEffect DEF SweepForOther, AgeInv, Executing
<1>10. ASSUME NEW w \in Workers, MarkRunning(w) PROVE AgeInv'
  <2>1. Task(w) \in Tasks
    BY <1>0, <1>10 DEF MarkRunning, Task, Busy
  <2>2. \A u \in Tasks : row'[u] = "running" =>
          \/ u = Task(w) /\ age'[u] = 0
          \/ row[u] = "running" /\ age'[u] = age[u] /\ u # Task(w)
    BY <1>10, <2>1, UpdateEffect DEF MarkRunning
  <2> SUFFICES ASSUME NEW v \in Workers, NEW u \in Tasks, Executing(v, u)',
                      row'[u] = "running"
               PROVE  age'[u] <= worker'[v].age
    BY DEF AgeInv
  <2>3. worker'[v].age = worker[v].age /\ worker[v].age \in Nat
    BY <1>0, <1>10, LimitsAreNat DEF MarkRunning, Goto, WorkerType, RunShape
  <2>4. CASE v = w
    <3>1. u = Task(w)
      BY <1>0, <1>10, <2>4 DEF MarkRunning, Goto, Task, Executing, WorkerType, RunShape
    <3> QED
      BY <2>2, <2>3, <3>1
  <2>5. CASE v # w
    <3>1. Executing(v, u)
      BY <1>0, <1>10, <2>5 DEF MarkRunning, Goto, Executing, WorkerType, RunShape
    <3> QED
      BY <2>2, <2>3, <3>1 DEF AgeInv
  <2> QED
    BY <2>4, <2>5
<1>11. ASSUME NEW w \in Workers, EngineEnds(w) PROVE AgeInv'
  <2> SUFFICES ASSUME NEW v \in Workers, NEW u \in Tasks, Executing(v, u)',
                      row'[u] = "running"
               PROVE  age'[u] <= worker'[v].age
    BY DEF AgeInv
  <2>1. PICK out : worker' = [worker EXCEPT ![w].pc = "writing", ![w].out = out]
    BY <1>11 DEF EngineEnds
  <2>2. worker'[v].age = worker[v].age /\ worker'[v].task = worker[v].task
    BY <1>0, <2>1 DEF WorkerType, RunShape
  <2>3. Executing(v, u)
    BY <1>0, <1>11, <2>1, <2>2 DEF EngineEnds, Executing, WorkerType, RunShape
  <2> QED
    BY <1>11, <2>2, <2>3 DEF EngineEnds, AgeInv
<1>12. ASSUME NEW w \in Workers, WriteBack(w) PROVE AgeInv'
  <2>1. Task(w) \in Tasks /\ worker[w].out # "running"
    BY <1>0, <1>12 DEF WriteBack, Task, Busy, WorkerType, RunShape, Outcomes
  <2>2. \A u \in Tasks : row'[u] = "running" => row[u] = "running" /\ age'[u] = age[u]
    BY <1>12, <2>1, UpdateEffect DEF WriteBack
  <2> QED
    BY <1>0, <1>12, <2>2 DEF WriteBack, Goto, WorkerType, RunShape, AgeInv, Executing
<1>13. ASSUME NEW w \in Workers, Ack(w) PROVE AgeInv'
  BY <1>0, <1>13 DEF Ack, Idle, WorkerType, AgeInv, Executing
<1>14. ASSUME NEW w \in Workers, ProcessLost(w) PROVE AgeInv'
  BY <1>0, <1>14 DEF ProcessLost, Idle, WorkerType, AgeInv, Executing
<1>15. ASSUME NEW w \in Workers, HostLost(w) PROVE AgeInv'
  BY <1>0, <1>15 DEF HostLost, Idle, WorkerType, AgeInv, Executing
<1>16. ASSUME NEW w \in Workers, SoftTimeLimit(w) PROVE AgeInv'
  <2> DEFINE a == [worker[w] EXCEPT !.warned = TRUE]
             b == [worker[w] EXCEPT !.warned = TRUE, !.pc = "writing", !.out = "failed"]
             c == [worker[w] EXCEPT !.warned = TRUE, !.pc = "acking"]
  <2>1. /\ a.pc = worker[w].pc /\ b.pc = "writing" /\ c.pc = "acking"
        /\ \A r \in {a, b, c} : r.task = worker[w].task /\ r.age = worker[w].age
    BY <1>0 DEF WorkerType, RunShape
  <2>2. \/ worker' = [worker EXCEPT ![w] = a]
        \/ worker' = [worker EXCEPT ![w] = b] /\ worker[w].pc \in {"engine", "writing"}
        \/ worker' = [worker EXCEPT ![w] = c]
    BY <1>16 DEF SoftTimeLimit
  <2> QED
    <3> HIDE DEF a, b, c
    <3> QED
      BY <1>0, <1>16, <2>1, <2>2 DEF SoftTimeLimit, WorkerType, AgeInv, Executing
<1>17. ASSUME Tick PROVE AgeInv'
  <2>1. \A v \in Workers, u \in Tasks :
          /\ worker'[v].pc = worker[v].pc /\ worker'[v].task = worker[v].task
          /\ worker[v].pc # "idle" => worker'[v].age = worker[v].age + 1
          /\ age'[u] <= age[u] + 1
          /\ worker[v].age \in Nat /\ age[u] \in Nat /\ age'[u] \in Nat
    BY <1>0, <1>17, LimitsAreNat DEF Tick, TypeOK, WorkerType, RunShape
  <2> QED
    BY <1>17, <2>1 DEF Tick, AgeInv, Executing
<1>18. ASSUME UNCHANGED vars PROVE AgeInv'
  BY <1>18 DEF vars, AgeInv, Executing
<1> QED
  BY <1>1, <1>2, <1>3, <1>4, <1>5, <1>6, <1>7, <1>8, <1>9, <1>10, <1>11, <1>12, <1>13,
     <1>14, <1>15, <1>16, <1>17, <1>18 DEF Next, Run

-----------------------------------------------------------------------------
(* The theorems.                                                           *)

\* Every reachable state is well typed; in particular no run gets older than the
\* hard time limit, and a worker that is not idle has a task.
THEOREM TypeCorrect == Spec => []TypeOK
  BY TypeInit, TypeStep, PTL DEF Spec

\* AgeInv is an invariant.
LEMMA AgesAgree == Spec => []AgeInv
  BY TypeCorrect, AgeInit, AgeStep, PTL DEF Spec

\* fail_stale_active_tasks: no sweep of any worker fails a task that some worker is
\* executing, for any time limit, any number of workers and messages, and whatever
\* is redelivered, repeated, canceled or lost.
THEOREM SweepIsSafe == Spec => []SweepSparesExecuting
<1>1. TypeOK /\ AgeInv => SweepSparesExecuting
  <2> SUFFICES ASSUME TypeOK, AgeInv, NEW w \in Workers, NEW t \in Tasks, Executing(w, t),
                      row[t] = "running"
               PROVE  ~(age[t] > StaleAge)
    BY DEF SweepSparesExecuting, Stale
  <2>1. age[t] <= worker[w].age
    BY DEF AgeInv
  <2>2. worker[w].age \in 0..TimeLimit /\ age[t] \in Nat
    BY LimitsAreNat DEF TypeOK
  <2> QED
    BY <2>1, <2>2, LimitsAreNat
<1> QED
  BY <1>1, TypeCorrect, AgesAgree, PTL
=============================================================================
