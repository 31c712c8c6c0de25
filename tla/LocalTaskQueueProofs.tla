------------------------ MODULE LocalTaskQueueProofs ------------------------
(***************************************************************************)
(* Proofs about LocalTaskQueue, for any number of tasks, coroutines,       *)
(* requests, slots and restarts.                                           *)
(***************************************************************************)
EXTENDS LocalTaskQueue, TLAPS

\* The parts of the type invariant, strengthened: a coroutine that exists and a
\* request in progress belong to a task, and a coroutine that writes back has
\* an outcome to write.
DataTyped ==
    /\ row \in [Tasks -> Statuses \cup {"absent"}]
    /\ ckpt \in [Tasks -> Checkpoints]
    /\ issued \subseteq Tasks
    /\ queue \in Seq(Tasks)
    /\ canceled \subseteq Tasks
    /\ proc \in {"up", "draining", "down"}
    /\ starts \in Nat
    /\ orphaned \subseteq Tasks
HandleTyped == handle \in [Tasks -> Coros \cup {None}]
CoTyped ==
    /\ co \in [Coros -> Coroutine]
    /\ \A c \in Coros : co[c].pc # "free" => co[c].task \in Tasks
    /\ \A c \in Coros : co[c].pc = "writing" => co[c].out # "none"
ReqTyped ==
    /\ req \in [Reqs -> Request]
    /\ \A r \in Reqs : req[r].pc # "idle" => req[r].task \in Tasks
TypeInv == DataTyped /\ HandleTyped /\ CoTyped /\ ReqTyped

LEMMA TypeInvTypeOK == TypeInv => TypeOK
BY DEF TypeInv, DataTyped, HandleTyped, CoTyped, ReqTyped, TypeOK

-----------------------------------------------------------------------------
(* What the steps of the module do to co, handle and req.                  *)

\* A fresh coroutine record is well typed.
LEMMA CoroAtType ==
    ASSUME NEW p \in CoroPCs, NEW t \in Tasks \cup {None}, NEW k \in Kinds
    PROVE  /\ CoroAt(p, t, k) \in Coroutine
           /\ CoroAt(p, t, k).pc = p
           /\ CoroAt(p, t, k).task = t
BY DEF CoroAt, Coroutine, Outcomes

LEMMA NoCoroType == NoCoro \in Coroutine /\ NoCoro.pc = "free"
BY CoroAtType DEF NoCoro, CoroPCs, Kinds

LEMMA NoReqType == NoReq \in Request /\ NoReq.pc = "idle"
BY DEF NoReq, Request

\* A coroutine that moves keeps its type and its task.
LEMMA GotoTypes ==
    ASSUME CoTyped, NEW c \in Coros, co[c].pc # "free",
           NEW p \in CoroPCs, p # "writing", Goto(c, p)
    PROVE  CoTyped'
<1>1. [co[c] EXCEPT !.pc = p] \in Coroutine
  BY DEF CoTyped, Coroutine
<1>2. [co[c] EXCEPT !.pc = p].task = co[c].task /\ [co[c] EXCEPT !.pc = p].pc = p
  BY DEF CoTyped, Coroutine
<1>3. co' = [co EXCEPT ![c] = [co[c] EXCEPT !.pc = p]]
  BY DEF Goto
<1> QED BY <1>1, <1>2, <1>3, Zenon DEF CoTyped

\* So does one that leaves the engine with an outcome, ...
LEMMA LeaveTypes ==
    ASSUME CoTyped, NEW c \in Coros, co[c].pc # "free",
           NEW o \in Outcomes \cup {"waiting_approval", "raised"}, Leave(c, o)
    PROVE  CoTyped'
<1> DEFINE new == [[co[c] EXCEPT !.pc = "writing"] EXCEPT !.out = o]
<1>1. new \in Coroutine
  BY DEF CoTyped, Coroutine, CoroPCs
<1>2. new.task = co[c].task /\ new.out = o /\ o # "none"
  BY DEF CoTyped, Coroutine, Outcomes
<1>3. co' = [co EXCEPT ![c] = new]
  BY DEF Leave, CoTyped
<1> QED BY <1>1, <1>2, <1>3, Zenon DEF CoTyped

\* ... and one that is done.
LEMMA FinishTypes ==
    ASSUME CoTyped, NEW c \in Coros, co[c].pc # "free", Finish(c)
    PROVE  CoTyped'
BY CoroAtType DEF CoTyped, Finish, CoroPCs, Kinds

\* A registration by _spawn keeps handle and co well typed.
LEMMA SpawnTypes ==
    ASSUME HandleTyped, CoTyped, NEW t \in Tasks, NEW k \in Kinds, Spawn(t, k)
    PROVE  HandleTyped' /\ CoTyped'
<1>1. CASE UNCHANGED <<handle, co>>
  BY <1>1 DEF HandleTyped, CoTyped
<1>2. CASE ~UNCHANGED <<handle, co>>
  <2>1. PICK c \in Coros : /\ co' = [co EXCEPT ![c] = CoroAt("spawned", t, k)]
                           /\ handle' = [handle EXCEPT ![t] = c]
    BY <1>2, Zenon DEF Spawn
  <2>2. "spawned" \in CoroPCs /\ t \in Tasks \cup {None}
    BY DEF CoroPCs
  <2>3. CoroAt("spawned", t, k) \in Coroutine /\ CoroAt("spawned", t, k).pc = "spawned"
        /\ CoroAt("spawned", t, k).task = t
    BY <2>2, CoroAtType
  <2> QED BY <2>1, <2>3 DEF HandleTyped, CoTyped
<1> QED BY <1>1, <1>2

\* A request that ends, or moves on, keeps its type.
LEMMA ReqEnds ==
    ASSUME ReqTyped, NEW r \in Reqs, req' = [req EXCEPT ![r] = NoReq]
    PROVE  ReqTyped'
BY NoReqType DEF ReqTyped

LEMMA ReqMoves ==
    ASSUME ReqTyped, NEW r \in Reqs, req[r].pc # "idle",
           NEW p \in {"notInFlight", "rowDeleted"}, req' = [req EXCEPT ![r].pc = p]
    PROVE  ReqTyped'
BY DEF ReqTyped, Request

LEMMA ReqStarts ==
    ASSUME ReqTyped, NEW r \in Reqs, NEW t \in Tasks,
           NEW p \in {"admitted", "inserted"}, NEW op \in Ops \cup {"create"},
           req' = [req EXCEPT ![r] = [pc |-> p, op |-> op, task |-> t]]
    PROVE  ReqTyped'
BY DEF ReqTyped, Request

LEMMA UpdateTaskTypes ==
    ASSUME row \in [Tasks -> Statuses \cup {"absent"}],
           NEW t \in Tasks, NEW status \in Statuses,
           UpdateTask(t, status) \/ UpdateFails(t, status)
    PROVE  row' \in [Tasks -> Statuses \cup {"absent"}]
BY DEF UpdateTask, UpdateFails, RowsWith

-----------------------------------------------------------------------------

\* The type invariant is inductive.
LEMMA TypeInvInductive == TypeInv /\ [Next]_vars => TypeInv'
<1> SUFFICES ASSUME TypeInv, [Next]_vars PROVE TypeInv'
  OBVIOUS
<1> USE DEF TypeInv
<1>1. CASE Consume
  <2>1. Head(queue) \in Tasks /\ Tail(queue) \in Seq(Tasks)
    BY <1>1 DEF Consume, DataTyped
  <2>2. HandleTyped' /\ CoTyped'
    BY <1>1, <2>1, SpawnTypes DEF Consume, Kinds
  <2> QED BY <1>1, <2>1, <2>2 DEF Consume, DataTyped, ReqTyped
<1>2. ASSUME NEW c \in Coros, Acquire(c) PROVE TypeInv'
  <2>1. CoTyped'
    BY <1>2, GotoTypes DEF Acquire, CoroPCs
  <2> QED BY <1>2, <2>1 DEF Acquire, DataTyped, HandleTyped, ReqTyped
<1>3. ASSUME NEW c \in Coros, LoadRow(c) PROVE TypeInv'
  <2>1. CoTyped'
    BY <1>3, GotoTypes, FinishTypes DEF LoadRow, CoroPCs
  <2> QED BY <1>3, <2>1 DEF LoadRow, DataTyped, HandleTyped, ReqTyped
<1>4. ASSUME NEW c \in Coros, MarkRunning(c) PROVE TypeInv'
  <2>1. CoTyped'
    BY <1>4, GotoTypes DEF MarkRunning, CoroPCs
  <2>2. row' \in [Tasks -> Statuses \cup {"absent"}]
    BY <1>4, UpdateTaskTypes DEF MarkRunning, DataTyped, CoTyped, Statuses, Active
  <2> QED BY <1>4, <2>1, <2>2 DEF MarkRunning, DataTyped, HandleTyped, ReqTyped, UpdateTask
<1>5. ASSUME NEW c \in Coros, RunTask(c) PROVE TypeInv'
  <2>1. CoTyped'
    BY <1>5, GotoTypes DEF RunTask, CoroPCs, Outcomes
  <2>2. ckpt' \in [Tasks -> Checkpoints]
    BY <1>5 DEF RunTask, DataTyped, Checkpoints, Outcomes
  <2> QED BY <1>5, <2>1, <2>2 DEF RunTask, DataTyped, HandleTyped, ReqTyped
<1>6. ASSUME NEW c \in Coros, ResumeTask(c) PROVE TypeInv'
  <2>1. CoTyped'
    BY <1>6, GotoTypes, LeaveTypes DEF ResumeTask, CoroPCs, Outcomes
  <2>2. ckpt' \in [Tasks -> Checkpoints]
    BY <1>6 DEF ResumeTask, DataTyped, Checkpoints, Outcomes
  <2> QED BY <1>6, <2>1, <2>2 DEF ResumeTask, DataTyped, HandleTyped, ReqTyped
<1>7. ASSUME NEW c \in Coros, EngineFinish(c) PROVE TypeInv'
  <2>1. PICK o \in Outcomes : Leave(c, o) /\ ckpt' = [ckpt EXCEPT ![co[c].task] = o]
    BY <1>7, QueueAssumption DEF EngineFinish, Outcomes
  <2>2. CoTyped'
    BY <1>7, <2>1, LeaveTypes DEF EngineFinish
  <2>3. ckpt' \in [Tasks -> Checkpoints]
    BY <2>1 DEF DataTyped, Checkpoints
  <2> QED BY <1>7, <2>2, <2>3 DEF EngineFinish, DataTyped, HandleTyped, ReqTyped
<1>8. ASSUME NEW c \in Coros, EnginePause(c) PROVE TypeInv'
  <2>1. CoTyped'
    BY <1>8, LeaveTypes DEF EnginePause, CoroPCs, Outcomes
  <2>2. ckpt' \in [Tasks -> Checkpoints]
    BY <1>8 DEF EnginePause, DataTyped, Checkpoints, Outcomes
  <2> QED BY <1>8, <2>1, <2>2 DEF EnginePause, DataTyped, HandleTyped, ReqTyped
<1>9. ASSUME NEW c \in Coros, EngineRaise(c) PROVE TypeInv'
  <2>1. CoTyped'
    BY <1>9, LeaveTypes DEF EngineRaise, CoroPCs, Outcomes
  <2>2. ckpt' \in [Tasks -> Checkpoints]
    BY <1>9 DEF EngineRaise, DataTyped, Checkpoints, Outcomes
  <2> QED BY <1>9, <2>1, <2>2 DEF EngineRaise, DataTyped, HandleTyped, ReqTyped
<1>10. ASSUME NEW c \in Coros, WriteBack(c) PROVE TypeInv'
  <2>1. CoTyped'
    BY <1>10, GotoTypes DEF WriteBack, CoroPCs
  <2>2. (IF co[c].out = "raised" THEN "failed" ELSE co[c].out) \in Statuses
    BY <1>10 DEF WriteBack, CoTyped, Coroutine, Statuses, Outcomes
  <2>3. row' \in [Tasks -> Statuses \cup {"absent"}]
    BY <1>10, <2>2, UpdateTaskTypes DEF WriteBack, DataTyped, CoTyped
  <2> QED BY <1>10, <2>1, <2>3 DEF WriteBack, DataTyped, HandleTyped, ReqTyped, UpdateTask
<1>11. ASSUME NEW c \in Coros, Return(c) PROVE TypeInv'
  <2>1. CoTyped'
    BY <1>11, FinishTypes DEF Return, CoroPCs
  <2> QED BY <1>11, <2>1 DEF Return, DataTyped, HandleTyped, ReqTyped
<1>12. ASSUME NEW c \in Coros, DoneCallback(c) PROVE TypeInv'
  <2>1. CoTyped' /\ HandleTyped'
    BY <1>12, NoCoroType DEF DoneCallback, CoTyped, HandleTyped
  <2> QED BY <1>12, <2>1 DEF DoneCallback, DataTyped, ReqTyped
<1>13. ASSUME NEW c \in Coros, ForceCancel(c) PROVE TypeInv'
  <2>1. CoTyped'
    BY <1>13, FinishTypes DEF ForceCancel, Live
  <2>2. co[c].task \in Tasks
    BY <1>13 DEF ForceCancel, Live, CoTyped
  <2>3. row' \in [Tasks -> Statuses \cup {"absent"}]
    BY <1>13, <2>2, UpdateTaskTypes DEF ForceCancel, DataTyped, Statuses, Outcomes
  <2> QED BY <1>13, <2>1, <2>3 DEF ForceCancel, DataTyped, HandleTyped, ReqTyped, UpdateTask
<1>14. ASSUME NEW r \in Reqs, CreateInsert(r) PROVE TypeInv'
  <2>1. PICK t \in Tasks \ issued :
           /\ issued' = issued \cup {t}
           /\ row' = [row EXCEPT ![t] = "queued"]
           /\ req' = [req EXCEPT ![r] = [pc |-> "inserted", op |-> "create", task |-> t]]
    BY <1>14 DEF CreateInsert
  <2>2. ReqTyped'
    BY <2>1, ReqStarts
  <2>3. row' \in [Tasks -> Statuses \cup {"absent"}] /\ issued' \subseteq Tasks
    BY <2>1 DEF DataTyped, Statuses, Active
  <2> QED BY <1>14, <2>2, <2>3 DEF CreateInsert, DataTyped, HandleTyped, CoTyped
<1>15. ASSUME NEW r \in Reqs, CreateSubmit(r) PROVE TypeInv'
  <2>1. ReqTyped'
    BY <1>15, ReqEnds DEF CreateSubmit
  <2>2. req[r].task \in Tasks
    BY <1>15 DEF CreateSubmit, ReqTyped
  <2>3. row' \in [Tasks -> Statuses \cup {"absent"}]
    BY <1>15, <2>2, UpdateTaskTypes DEF CreateSubmit, DataTyped, Statuses, Active
  <2>4. queue' \in Seq(Tasks)
    BY <1>15, <2>2 DEF CreateSubmit, DataTyped
  <2> QED BY <1>15, <2>1, <2>3, <2>4 DEF CreateSubmit, DataTyped, HandleTyped, CoTyped, UpdateTask
<1>16. ASSUME NEW r \in Reqs, OwnedTask(r) PROVE TypeInv'
  <2>1. PICK op \in Ops, t \in Tasks :
           req' = [req EXCEPT ![r] = [pc |-> "admitted", op |-> op, task |-> t]]
    BY <1>16, QueueAssumption DEF OwnedTask, DataTyped, Ops
  <2>2. ReqTyped'
    BY <2>1, ReqStarts
  <2> QED BY <1>16, <2>2 DEF OwnedTask, DataTyped, HandleTyped, CoTyped
<1>17. ASSUME NEW r \in Reqs, SubmitResume(r) PROVE TypeInv'
  <2>1. req[r].task \in Tasks /\ KindOf(req[r].op) \in Kinds
    BY <1>17 DEF SubmitResume, KindOf, Kinds, ReqTyped
  <2>2. HandleTyped' /\ CoTyped'
    BY <1>17, <2>1, SpawnTypes DEF SubmitResume
  <2>3. ReqTyped'
    BY <1>17, ReqEnds DEF SubmitResume
  <2> QED BY <1>17, <2>2, <2>3 DEF SubmitResume, DataTyped
<1>18. ASSUME NEW r \in Reqs, CancelTask(r) PROVE TypeInv'
  <2>1. req[r].task \in Tasks
    BY <1>18 DEF CancelTask, ReqTyped
  <2>2. ReqTyped'
    BY <1>18, ReqEnds, ReqMoves DEF CancelTask
  <2> QED BY <1>18, <2>1, <2>2 DEF CancelTask, DataTyped, HandleTyped, CoTyped
<1>19. ASSUME NEW r \in Reqs, CancelRow(r) PROVE TypeInv'
  <2>1. req[r].task \in Tasks
    BY <1>19 DEF CancelRow, ReqTyped
  <2>2. row' \in [Tasks -> Statuses \cup {"absent"}]
    BY <1>19, <2>1, UpdateTaskTypes DEF CancelRow, DataTyped, Statuses, Outcomes
  <2>3. ReqTyped'
    BY <1>19, ReqEnds DEF CancelRow
  <2> QED BY <1>19, <2>2, <2>3 DEF CancelRow, DataTyped, HandleTyped, CoTyped, UpdateTask
<1>20. ASSUME NEW r \in Reqs, DeleteRow(r) PROVE TypeInv'
  <2>1. ReqTyped'
    BY <1>20, ReqEnds, ReqMoves DEF DeleteRow
  <2>2. row' \in [Tasks -> Statuses \cup {"absent"}]
    BY <1>20 DEF DeleteRow, DataTyped
  <2> QED BY <1>20, <2>1, <2>2 DEF DeleteRow, DataTyped, HandleTyped, CoTyped
<1>21. ASSUME NEW r \in Reqs, DeleteThreadCheckpoints(r) PROVE TypeInv'
  <2>1. ReqTyped'
    BY <1>21, ReqEnds DEF DeleteThreadCheckpoints
  <2>2. ckpt' \in [Tasks -> Checkpoints]
    BY <1>21 DEF DeleteThreadCheckpoints, DataTyped, Checkpoints
  <2> QED BY <1>21, <2>1, <2>2 DEF DeleteThreadCheckpoints, DataTyped, HandleTyped, CoTyped
<1>f. ASSUME NEW c \in Coros, LoadFails(c) \/ MarkFails(c) \/ WriteBackFails(c) PROVE TypeInv'
  <2>1. co[c].task \in Tasks
    BY <1>f DEF LoadFails, MarkFails, WriteBackFails, CoTyped
  <2>2. CoTyped'
    BY <1>f, FinishTypes, LeaveTypes DEF LoadFails, MarkFails, WriteBackFails
  <2>3. \/ row' = row
        \/ \E st \in Statuses : UpdateFails(co[c].task, st)
    BY <1>f DEF LoadFails, MarkFails, WriteBackFails, CoTyped, Coroutine, Statuses, Outcomes,
       Active
  <2>4. row' \in [Tasks -> Statuses \cup {"absent"}]
    BY <2>1, <2>3, UpdateTaskTypes DEF DataTyped
  <2>5. orphaned' \subseteq Tasks
    BY <1>f, <2>1 DEF LoadFails, MarkFails, WriteBackFails, DriverEnds, DataTyped
  <2> QED BY <1>f, <2>2, <2>4, <2>5 DEF LoadFails, MarkFails, WriteBackFails, DataTyped,
             HandleTyped, ReqTyped
<1>g. ASSUME NEW r \in Reqs, RequestFails(r) PROVE TypeInv'
  <2>1. ReqTyped'
    BY <1>g, ReqEnds DEF RequestFails
  <2>2. req[r].task \in Tasks
    BY <1>g DEF RequestFails, ReqTyped
  <2>3. row' \in [Tasks -> Statuses \cup {"absent"}]
    BY <1>g, <2>2, UpdateTaskTypes DEF RequestFails, DataTyped, Statuses, Active
  <2>4. orphaned' \subseteq Tasks
    BY <1>g, <2>2 DEF RequestFails, DriverEnds, DataTyped
  <2> QED BY <1>g, <2>1, <2>3, <2>4 DEF RequestFails, DataTyped, HandleTyped, CoTyped
<1>22. CASE Crash
  <2>1. HandleTyped' /\ CoTyped' /\ ReqTyped'
    BY <1>22, NoCoroType, NoReqType DEF Crash, ForgetMemory, HandleTyped, CoTyped, ReqTyped
  <2> QED BY <1>22, <2>1 DEF Crash, ForgetMemory, DataTyped
<1>23. CASE EndStop
  <2>1. HandleTyped' /\ CoTyped' /\ ReqTyped'
    BY <1>23, NoCoroType, NoReqType DEF EndStop, ForgetMemory, HandleTyped, CoTyped, ReqTyped
  <2> QED BY <1>23, <2>1 DEF EndStop, ForgetMemory, DataTyped
<1>24. CASE BeginStop
  BY <1>24 DEF BeginStop, DataTyped, HandleTyped, CoTyped, ReqTyped
<1>25. CASE Restart
  BY <1>25 DEF Restart, DataTyped, HandleTyped, CoTyped, ReqTyped, Statuses, Outcomes
<1>26. CASE UNCHANGED vars
  BY <1>26 DEF vars, DataTyped, HandleTyped, CoTyped, ReqTyped
<1> QED
  BY <1>1, <1>2, <1>3, <1>4, <1>5, <1>6, <1>7, <1>8, <1>9, <1>10, <1>11, <1>12,
     <1>13, <1>14, <1>15, <1>16, <1>17, <1>18, <1>19, <1>20, <1>21, <1>22, <1>23,
     <1>24, <1>25, <1>26, <1>f, <1>g
  DEF Next, CoroStep, ReqStep

LEMMA InitTyped == Init => TypeInv
BY NoCoroType, NoReqType DEF Init, TypeInv, DataTyped, HandleTyped, CoTyped, ReqTyped,
   Statuses, Checkpoints

\* Every reachable state has the types TypeOK declares: what a handler, a
\* coroutine, a stop, a kill or the sweep writes is a status, a checkpoint or a
\* handle of the right kind.
THEOREM TypeCorrect == Spec => []TypeOK
BY InitTyped, TypeInvInductive, TypeInvTypeOK, PTL DEF Spec

-----------------------------------------------------------------------------
(* One execution per task.                                                 *)

\* A step that registers nobody and forgets nobody keeps the registry exact.
LEMMA CoverKept ==
    ASSUME HandleCoversLive, handle' = handle,
           \A d \in Coros : Live(d)' => Live(d) /\ co'[d].task = co[d].task
    PROVE  HandleCoversLive'
BY DEF HandleCoversLive

LEMMA GotoCover ==
    ASSUME CoTyped, HandleCoversLive, NEW c \in Coros, Live(c), NEW p \in CoroPCs,
           Goto(c, p), handle' = handle
    PROVE  HandleCoversLive'
<1>1. co' = [co EXCEPT ![c] = [co[c] EXCEPT !.pc = p]]
  BY DEF Goto
<1>2. [co[c] EXCEPT !.pc = p].task = co[c].task
  BY DEF CoTyped, Coroutine
<1> QED BY <1>1, <1>2, CoverKept DEF Live, CoTyped

LEMMA LeaveCover ==
    ASSUME CoTyped, HandleCoversLive, NEW c \in Coros, Live(c), NEW o,
           Leave(c, o), handle' = handle
    PROVE  HandleCoversLive'
<1>1. co' = [co EXCEPT ![c] = [[co[c] EXCEPT !.pc = "writing"] EXCEPT !.out = o]]
  BY DEF Leave, CoTyped
<1>2. [[co[c] EXCEPT !.pc = "writing"] EXCEPT !.out = o].task = co[c].task
  BY DEF CoTyped, Coroutine
<1> QED BY <1>1, <1>2, CoverKept DEF Live, CoTyped

LEMMA FinishCover ==
    ASSUME CoTyped, HandleCoversLive, NEW c \in Coros, Finish(c), handle' = handle
    PROVE  HandleCoversLive'
<1>1. CoroAt("finished", co[c].task, "run").pc = "finished"
  BY DEF CoroAt
<1> QED BY <1>1, CoverKept DEF Finish, Live, CoTyped

\* The argument of _spawn: a live coroutine of the task would be the
\* registered one, and _spawn would have refused.
LEMMA SpawnCover ==
    ASSUME TypeInv, HandleCoversLive, NEW t \in Tasks, NEW k \in Kinds, Spawn(t, k)
    PROVE  HandleCoversLive'
<1>1. CASE UNCHANGED <<handle, co>>
  BY <1>1 DEF HandleCoversLive, Live
<1>2. CASE ~UNCHANGED <<handle, co>>
  <2>1. PICK c \in Coros : /\ co' = [co EXCEPT ![c] = CoroAt("spawned", t, k)]
                           /\ handle' = [handle EXCEPT ![t] = c]
    BY <1>2, Zenon DEF Spawn
  <2>2. ~InFlight(t)
    BY <1>2, Zenon DEF Spawn
  <2>3. CoroAt("spawned", t, k).task = t
    BY DEF CoroAt
  <2>4. ASSUME NEW d \in Coros, d # c, Live(d) PROVE co[d].task # t
    BY <2>2, <2>4, QueueAssumption DEF InFlight, HandleCoversLive
  <2>5. ASSUME NEW d \in Coros, d # c, Live(d) PROVE co[d].task \in Tasks
    BY <2>5 DEF TypeInv, CoTyped, Live
  <2> QED BY <2>1, <2>3, <2>4, <2>5 DEF HandleCoversLive, Live, TypeInv, CoTyped, HandleTyped
<1> QED BY <1>1, <1>2

LEMMA CoverInductive == TypeInv /\ HandleCoversLive /\ [Next]_vars => HandleCoversLive'
<1> SUFFICES ASSUME TypeInv, HandleCoversLive, [Next]_vars PROVE HandleCoversLive'
  OBVIOUS
<1>0. CoTyped /\ HandleTyped
  BY DEF TypeInv
<1>1. CASE Consume
  <2>1. Head(queue) \in Tasks /\ "run" \in Kinds
    BY <1>1 DEF Consume, TypeInv, DataTyped, Kinds
  <2> QED BY <1>1, <2>1, SpawnCover DEF Consume
<1>2. ASSUME NEW c \in Coros, Acquire(c) PROVE HandleCoversLive'
  BY <1>0, <1>2, GotoCover DEF Acquire, Live, CoroPCs
<1>3. ASSUME NEW c \in Coros, LoadRow(c) PROVE HandleCoversLive'
  BY <1>0, <1>3, GotoCover, FinishCover DEF LoadRow, Live, CoroPCs
<1>4. ASSUME NEW c \in Coros, MarkRunning(c) PROVE HandleCoversLive'
  BY <1>0, <1>4, GotoCover DEF MarkRunning, Live, CoroPCs
<1>5. ASSUME NEW c \in Coros, RunTask(c) PROVE HandleCoversLive'
  BY <1>0, <1>5, GotoCover DEF RunTask, Live, CoroPCs
<1>6. ASSUME NEW c \in Coros, ResumeTask(c) PROVE HandleCoversLive'
  BY <1>0, <1>6, GotoCover, LeaveCover DEF ResumeTask, Live, CoroPCs
<1>7. ASSUME NEW c \in Coros, EngineFinish(c) PROVE HandleCoversLive'
  BY <1>0, <1>7, LeaveCover DEF EngineFinish, Live, CoroPCs
<1>8. ASSUME NEW c \in Coros, EnginePause(c) PROVE HandleCoversLive'
  BY <1>0, <1>8, LeaveCover DEF EnginePause, Live, CoroPCs
<1>9. ASSUME NEW c \in Coros, EngineRaise(c) PROVE HandleCoversLive'
  BY <1>0, <1>9, LeaveCover DEF EngineRaise, Live, CoroPCs
<1>10. ASSUME NEW c \in Coros, WriteBack(c) PROVE HandleCoversLive'
  BY <1>0, <1>10, GotoCover DEF WriteBack, Live, CoroPCs
<1>11. ASSUME NEW c \in Coros, Return(c) PROVE HandleCoversLive'
  BY <1>0, <1>11, FinishCover DEF Return, Live, CoroPCs
<1>12. ASSUME NEW c \in Coros, DoneCallback(c) PROVE HandleCoversLive'
  <2>1. \A d \in Coros : Live(d)' => d # c /\ Live(d) /\ co'[d] = co[d]
    BY <1>0, <1>12, NoCoroType DEF DoneCallback, Live, CoTyped
  <2>2. \A d \in Coros : Live(d) => co[d].task \in Tasks
    BY <1>0 DEF CoTyped, Live
  <2> QED BY <1>0, <1>12, <2>1, <2>2 DEF DoneCallback, HandleCoversLive, HandleTyped
<1>13. ASSUME NEW c \in Coros, ForceCancel(c) PROVE HandleCoversLive'
  BY <1>0, <1>13, FinishCover DEF ForceCancel
<1>14. ASSUME NEW r \in Reqs, CreateInsert(r) PROVE HandleCoversLive'
  BY <1>14, CoverKept DEF CreateInsert, Live
<1>15. ASSUME NEW r \in Reqs, CreateSubmit(r) PROVE HandleCoversLive'
  BY <1>15, CoverKept DEF CreateSubmit, Live
<1>16. ASSUME NEW r \in Reqs, OwnedTask(r) PROVE HandleCoversLive'
  BY <1>16, CoverKept DEF OwnedTask, Live
<1>17. ASSUME NEW r \in Reqs, CancelRow(r) PROVE HandleCoversLive'
  BY <1>17, CoverKept DEF CancelRow, Live
<1>18. ASSUME NEW r \in Reqs, DeleteRow(r) PROVE HandleCoversLive'
  BY <1>18, CoverKept DEF DeleteRow, Live
<1>19. ASSUME NEW r \in Reqs, DeleteThreadCheckpoints(r) PROVE HandleCoversLive'
  BY <1>19, CoverKept DEF DeleteThreadCheckpoints, Live
<1>20. ASSUME NEW r \in Reqs, SubmitResume(r) PROVE HandleCoversLive'
  <2>1. req[r].task \in Tasks /\ KindOf(req[r].op) \in Kinds
    BY <1>20 DEF SubmitResume, TypeInv, ReqTyped, KindOf, Kinds
  <2> QED BY <1>20, <2>1, SpawnCover DEF SubmitResume
<1>21. ASSUME NEW r \in Reqs, CancelTask(r) PROVE HandleCoversLive'
  <2>1. \A d \in Coros : co'[d].pc = co[d].pc /\ co'[d].task = co[d].task
    BY <1>21 DEF CancelTask
  <2> QED BY <1>21, <2>1, CoverKept DEF CancelTask, Live
<1>f. ASSUME NEW c \in Coros, LoadFails(c) \/ MarkFails(c) \/ WriteBackFails(c)
      PROVE  HandleCoversLive'
  BY <1>0, <1>f, FinishCover, LeaveCover DEF LoadFails, MarkFails, WriteBackFails, Live
<1>g. ASSUME NEW r \in Reqs, RequestFails(r) PROVE HandleCoversLive'
  BY <1>g, CoverKept DEF RequestFails, Live
<1>22. CASE Crash
  BY <1>22, NoCoroType DEF Crash, ForgetMemory, HandleCoversLive, Live
<1>23. CASE EndStop
  BY <1>23, NoCoroType DEF EndStop, ForgetMemory, HandleCoversLive, Live
<1>24. CASE BeginStop
  BY <1>24, CoverKept DEF BeginStop, Live
<1>25. CASE Restart
  BY <1>25, CoverKept DEF Restart, Live
<1>26. CASE UNCHANGED vars
  BY <1>26, CoverKept DEF vars, Live
<1> QED
  BY <1>1, <1>2, <1>3, <1>4, <1>5, <1>6, <1>7, <1>8, <1>9, <1>10, <1>11, <1>12,
     <1>13, <1>14, <1>15, <1>16, <1>17, <1>18, <1>19, <1>20, <1>21, <1>22, <1>23,
     <1>24, <1>25, <1>26, <1>f, <1>g
  DEF Next, CoroStep, ReqStep

\* Every execution that is not done is the one the registry _running holds for
\* its task, so cancel and the drain of stop() reach it.
THEOREM RegistryCoversExecutions == Spec => []HandleCoversLive
<1>1. Init => HandleCoversLive
  BY NoCoroType DEF Init, HandleCoversLive, Live
<1> QED BY <1>1, InitTyped, TypeInvInductive, CoverInductive, PTL DEF Spec

\* _spawn never lets two coroutines drive the same task, however submits,
\* resumes, decisions, done callbacks, stops and restarts interleave.
THEOREM OneExecution == Spec => []OneExecutorPerTask
<1>1. HandleCoversLive => OneExecutorPerTask
  BY DEF HandleCoversLive, OneExecutorPerTask
<1> QED BY <1>1, RegistryCoversExecutions, PTL

-----------------------------------------------------------------------------
(* The row and the checkpoint.                                             *)

\* Nothing knows a task id that create_task has not handed out.
KnownIssued ==
    /\ \A t \in Tasks : row[t] # "absent" => t \in issued
    /\ queue \in Seq(issued)
    /\ \A c \in Coros : co[c].pc # "free" => co[c].task \in issued
    /\ \A r \in Reqs : req[r].pc # "idle" => req[r].task \in issued

\* From the write of "running" to the end of the engine's run, the row carries
\* no result.
NoResultYet ==
    \A c \in Coros : co[c].pc \in {"invoking", "engine"} =>
        row[co[c].task] \notin {"done", "waiting_approval"}

\* The outcome about to be written is what the checkpoint says, unless the task
\* was deleted (then nothing is written).
OutcomeFits ==
    \A c \in Coros :
        co[c].pc = "writing" /\ row[co[c].task] # "absent" =>
            /\ co[c].out = "done" => ckpt[co[c].task] = "done"
            /\ co[c].out = "waiting_approval" => ckpt[co[c].task] = "gate"

\* Checkpoints are only dropped for a task whose row is gone.
DropsDeleted == \A r \in Reqs : req[r].pc = "rowDeleted" => row[req[r].task] = "absent"

AgreeInv ==
    KnownIssued /\ NoResultYet /\ OutcomeFits /\ DropsDeleted /\ RowAgreesWithCheckpoint

\* A step of c leaves its task and the other coroutines alone.
OnlyMoves(c) == co'[c].task = co[c].task /\ \A d \in Coros \ {c} : co'[d] = co[d]

\* Field by field, what a move, a departure, the end and a registration do.
LEMMA GotoFields ==
    ASSUME CoTyped, NEW c \in Coros, NEW p \in CoroPCs, Goto(c, p)
    PROVE  /\ co'[c].pc = p /\ co'[c].task = co[c].task /\ co'[c].out = co[c].out
           /\ \A d \in Coros \ {c} : co'[d] = co[d]
BY DEF Goto, CoTyped, Coroutine

LEMMA LeaveFields ==
    ASSUME CoTyped, NEW c \in Coros, NEW o, Leave(c, o)
    PROVE  /\ co'[c].pc = "writing" /\ co'[c].task = co[c].task /\ co'[c].out = o
           /\ \A d \in Coros \ {c} : co'[d] = co[d]
BY DEF Leave, CoTyped, Coroutine

LEMMA FinishFields ==
    ASSUME CoTyped, NEW c \in Coros, Finish(c)
    PROVE  /\ co'[c].pc = "finished" /\ co'[c].task = co[c].task
           /\ \A d \in Coros \ {c} : co'[d] = co[d]
BY DEF Finish, CoTyped, CoroAt

LEMMA SpawnFields ==
    ASSUME CoTyped, NEW t \in Tasks, NEW k \in Kinds, Spawn(t, k)
    PROVE  \A d \in Coros : \/ co'[d] = co[d]
                            \/ co'[d].pc = "spawned" /\ co'[d].task = t
BY DEF Spawn, CoTyped, CoroAt

\* Every step but the final write, the engine's steps and the drop of
\* checkpoints leaves checkpoints alone; the engine's steps belong to the only
\* execution of the task, whose row carries no result.
LEMMA AgreeInductive ==
    TypeInv /\ OneExecutorPerTask /\ AgreeInv /\ [Next]_vars => AgreeInv'
<1> SUFFICES ASSUME TypeInv, OneExecutorPerTask, AgreeInv, [Next]_vars PROVE AgreeInv'
  OBVIOUS
<1>0. CoTyped /\ HandleTyped /\ DataTyped /\ ReqTyped
  BY DEF TypeInv
<1>t. /\ \A c \in Coros : co[c].pc # "free" => co[c].task \in Tasks
      /\ \A r \in Reqs : req[r].pc # "idle" => req[r].task \in Tasks
      /\ row \in [Tasks -> Statuses \cup {"absent"}]
      /\ ckpt \in [Tasks -> Checkpoints]
      /\ issued \subseteq Tasks
      /\ queue \in Seq(Tasks)
  BY <1>0 DEF CoTyped, ReqTyped, DataTyped
<1> USE DEF AgreeInv, KnownIssued, NoResultYet, OutcomeFits, DropsDeleted,
            RowAgreesWithCheckpoint, OnlyMoves
<1>1. CASE Consume
  <2>1. Head(queue) \in issued /\ Tail(queue) \in Seq(issued)
    BY <1>1 DEF Consume
  <2>2. \A d \in Coros :
           \/ co'[d] = co[d]
           \/ co'[d].pc = "spawned" /\ co'[d].task = Head(queue)
    <3>1. Head(queue) \in Tasks /\ "run" \in Kinds /\ Spawn(Head(queue), "run")
      BY <1>t, <1>1 DEF Consume, Kinds
    <3> QED BY <1>0, <3>1, SpawnFields
  <2> QED BY <1>t, <1>1, <2>1, <2>2 DEF Consume
<1>2. ASSUME NEW c \in Coros, Acquire(c) PROVE AgreeInv'
  <2>1. co'[c].pc = "loading" /\ OnlyMoves(c)
    BY <1>0, <1>2, GotoFields DEF Acquire, CoroPCs
  <2> QED BY <1>t, <1>2, <2>1 DEF Acquire, OneExecutorPerTask, Live, UpdateTask, RowsWith, Outcomes
<1>3. ASSUME NEW c \in Coros, LoadRow(c) PROVE AgreeInv'
  <2>1. co'[c].pc \in {"marking", "finished"} /\ OnlyMoves(c)
    BY <1>0, <1>3, GotoFields, FinishFields DEF LoadRow, CoroPCs
  <2> QED BY <1>t, <1>3, <2>1 DEF LoadRow, OneExecutorPerTask, Live, UpdateTask, RowsWith, Outcomes
<1>4. ASSUME NEW c \in Coros, MarkRunning(c) PROVE AgreeInv'
  <2>1. co'[c].pc = "invoking" /\ OnlyMoves(c)
    BY <1>0, <1>4, GotoFields DEF MarkRunning, CoroPCs
  <2> QED BY <1>t, <1>4, <2>1 DEF MarkRunning, OneExecutorPerTask, Live, UpdateTask, RowsWith, Outcomes
<1>5. ASSUME NEW c \in Coros, RunTask(c) PROVE AgreeInv'
  <2>1. co'[c].pc = "engine" /\ OnlyMoves(c)
    BY <1>0, <1>5, GotoFields DEF RunTask, CoroPCs
  <2> QED BY <1>t, <1>5, <2>1 DEF RunTask, OneExecutorPerTask, Live, UpdateTask, RowsWith, Outcomes
<1>6. ASSUME NEW c \in Coros, ResumeTask(c) PROVE AgreeInv'
  <2>1. /\ OnlyMoves(c)
        /\ \/ /\ co'[c].pc = "writing" /\ co'[c].out = "raised" /\ ckpt' = ckpt
           \/ /\ co'[c].pc = "writing" /\ co'[c].out = ckpt[co[c].task] /\ ckpt' = ckpt
              /\ ckpt[co[c].task] \in Outcomes
           \/ /\ co'[c].pc = "writing" /\ co'[c].out = "canceled"
              /\ ckpt' = [ckpt EXCEPT ![co[c].task] = "canceled"]
           \/ /\ co'[c].pc = "engine" /\ ckpt' = [ckpt EXCEPT ![co[c].task] = "mid"]
    BY <1>0, <1>6, GotoFields, LeaveFields DEF ResumeTask, CoroPCs
  <2>2. co[c].pc = "invoking" /\ row' = row /\ issued' = issued /\ queue' = queue /\ req' = req
    BY <1>6 DEF ResumeTask
  <2> QED BY <1>t, <2>1, <2>2 DEF OneExecutorPerTask, Live, Outcomes
<1>7. ASSUME NEW c \in Coros, EngineFinish(c) PROVE AgreeInv'
  <2>1. PICK o \in Outcomes : Leave(c, o) /\ ckpt' = [ckpt EXCEPT ![co[c].task] = o]
    BY <1>7, QueueAssumption DEF EngineFinish, Outcomes
  <2>2. co'[c].pc = "writing" /\ co'[c].out = o /\ OnlyMoves(c)
    BY <1>0, <2>1, LeaveFields
  <2> QED BY <1>t, <1>7, <2>1, <2>2 DEF EngineFinish, OneExecutorPerTask, Live, Outcomes
<1>8. ASSUME NEW c \in Coros, EnginePause(c) PROVE AgreeInv'
  <2>1. co'[c].pc = "writing" /\ co'[c].out = "waiting_approval" /\ OnlyMoves(c)
    BY <1>0, <1>8, LeaveFields DEF EnginePause, CoroPCs
  <2> QED BY <1>t, <1>8, <2>1 DEF EnginePause, OneExecutorPerTask, Live, UpdateTask, RowsWith, Outcomes
<1>9. ASSUME NEW c \in Coros, EngineRaise(c) PROVE AgreeInv'
  <2>1. co'[c].pc = "writing" /\ co'[c].out = "raised" /\ OnlyMoves(c)
    BY <1>0, <1>9, LeaveFields DEF EngineRaise, CoroPCs
  <2> QED BY <1>t, <1>9, <2>1 DEF EngineRaise, OneExecutorPerTask, Live, UpdateTask, RowsWith, Outcomes
<1>10. ASSUME NEW c \in Coros, WriteBack(c) PROVE AgreeInv'
  <2>1. co'[c].pc = "leaving" /\ OnlyMoves(c)
    BY <1>0, <1>10, GotoFields DEF WriteBack, CoroPCs
  <2> QED BY <1>t, <1>10, <2>1 DEF WriteBack, OneExecutorPerTask, Live, UpdateTask, RowsWith, Outcomes
<1>11. ASSUME NEW c \in Coros, Return(c) PROVE AgreeInv'
  <2>1. co'[c].pc = "finished" /\ OnlyMoves(c)
    BY <1>0, <1>11, FinishFields DEF Return, CoroPCs
  <2> QED BY <1>t, <1>11, <2>1 DEF Return, OneExecutorPerTask, Live, UpdateTask, RowsWith, Outcomes
<1>12. ASSUME NEW c \in Coros, DoneCallback(c) PROVE AgreeInv'
  <2>1. co'[c].pc = "free" /\ \A d \in Coros \ {c} : co'[d] = co[d]
    BY <1>0, <1>12, NoCoroType DEF DoneCallback, CoTyped
  <2> QED BY <1>t, <1>12, <2>1 DEF DoneCallback
<1>13. ASSUME NEW c \in Coros, ForceCancel(c) PROVE AgreeInv'
  <2>1. co'[c].pc = "finished" /\ OnlyMoves(c)
    BY <1>0, <1>13, FinishFields DEF ForceCancel, CoroPCs
  <2> QED BY <1>t, <1>13, <2>1 DEF ForceCancel, OneExecutorPerTask, Live, UpdateTask, RowsWith, Outcomes
<1>14. ASSUME NEW r \in Reqs, CreateInsert(r) PROVE AgreeInv'
  <2>1. PICK t \in Tasks \ issued :
           /\ issued' = issued \cup {t}
           /\ row' = [row EXCEPT ![t] = "queued"]
           /\ req' = [req EXCEPT ![r] = [pc |-> "inserted", op |-> "create", task |-> t]]
    BY <1>14 DEF CreateInsert
  <2>2. queue' \in Seq(issued')
    BY <2>1, <1>14 DEF CreateInsert
  <2> QED BY <1>0, <1>t, <1>14, <2>1, <2>2 DEF CreateInsert, ReqTyped
<1>15. ASSUME NEW r \in Reqs, CreateSubmit(r) PROVE AgreeInv'
  <2>1. req'[r].pc = "idle" /\ \A q \in Reqs \ {r} : req'[q] = req[q]
    BY <1>0, <1>15, NoReqType DEF CreateSubmit, ReqTyped, Request
  <2>2. queue' \in Seq(issued)
    BY <1>15 DEF CreateSubmit
  <2> QED BY <1>t, <1>15, <2>1, <2>2 DEF CreateSubmit, UpdateTask, RowsWith
<1>16. ASSUME NEW r \in Reqs, OwnedTask(r) PROVE AgreeInv'
  <2>1. PICK op \in ClientOps, t \in issued :
           req' = [req EXCEPT ![r] = [pc |-> "admitted", op |-> op, task |-> t]]
    BY <1>16 DEF OwnedTask
  <2> QED BY <1>0, <1>t, <1>16, <2>1 DEF OwnedTask, ReqTyped
<1>17. ASSUME NEW r \in Reqs, SubmitResume(r) PROVE AgreeInv'
  <2>1. req'[r].pc = "idle" /\ \A q \in Reqs \ {r} : req'[q] = req[q]
    BY <1>0, <1>17, NoReqType DEF SubmitResume, ReqTyped, Request
  <2>2. \A d \in Coros :
           \/ co'[d] = co[d]
           \/ co'[d].pc = "spawned" /\ co'[d].task = req[r].task
    <3>1. /\ req[r].task \in Tasks /\ KindOf(req[r].op) \in Kinds
          /\ Spawn(req[r].task, KindOf(req[r].op))
      BY <1>t, <1>17 DEF SubmitResume, KindOf, Kinds
    <3> QED BY <1>0, <3>1, SpawnFields
  <2> QED BY <1>t, <1>17, <2>1, <2>2 DEF SubmitResume, ReqTyped
<1>18. ASSUME NEW r \in Reqs, CancelTask(r) PROVE AgreeInv'
  <2>1. \A d \in Coros :
           /\ co'[d].pc = co[d].pc /\ co'[d].task = co[d].task
           /\ co'[d].out = co[d].out
    BY <1>18 DEF CancelTask
  <2>2. /\ req'[r].pc \in {"idle", "notInFlight"}
        /\ req'[r].pc = "notInFlight" => req'[r].task = req[r].task
        /\ \A q \in Reqs \ {r} : req'[q] = req[q]
    BY <1>0, <1>18, NoReqType DEF CancelTask, ReqTyped, Request
  <2> QED BY <1>t, <1>18, <2>1, <2>2 DEF CancelTask
<1>19. ASSUME NEW r \in Reqs, CancelRow(r) PROVE AgreeInv'
  <2>1. req'[r].pc = "idle" /\ \A q \in Reqs \ {r} : req'[q] = req[q]
    BY <1>0, <1>19, NoReqType DEF CancelRow, ReqTyped, Request
  <2> QED BY <1>t, <1>19, <2>1 DEF CancelRow, UpdateTask, RowsWith
<1>20. ASSUME NEW r \in Reqs, DeleteRow(r) PROVE AgreeInv'
  <2>1. /\ req'[r].pc \in {"idle", "rowDeleted"}
        /\ req'[r].pc = "rowDeleted" => req'[r].task = req[r].task
        /\ \A q \in Reqs \ {r} : req'[q] = req[q]
    BY <1>0, <1>20, NoReqType DEF DeleteRow, ReqTyped, Request
  <2> QED BY <1>t, <1>20, <2>1 DEF DeleteRow
<1>21. ASSUME NEW r \in Reqs, DeleteThreadCheckpoints(r) PROVE AgreeInv'
  <2>1. req'[r].pc = "idle" /\ \A q \in Reqs \ {r} : req'[q] = req[q]
    BY <1>0, <1>21, NoReqType DEF DeleteThreadCheckpoints, ReqTyped, Request
  <2> QED BY <1>t, <1>21, <2>1 DEF DeleteThreadCheckpoints, UpdateTask, RowsWith
<1>f. ASSUME NEW c \in Coros, LoadFails(c) \/ MarkFails(c) \/ WriteBackFails(c) PROVE AgreeInv'
  <2>1. /\ OnlyMoves(c) /\ co[c].pc \in {"loading", "marking", "writing"}
        /\ \/ co'[c].pc = "finished"
           \/ co'[c].pc = "writing" /\ co'[c].out = "raised"
    BY <1>0, <1>f, FinishFields, LeaveFields DEF LoadFails, MarkFails, WriteBackFails
  <2>2. /\ UNCHANGED <<ckpt, issued, queue, req>>
        /\ \/ row' \in {row, RowsWith(co[c].task, "running"), RowsWith(co[c].task, "failed")}
           \/ co[c].pc = "writing" /\ row' \in {row, RowsWith(co[c].task, co[c].out)}
    BY <1>f DEF LoadFails, MarkFails, WriteBackFails, UpdateFails
  <2> QED BY <1>t, <2>1, <2>2 DEF OneExecutorPerTask, Live, RowsWith
<1>g. ASSUME NEW r \in Reqs, RequestFails(r) PROVE AgreeInv'
  <2>1. req'[r].pc = "idle" /\ \A q \in Reqs \ {r} : req'[q] = req[q]
    BY <1>0, <1>g, NoReqType DEF RequestFails, ReqTyped, Request
  <2>2. row' \in {row, RowsWith(req[r].task, "queued")} /\ req[r].task \in Tasks
    BY <1>t, <1>g DEF RequestFails, UpdateFails
  <2> QED BY <1>t, <1>g, <2>1, <2>2 DEF RequestFails, RowsWith
<1>22. CASE Crash
  <2>1. queue' \in Seq(issued')
    BY <1>22 DEF Crash, ForgetMemory
  <2> QED BY <1>t, <1>22, <2>1, NoCoroType, NoReqType DEF Crash, ForgetMemory
<1>23. CASE EndStop
  <2>1. queue' \in Seq(issued')
    BY <1>23 DEF EndStop, ForgetMemory
  <2> QED BY <1>t, <1>23, <2>1, NoCoroType, NoReqType DEF EndStop, ForgetMemory
<1>24. CASE BeginStop
  BY <1>t, <1>24 DEF BeginStop
<1>25. CASE Restart
  BY <1>t, <1>25 DEF Restart, Active
<1>26. CASE UNCHANGED vars
  BY <1>t, <1>26 DEF vars
<1> QED
  BY <1>1, <1>2, <1>3, <1>4, <1>5, <1>6, <1>7, <1>8, <1>9, <1>10, <1>11, <1>12,
     <1>13, <1>14, <1>15, <1>16, <1>17, <1>18, <1>19, <1>20, <1>21, <1>22, <1>23,
     <1>24, <1>25, <1>26, <1>f, <1>g
  DEF Next, CoroStep, ReqStep

\* At first there is no row, no coroutine and no request.
LEMMA InitAgrees == Init => AgreeInv
BY NoCoroType, NoReqType DEF Init, AgreeInv, KnownIssued, NoResultYet, OutcomeFits,
   DropsDeleted, RowAgreesWithCheckpoint

\* The status of a task never claims more than its checkpoint holds: "done"
\* only for a thread that ended as done, "waiting_approval" only for one that
\* hangs on the gate, however cancel, delete, kill, stop and resume interleave
\* with the writes of _execute.
THEOREM StatusAgreesWithCheckpoint == Spec => []RowAgreesWithCheckpoint
<1>1. Init => AgreeInv
  BY InitAgrees
<1>2. AgreeInv => RowAgreesWithCheckpoint
  BY DEF AgreeInv
<1> QED BY <1>1, <1>2, InitTyped, TypeInvInductive, OneExecution, AgreeInductive, PTL DEF Spec

\* No late write brings the row of a deleted task back.
THEOREM NoResurrection == Spec => DeletedStaysDeleted
<1>1. ASSUME TypeInv, [Next]_vars, NEW t \in issued, row[t] = "absent"
      PROVE  row'[t] = "absent"
  <2>1. /\ row \in [Tasks -> Statuses \cup {"absent"}] /\ t \in Tasks
        /\ \A r \in Reqs : req[r].pc # "idle" => req[r].task \in Tasks
    BY <1>1 DEF TypeInv, DataTyped, ReqTyped
  <2>2. ASSUME NEW u, NEW st, UpdateTask(u, st) \/ UpdateFails(u, st) PROVE row'[t] = "absent"
    BY <1>1, <2>1, <2>2 DEF UpdateTask, UpdateFails, RowsWith
  <2>3. CASE row' = row
    BY <1>1, <2>3
  <2>4. ASSUME NEW c \in Coros, MarkRunning(c) \/ WriteBack(c) \/ ForceCancel(c)
                                  \/ LoadFails(c) \/ MarkFails(c) \/ WriteBackFails(c)
        PROVE  row'[t] = "absent"
    BY <1>1, <2>2, <2>3, <2>4 DEF MarkRunning, WriteBack, ForceCancel, LoadFails, MarkFails,
       WriteBackFails
  <2>5. ASSUME NEW r \in Reqs,
               CreateInsert(r) \/ CreateSubmit(r) \/ CancelRow(r) \/ DeleteRow(r)
                 \/ RequestFails(r)
        PROVE  row'[t] = "absent"
    BY <1>1, <2>1, <2>2, <2>3, <2>5 DEF CreateInsert, CreateSubmit, CancelRow, DeleteRow,
       RequestFails
  <2>6. CASE Restart
    BY <1>1, <2>1, <2>6 DEF Restart, Active
  <2>7. ASSUME NEW c \in Coros, CoroStep(c) PROVE row'[t] = "absent"
    BY <2>3, <2>4, <2>7 DEF CoroStep, Acquire, LoadRow, RunTask, ResumeTask, EngineFinish,
       EnginePause, EngineRaise, Return, DoneCallback
  <2>8. ASSUME NEW r \in Reqs, ReqStep(r) PROVE row'[t] = "absent"
    BY <2>3, <2>5, <2>8 DEF ReqStep, OwnedTask, SubmitResume, CancelTask, DeleteThreadCheckpoints
  <2> QED BY <1>1, <2>3, <2>4, <2>6, <2>7, <2>8
      DEF Next, Consume, Crash, BeginStop, EndStop, vars
<1>2. TypeInv /\ [Next]_vars => [\A t \in issued : row[t] = "absent" => row'[t] = "absent"]_vars
  BY <1>1
<1> QED BY <1>2, InitTyped, TypeInvInductive, PTL DEF Spec, DeletedStaysDeleted

-----------------------------------------------------------------------------
(* Somebody drives every active row.                                       *)
(*                                                                         *)
(* A task waits for its first execution while its create request has not   *)
(* submitted it or its id is in the queue: then no coroutine has ever been *)
(* registered for it and no resume or decision on it can be under way, so  *)
(* Consume is not refused by a coroutine that has already written back.    *)

Working == {"spawned", "loading", "marking", "invoking", "engine", "writing"}
Decisions == {"resume", "approve", "reject"}

InQueue(t) == \E i \in 1..Len(queue) : queue[i] = t
Inserted(t) == \E r \in Reqs : req[r].pc = "inserted" /\ req[r].task = t
Waits(t) == InQueue(t) \/ Inserted(t)

FirstInv ==
    \A t \in Tasks : Waits(t) =>
        /\ row[t] \in {"absent", "queued", "canceled"}
        /\ \A c \in Coros : co[c].pc # "free" => co[c].task # t
        /\ \A r \in Reqs : req[r].pc = "admitted" /\ req[r].op \in Decisions
                             => req[r].task # t

QueuedOnce == \A i, j \in 1..Len(queue) : queue[i] = queue[j] => i = j

OnceInv ==
    /\ QueuedOnce
    /\ \A t \in Tasks : ~(InQueue(t) /\ Inserted(t))
    /\ \A r, s \in Reqs :
         req[r].pc = "inserted" /\ req[s].pc = "inserted" /\ req[r].task = req[s].task
           => r = s

DownInv == proc = "down" => queue = <<>> /\ \A r \in Reqs : req[r].pc = "idle"

HandleInv ==
    \A t \in Tasks :
        handle[t] # None => co[handle[t]].task = t /\ co[handle[t]].pc # "free"

LeavingInv == \A c \in Coros : co[c].pc = "leaving" => row[co[c].task] \notin Active

Driven(t) ==
    \/ \E c \in Coros : co[c].task = t /\ co[c].pc \in Working
    \/ row[t] = "queued" /\ Waits(t)

DrivenInv ==
    proc = "up" => \A t \in Tasks : row[t] \in Active => Driven(t) \/ t \in orphaned

WaitInv == FirstInv /\ OnceInv /\ DownInv
DriverInv == WaitInv /\ HandleInv /\ LeavingInv /\ DrivenInv

\* What the head, the tail and an added element do to the queue.
LEMMA TailQueue ==
    ASSUME DataTyped, QueuedOnce, queue # <<>>, queue' = Tail(queue)
    PROVE  /\ QueuedOnce' /\ Head(queue) \in Tasks /\ InQueue(Head(queue))
           /\ \A t : InQueue(t)' <=> InQueue(t) /\ t # Head(queue)
<1>1. /\ Len(queue) \in Nat \ {0}
      /\ Len(queue') = Len(queue) - 1
      /\ \A i \in 1..Len(queue') : queue'[i] = queue[i + 1]
      /\ Head(queue) = queue[1]
      /\ \A i \in 1..Len(queue) : queue[i] \in Tasks
  BY DEF DataTyped
<1>2. QueuedOnce'
  BY <1>1 DEF QueuedOnce
<1>3. ASSUME NEW t, InQueue(t)' PROVE InQueue(t) /\ t # Head(queue)
  <2>1. PICK i \in 1..Len(queue') : queue'[i] = t
    BY <1>3 DEF InQueue
  <2>2. i + 1 \in 1..Len(queue) /\ queue[i + 1] = t /\ 1 \in 1..Len(queue) /\ i + 1 # 1
    BY <1>1, <2>1
  <2> QED
    BY <1>1, <2>2 DEF InQueue, QueuedOnce
<1>4. ASSUME NEW t, InQueue(t), t # Head(queue) PROVE InQueue(t)'
  <2>1. PICK i \in 1..Len(queue) : queue[i] = t
    BY <1>4 DEF InQueue
  <2>2. i - 1 \in 1..Len(queue') /\ queue'[i - 1] = t
    BY <1>1, <1>4, <2>1
  <2> QED
    BY <2>2 DEF InQueue
<1>5. InQueue(Head(queue)) /\ Head(queue) \in Tasks
  BY <1>1 DEF InQueue
<1> QED
  BY <1>2, <1>3, <1>4, <1>5

LEMMA AppendQueue ==
    ASSUME DataTyped, QueuedOnce, NEW t \in Tasks, ~InQueue(t), queue' = Append(queue, t)
    PROVE  QueuedOnce' /\ \A u : InQueue(u)' <=> InQueue(u) \/ u = t
<1>1. /\ Len(queue) \in Nat /\ Len(queue') = Len(queue) + 1
      /\ \A i \in 1..Len(queue) : queue'[i] = queue[i]
      /\ queue'[Len(queue) + 1] = t
  BY DEF DataTyped
<1>2. QueuedOnce'
  <2> SUFFICES ASSUME NEW i \in 1..Len(queue'), NEW j \in 1..Len(queue'),
                      queue'[i] = queue'[j]
               PROVE  i = j
    BY DEF QueuedOnce
  <2>1. CASE i \in 1..Len(queue) /\ j \in 1..Len(queue)
    BY <1>1, <2>1 DEF QueuedOnce
  <2>2. CASE i = Len(queue) + 1 \/ j = Len(queue) + 1
    BY <1>1, <2>2 DEF InQueue
  <2> QED
    BY <1>1, <2>1, <2>2
<1>3. ASSUME NEW u PROVE InQueue(u)' <=> InQueue(u) \/ u = t
  <2>1. ASSUME InQueue(u) PROVE InQueue(u)'
    BY <1>1, <2>1 DEF InQueue
  <2>2. InQueue(t)'
    BY <1>1 DEF InQueue
  <2>3. ASSUME InQueue(u)', u # t PROVE InQueue(u)
    BY <1>1, <2>3 DEF InQueue
  <2> QED
    BY <2>1, <2>2, <2>3
<1> QED
  BY <1>2, <1>3

\* What a step of a coroutine, other than its done callback, can do.
CoroDoes(c) ==
    /\ OnlyMoves(c) /\ UNCHANGED <<issued, queue, handle, req, proc>>
    /\ co[c].pc \in Working \cup {"leaving"}
    /\ \/ co'[c].pc \in Working /\ UNCHANGED <<row, orphaned>>
       \/ co'[c].pc \in Working /\ UpdateTask(co[c].task, "running")
       \/ /\ co[c].pc = "writing" /\ co'[c].pc \in Working /\ UNCHANGED orphaned
          /\ \E st \in Outcomes \cup {"waiting_approval"} : UpdateFails(co[c].task, st)
       \/ /\ co'[c].pc = "finished" /\ DriverEnds(co[c].task)
          /\ \E st \in Outcomes \cup {"running"} : UpdateFails(co[c].task, st)
       \/ /\ co[c].pc = "writing" /\ co'[c].pc = "leaving"
          /\ \E st \in Outcomes \cup {"waiting_approval"} : UpdateTask(co[c].task, st)
       \/ /\ co'[c].pc = "finished" /\ UNCHANGED <<row, orphaned>>
          /\ row[co[c].task] = "absent" \/ co[c].pc = "leaving" \/ proc = "draining"
       \/ /\ co'[c].pc = "finished" /\ proc = "draining"
          /\ UpdateTask(co[c].task, "canceled")

LEMMA CoroSteps ==
    ASSUME TypeInv, NEW c \in Coros, CoroStep(c) \/ ForceCancel(c), ~DoneCallback(c)
    PROVE  CoroDoes(c)
<1>0. CoTyped
  BY DEF TypeInv
<1> USE DEF CoroDoes, OnlyMoves, Working
<1>1. CASE Acquire(c)
  BY <1>0, <1>1, GotoFields DEF Acquire, CoroPCs
<1>2. CASE LoadRow(c)
  BY <1>0, <1>2, GotoFields, FinishFields DEF LoadRow, CoroPCs
<1>3. CASE MarkRunning(c)
  BY <1>0, <1>3, GotoFields DEF MarkRunning, CoroPCs
<1>4. CASE RunTask(c)
  BY <1>0, <1>4, GotoFields DEF RunTask, CoroPCs
<1>5. CASE ResumeTask(c)
  BY <1>0, <1>5, GotoFields, LeaveFields DEF ResumeTask, CoroPCs
<1>6. CASE EngineFinish(c)
  BY <1>0, <1>6, LeaveFields DEF EngineFinish
<1>7. CASE EnginePause(c)
  BY <1>0, <1>7, LeaveFields DEF EnginePause
<1>8. CASE EngineRaise(c)
  BY <1>0, <1>8, LeaveFields DEF EngineRaise
<1>9. CASE WriteBack(c)
  <2>1. co'[c].pc = "leaving" /\ OnlyMoves(c)
    BY <1>0, <1>9, GotoFields DEF WriteBack, CoroPCs
  <2>2. (IF co[c].out = "raised" THEN "failed" ELSE co[c].out)
          \in Outcomes \cup {"waiting_approval"}
    BY <1>0, <1>9 DEF WriteBack, CoTyped, Coroutine, Outcomes
  <2> QED
    BY <1>9, <2>1, <2>2 DEF WriteBack
<1>10. CASE Return(c)
  BY <1>0, <1>10, FinishFields DEF Return
<1>f. CASE LoadFails(c) \/ MarkFails(c)
  <2>1. co'[c].pc = "finished" /\ OnlyMoves(c)
    BY <1>0, <1>f, FinishFields DEF LoadFails, MarkFails
  <2>2. UpdateFails(co[c].task, "running") /\ DriverEnds(co[c].task)
    BY <1>f DEF LoadFails, MarkFails, UpdateFails
  <2> QED
    BY <1>f, <2>1, <2>2 DEF LoadFails, MarkFails
<1>g. CASE WriteBackFails(c)
  <2>1. CASE co[c].out # "raised"
    <3>1. co'[c].pc = "writing" /\ OnlyMoves(c)
      BY <1>0, <1>g, <2>1, LeaveFields DEF WriteBackFails
    <3>2. co[c].out \in Outcomes \cup {"waiting_approval"}
      BY <1>0, <1>g, <2>1 DEF WriteBackFails, CoTyped, Coroutine
    <3> QED
      BY <1>g, <2>1, <3>1, <3>2 DEF WriteBackFails
  <2>2. CASE co[c].out = "raised"
    <3>1. co'[c].pc = "finished" /\ OnlyMoves(c)
      BY <1>0, <1>g, <2>2, FinishFields DEF WriteBackFails
    <3> QED
      BY <1>g, <2>2, <3>1 DEF WriteBackFails, Outcomes
  <2> QED
    BY <2>1, <2>2
<1>11. CASE ForceCancel(c)
  <2>1. co'[c].pc = "finished" /\ OnlyMoves(c)
    BY <1>0, <1>11, FinishFields DEF ForceCancel
  <2>2. co[c].pc \in Working \cup {"leaving"}
    BY <1>0, <1>11 DEF ForceCancel, Live, CoTyped, Coroutine, CoroPCs
  <2> QED
    BY <1>11, <2>1, <2>2 DEF ForceCancel
<1> QED
  BY <1>1, <1>2, <1>3, <1>4, <1>5, <1>6, <1>7, <1>8, <1>9, <1>10, <1>11, <1>f, <1>g DEF CoroStep

\* Only a free coroutine is registered anew.
LEMMA SpawnsFree ==
    ASSUME CoTyped, NEW t \in Tasks, NEW k \in Kinds, Spawn(t, k)
    PROVE  \A d \in Coros : \/ co'[d] = co[d]
                            \/ /\ co[d].pc = "free"
                               /\ co'[d].pc = "spawned" /\ co'[d].task = t
BY DEF Spawn, CoTyped, CoroAt

\* UpdateTask touches one row, if it is there.
LEMMA UpdateDoes ==
    ASSUME DataTyped, NEW t \in Tasks, NEW st, UpdateTask(t, st)
    PROVE  /\ \A u \in Tasks \ {t} : row'[u] = row[u] /\ (u \in orphaned => u \in orphaned')
           /\ row'[t] = IF row[t] = "absent" THEN "absent" ELSE st
BY DEF UpdateTask, RowsWith, DataTyped

\* A failing one, if anything, does the same.
LEMMA UpdateFailsDoes ==
    ASSUME DataTyped, NEW t \in Tasks, NEW st, UpdateFails(t, st)
    PROVE  /\ \A u \in Tasks \ {t} : row'[u] = row[u]
           /\ row'[t] \in {row[t], st}
BY DEF UpdateFails, RowsWith, DataTyped

\* _spawn registers a coroutine that no other handle points to.
LEMMA SpawnHandle ==
    ASSUME TypeInv, HandleInv, NEW t \in Tasks, NEW k \in Kinds, Spawn(t, k)
    PROVE  HandleInv'
<1>1. CASE UNCHANGED <<handle, co>>
  BY <1>1 DEF HandleInv
<1>2. CASE ~UNCHANGED <<handle, co>>
  <2>1. PICK c \in Coros : /\ co[c].pc = "free"
                           /\ co' = [co EXCEPT ![c] = CoroAt("spawned", t, k)]
                           /\ handle' = [handle EXCEPT ![t] = c]
    BY <1>2, Zenon DEF Spawn
  <2>2. /\ co'[c].pc = "spawned" /\ co'[c].task = t
        /\ \A d \in Coros \ {c} : co'[d] = co[d]
    BY <2>1 DEF TypeInv, CoTyped, CoroAt
  <2>3. handle'[t] = c /\ \A u \in Tasks \ {t} : handle'[u] = handle[u]
    BY <2>1 DEF TypeInv, HandleTyped
  <2>4. ASSUME NEW u \in Tasks, u # t, handle[u] # None
        PROVE  co'[handle[u]] = co[handle[u]]
    BY <2>1, <2>2, <2>4 DEF TypeInv, HandleTyped, HandleInv
  <2> QED
    BY <2>2, <2>3, <2>4 DEF HandleInv
<1> QED
  BY <1>1, <1>2

\* A handle points to a coroutine of its task until the done callback.
LEMMA HandleStep == TypeInv /\ HandleInv /\ [Next]_vars => HandleInv'
<1> SUFFICES ASSUME TypeInv, HandleInv, [Next]_vars PROVE HandleInv'
  OBVIOUS
<1>0. handle \in [Tasks -> Coros \cup {None}] /\ DataTyped /\ CoTyped /\ ReqTyped
  BY DEF TypeInv, HandleTyped
<1>1. CASE UNCHANGED <<handle, co>>
  BY <1>1 DEF HandleInv
<1>2. CASE Consume
  <2>1. Head(queue) \in Tasks /\ "run" \in Kinds /\ Spawn(Head(queue), "run")
    BY <1>0, <1>2 DEF Consume, Kinds, DataTyped
  <2> QED
    BY <2>1, SpawnHandle
<1>3. ASSUME NEW c \in Coros, CoroStep(c) \/ ForceCancel(c), ~DoneCallback(c)
      PROVE  HandleInv'
  <2>1. CoroDoes(c)
    BY <1>3, CoroSteps
  <2>2. handle' = handle /\ OnlyMoves(c) /\ co'[c].pc # "free"
    BY <2>1 DEF CoroDoes, Working
  <2> QED
    BY <1>0, <2>2 DEF HandleInv, OnlyMoves
<1>4. ASSUME NEW c \in Coros, DoneCallback(c) PROVE HandleInv'
  <2>1. \A d \in Coros \ {c} : co'[d] = co[d]
    BY <1>0, <1>4 DEF DoneCallback, CoTyped
  <2>2. \A u \in Tasks : handle'[u] \in {handle[u], None} /\ handle'[u] # c
    BY <1>0, <1>4, QueueAssumption DEF DoneCallback, HandleInv
  <2> QED
    BY <1>0, <2>1, <2>2 DEF HandleInv
<1>5. ASSUME NEW r \in Reqs, SubmitResume(r) PROVE HandleInv'
  <2>1. /\ req[r].task \in Tasks /\ KindOf(req[r].op) \in Kinds
        /\ Spawn(req[r].task, KindOf(req[r].op))
    BY <1>0, <1>5 DEF SubmitResume, KindOf, Kinds, ReqTyped
  <2> QED
    BY <2>1, SpawnHandle
<1>6. ASSUME NEW r \in Reqs, ReqStep(r), ~SubmitResume(r) PROVE HandleInv'
  BY <1>1, <1>6 DEF ReqStep, CreateInsert, CreateSubmit, OwnedTask, CancelTask, CancelRow,
     DeleteRow, DeleteThreadCheckpoints, RequestFails
<1>7. CASE Crash \/ EndStop
  <2>1. \A u \in Tasks : handle'[u] = None
    BY <1>7 DEF Crash, EndStop, ForgetMemory
  <2> QED
    BY <2>1 DEF HandleInv
<1>8. CASE BeginStop \/ Restart \/ UNCHANGED vars
  BY <1>1, <1>8 DEF BeginStop, Restart, vars
<1> QED
  BY <1>2, <1>3, <1>4, <1>5, <1>6, <1>7, <1>8 DEF Next

\* What is true in every step: types and the facts proved above.
Known == TypeInv /\ OneExecutorPerTask /\ KnownIssued

\* A step after which no more tasks wait, no waiting row was written, and no
\* coroutine or decision came up for a waiting task, keeps FirstInv.
LEMMA FirstKept ==
    ASSUME FirstInv,
           \A t \in Tasks : Waits(t)' =>
             /\ Waits(t)
             /\ row'[t] \in {row[t], "absent", "queued", "canceled"}
             /\ \A c \in Coros : co'[c].pc # "free" =>
                  co'[c].task # t \/ (co[c].pc # "free" /\ co'[c].task = co[c].task)
             /\ \A r \in Reqs : req'[r].pc = "admitted" /\ req'[r].op \in Decisions =>
                  req'[r].task # t \/ req'[r] = req[r]
    PROVE  FirstInv'
BY DEF FirstInv

\* The same for the order of the queue: no task begins to wait.
LEMMA OnceKept ==
    ASSUME OnceInv, UNCHANGED queue,
           \A r \in Reqs : req'[r].pc = "inserted" => req'[r] = req[r]
    PROVE  OnceInv' /\ \A t \in Tasks : Waits(t)' => Waits(t)
BY DEF OnceInv, QueuedOnce, InQueue, Inserted, Waits

\* Every step keeps what is known of tasks that wait to be executed first.
LEMMA WaitStep == Known /\ HandleInv /\ WaitInv /\ [Next]_vars => WaitInv'
<1> SUFFICES ASSUME Known, HandleInv, WaitInv, [Next]_vars PROVE WaitInv'
  OBVIOUS
<1>0. /\ TypeInv /\ DataTyped /\ CoTyped /\ ReqTyped /\ HandleTyped
      /\ FirstInv /\ OnceInv /\ DownInv /\ KnownIssued
  BY DEF Known, TypeInv, WaitInv
<1>t. /\ \A c \in Coros : co[c].pc # "free" => co[c].task \in Tasks
      /\ \A r \in Reqs : req[r].pc # "idle" => req[r].task \in Tasks
      /\ row \in [Tasks -> Statuses \cup {"absent"}]
  BY <1>0 DEF CoTyped, ReqTyped, DataTyped
<1>1. CASE Consume
  <2>1. /\ QueuedOnce' /\ Head(queue) \in Tasks /\ InQueue(Head(queue))
        /\ \A t : InQueue(t)' <=> InQueue(t) /\ t # Head(queue)
    BY <1>0, <1>1, TailQueue DEF Consume, OnceInv
  <2>2. UNCHANGED <<row, req, proc>> /\ proc = "up"
    BY <1>1 DEF Consume
  <2>3. \A t \in Tasks : Waits(t)' => Waits(t) /\ t # Head(queue)
    BY <1>0, <2>1, <2>2 DEF Waits, Inserted, OnceInv
  <2>4. \A d \in Coros : \/ co'[d] = co[d]
                         \/ co'[d].pc = "spawned" /\ co'[d].task = Head(queue)
    BY <1>0, <1>1, <2>1, SpawnFields DEF Consume, Kinds
  <2>5. FirstInv'
    BY <1>0, <2>2, <2>3, <2>4, FirstKept
  <2>6. OnceInv'
    BY <1>0, <2>1, <2>2 DEF OnceInv, Inserted
  <2> QED
    BY <2>2, <2>5, <2>6 DEF WaitInv, DownInv
<1>2. ASSUME NEW c \in Coros, CoroStep(c) \/ ForceCancel(c), ~DoneCallback(c)
      PROVE  WaitInv'
  <2>1. CoroDoes(c)
    BY <1>0, <1>2, CoroSteps
  <2>2. /\ UNCHANGED <<queue, req, proc>> /\ OnlyMoves(c)
        /\ co[c].pc # "free" /\ co[c].task \in Tasks
    BY <1>t, <2>1 DEF CoroDoes, Working
  <2>3. \A u \in Tasks \ {co[c].task} : row'[u] = row[u]
    BY <1>0, <2>1, <2>2, UpdateDoes, UpdateFailsDoes DEF CoroDoes
  <2>4. OnceInv' /\ \A t \in Tasks : Waits(t)' => Waits(t)
    BY <1>0, <2>2, OnceKept
  <2>5. ~Waits(co[c].task)
    BY <1>0, <2>2 DEF FirstInv
  <2>6. FirstInv'
    BY <1>0, <2>2, <2>3, <2>4, <2>5, FirstKept DEF OnlyMoves
  <2> QED
    BY <1>0, <2>2, <2>4, <2>6 DEF WaitInv, DownInv
<1>3. ASSUME NEW c \in Coros, DoneCallback(c) PROVE WaitInv'
  <2>1. /\ UNCHANGED <<queue, req, proc, row>>
        /\ co'[c].pc = "free" /\ \A d \in Coros \ {c} : co'[d] = co[d]
    BY <1>0, <1>3, NoCoroType DEF DoneCallback, CoTyped
  <2>2. OnceInv' /\ \A t \in Tasks : Waits(t)' => Waits(t)
    BY <1>0, <2>1, OnceKept
  <2>3. FirstInv'
    BY <1>0, <2>1, <2>2, FirstKept
  <2> QED
    BY <1>0, <2>1, <2>2, <2>3 DEF WaitInv, DownInv
<1>4. ASSUME NEW r \in Reqs, CreateInsert(r) PROVE WaitInv'
  <2>1. PICK t \in Tasks \ issued :
           /\ row' = [row EXCEPT ![t] = "queued"]
           /\ req' = [req EXCEPT ![r] = [pc |-> "inserted", op |-> "create", task |-> t]]
    BY <1>4 DEF CreateInsert
  <2>2. /\ req'[r].pc = "inserted" /\ req'[r].task = t
        /\ \A q \in Reqs \ {r} : req'[q] = req[q]
        /\ UNCHANGED <<queue, co, proc>> /\ proc = "up"
        /\ row'[t] = "queued" /\ \A u \in Tasks \ {t} : row'[u] = row[u]
        /\ req[r].pc = "idle"
    BY <1>0, <1>t, <1>4, <2>1 DEF CreateInsert, ReqTyped
  <2>3. ~InQueue(t)
    BY <1>0, <2>1 DEF KnownIssued, InQueue
  <2>4. \A q \in Reqs : req[q].pc # "idle" => req[q].task # t
    BY <1>0, <2>1 DEF KnownIssued
  <2>5. \A c \in Coros : co[c].pc # "free" => co[c].task # t
    BY <1>0, <2>1 DEF KnownIssued
  <2>6. \A u \in Tasks \ {t} : Waits(u)' => Waits(u)
    BY <2>2 DEF Waits, InQueue, Inserted
  <2>7. OnceInv'
    <3>1. QueuedOnce'
      BY <1>0, <2>2 DEF OnceInv, QueuedOnce
    <3>2. ASSUME NEW u \in Tasks PROVE ~(InQueue(u) /\ Inserted(u))'
      BY <1>0, <2>2, <2>3 DEF OnceInv, InQueue, Inserted
    <3>3. ASSUME NEW p \in Reqs, NEW q \in Reqs, req'[p].pc = "inserted",
                 req'[q].pc = "inserted", req'[p].task = req'[q].task
          PROVE  p = q
      BY <1>0, <2>2, <2>4, <3>3 DEF OnceInv
    <3> QED
      BY <3>1, <3>2, <3>3 DEF OnceInv
  <2>8. FirstInv'
    <3>1. ASSUME NEW u \in Tasks, u # t, Waits(u)' PROVE FirstInv!(u)!2'
      BY <1>0, <2>2, <2>6, <3>1 DEF FirstInv
    <3>2. FirstInv!(t)!2'
      BY <2>2, <2>4, <2>5
    <3> QED
      BY <3>1, <3>2 DEF FirstInv
  <2> QED
    BY <2>2, <2>7, <2>8 DEF WaitInv, DownInv
<1>5. ASSUME NEW r \in Reqs, CreateSubmit(r) PROVE WaitInv'
  <2> DEFINE t == req[r].task
  <2>1. /\ req[r].pc = "inserted" /\ t \in Tasks /\ UNCHANGED <<co, proc>>
        /\ queue' = Append(queue, t) /\ UpdateTask(t, "queued")
    BY <1>t, <1>5 DEF CreateSubmit
  <2>2. /\ req'[r].pc = "idle" /\ \A q \in Reqs \ {r} : req'[q] = req[q]
    BY <1>0, <1>5, NoReqType DEF CreateSubmit, ReqTyped
  <2>3. Inserted(t) /\ ~InQueue(t)
    BY <1>0, <2>1 DEF OnceInv, Inserted
  <2>4. QueuedOnce' /\ \A u : InQueue(u)' <=> InQueue(u) \/ u = t
    BY <1>0, <2>1, <2>3, AppendQueue DEF OnceInv
  <2>5. \A u \in Tasks \ {t} : row'[u] = row[u]
    BY <1>0, <2>1, UpdateDoes
  <2>6. row'[t] \in {"absent", "queued"}
    BY <1>0, <2>1, UpdateDoes
  <2>7. \A u \in Tasks : Inserted(u)' => Inserted(u) /\ u # t
    BY <1>0, <2>1, <2>2 DEF OnceInv, Inserted
  <2>8. \A u \in Tasks : Waits(u)' => Waits(u)
    BY <2>3, <2>4, <2>7 DEF Waits
  <2>9. FirstInv'
    BY <1>0, <2>1, <2>2, <2>5, <2>6, <2>8, FirstKept
  <2>10. OnceInv'
    BY <1>0, <2>2, <2>4, <2>7 DEF OnceInv
  <2>11. proc # "down"
    BY <1>0, <2>1 DEF DownInv
  <2> QED
    BY <2>1, <2>9, <2>10, <2>11 DEF WaitInv, DownInv
<1>6. ASSUME NEW r \in Reqs, OwnedTask(r) PROVE WaitInv'
  <2>1. PICK op \in ClientOps, t \in issued :
           /\ Admits(op, row[t])
           /\ req' = [req EXCEPT ![r] = [pc |-> "admitted", op |-> op, task |-> t]]
    BY <1>6 DEF OwnedTask
  <2>2. /\ req'[r].pc = "admitted" /\ req'[r].op = op /\ req'[r].task = t
        /\ \A q \in Reqs \ {r} : req'[q] = req[q]
        /\ UNCHANGED <<queue, co, proc, row>> /\ proc = "up" /\ t \in Tasks
    BY <1>0, <1>6, <2>1 DEF OwnedTask, ReqTyped, DataTyped
  <2>3. op \in Decisions => ~Waits(t)
    BY <1>0, <2>1, <2>2 DEF Admits, Decisions, FirstInv
  <2>4. OnceInv' /\ \A u \in Tasks : Waits(u)' => Waits(u)
    BY <1>0, <2>2, OnceKept
  <2>5. FirstInv'
    BY <1>0, <2>2, <2>3, <2>4, FirstKept
  <2> QED
    BY <2>2, <2>4, <2>5 DEF WaitInv, DownInv
<1>7. ASSUME NEW r \in Reqs, SubmitResume(r) PROVE WaitInv'
  <2>1. /\ req'[r].pc = "idle" /\ \A q \in Reqs \ {r} : req'[q] = req[q]
        /\ UNCHANGED <<queue, proc, row>>
    BY <1>0, <1>7, NoReqType DEF SubmitResume, ReqTyped
  <2>2. /\ req[r].pc = "admitted" /\ req[r].op \in Decisions
        /\ req[r].task \in Tasks /\ KindOf(req[r].op) \in Kinds
        /\ Spawn(req[r].task, KindOf(req[r].op))
    BY <1>t, <1>7 DEF SubmitResume, KindOf, Kinds, Decisions
  <2>3. \A d \in Coros : \/ co'[d] = co[d]
                         \/ co'[d].pc = "spawned" /\ co'[d].task = req[r].task
    BY <1>0, <2>2, SpawnFields
  <2>4. ~Waits(req[r].task)
    BY <1>0, <2>2 DEF FirstInv
  <2>5. OnceInv' /\ \A u \in Tasks : Waits(u)' => Waits(u)
    BY <1>0, <2>1, OnceKept
  <2>6. FirstInv'
    BY <1>0, <2>1, <2>3, <2>4, <2>5, FirstKept
  <2>7. proc # "down"
    BY <1>0, <2>2 DEF DownInv
  <2> QED
    BY <2>1, <2>5, <2>6, <2>7 DEF WaitInv, DownInv
<1>8. ASSUME NEW r \in Reqs,
             \/ CancelTask(r) \/ CancelRow(r) \/ DeleteRow(r) \/ DeleteThreadCheckpoints(r)
             \/ RequestFails(r)
      PROVE  WaitInv'
  <2>1. /\ req'[r].pc \in {"idle", "notInFlight", "rowDeleted"}
        /\ \A q \in Reqs \ {r} : req'[q] = req[q]
    BY <1>0, <1>8, NoReqType DEF CancelTask, CancelRow, DeleteRow, DeleteThreadCheckpoints,
       RequestFails, ReqTyped, Request
  <2>2. /\ UNCHANGED <<queue, co, proc>>
        /\ req[r].pc # "idle" /\ req[r].task \in Tasks
    BY <1>t, <1>8 DEF CancelTask, CancelRow, DeleteRow, DeleteThreadCheckpoints, RequestFails
  <2>3. \A u \in Tasks : row'[u] \in {row[u], "absent", "canceled", "queued"}
    <3>1. CASE CancelRow(r)
      BY <1>0, <2>2, <3>1, UpdateDoes DEF CancelRow
    <3>2. CASE DeleteRow(r)
      BY <1>t, <2>2, <3>2 DEF DeleteRow
    <3>3. CASE RequestFails(r)
      BY <1>0, <2>2, <3>3, UpdateFailsDoes DEF RequestFails
    <3> QED
      BY <1>8, <3>1, <3>2, <3>3 DEF CancelTask, DeleteThreadCheckpoints
  <2>4. OnceInv' /\ \A u \in Tasks : Waits(u)' => Waits(u)
    BY <1>0, <2>1, <2>2, OnceKept
  <2>5. FirstInv'
    BY <1>0, <2>1, <2>2, <2>3, <2>4, FirstKept
  <2>6. proc # "down"
    BY <1>0, <2>2 DEF DownInv
  <2> QED
    BY <2>2, <2>4, <2>5, <2>6 DEF WaitInv, DownInv
<1>9. CASE Crash \/ EndStop
  <2>1. queue' = <<>> /\ \A r \in Reqs : req'[r].pc = "idle"
    BY <1>9, NoReqType DEF Crash, EndStop, ForgetMemory
  <2>2. \A t \in Tasks : ~InQueue(t)' /\ ~Inserted(t)'
    BY <2>1 DEF InQueue, Inserted
  <2>3. QueuedOnce'
    BY <2>1 DEF QueuedOnce
  <2> QED
    BY <2>1, <2>2, <2>3 DEF WaitInv, FirstInv, OnceInv, DownInv, Waits
<1>10. CASE BeginStop
  <2>1. UNCHANGED <<queue, req, co, row>> /\ proc' # "down"
    BY <1>10 DEF BeginStop
  <2>2. OnceInv' /\ \A u \in Tasks : Waits(u)' => Waits(u)
    BY <1>0, <2>1, OnceKept
  <2> QED
    BY <1>0, <2>1, <2>2, FirstKept DEF WaitInv, DownInv
<1>11. CASE Restart
  <2>1. /\ UNCHANGED <<queue, req, co>> /\ proc' # "down"
        /\ queue = <<>> /\ \A r \in Reqs : req[r].pc = "idle"
    BY <1>0, <1>11 DEF Restart, DownInv
  <2>2. OnceInv' /\ \A u \in Tasks : ~Waits(u)'
    BY <1>0, <2>1, OnceKept DEF Waits, InQueue, Inserted
  <2> QED
    BY <2>1, <2>2 DEF WaitInv, FirstInv, DownInv
<1>12. CASE UNCHANGED vars
  <2>1. UNCHANGED <<queue, req, co, row, proc>>
    BY <1>12 DEF vars
  <2>2. OnceInv' /\ \A u \in Tasks : Waits(u)' => Waits(u)
    BY <1>0, <2>1, OnceKept
  <2> QED
    BY <1>0, <2>1, <2>2, FirstKept DEF WaitInv, DownInv
<1> QED
  BY <1>1, <1>2, <1>3, <1>4, <1>5, <1>6, <1>7, <1>8, <1>9, <1>10, <1>11, <1>12
  DEF Next, ReqStep

\* A coroutine that has written back leaves a row that is not active, and an
\* active row has a driver, after every step.
LEMMA DrivenStep == Known /\ DriverInv /\ [Next]_vars => LeavingInv' /\ DrivenInv'
<1> SUFFICES ASSUME Known, DriverInv, [Next]_vars PROVE LeavingInv' /\ DrivenInv'
  OBVIOUS
<1>0. /\ TypeInv /\ DataTyped /\ CoTyped /\ ReqTyped /\ HandleTyped /\ KnownIssued
      /\ FirstInv /\ OnceInv /\ DownInv /\ HandleInv /\ LeavingInv /\ DrivenInv
  BY DEF Known, TypeInv, DriverInv, WaitInv
<1>t. /\ \A c \in Coros : co[c].pc # "free" => co[c].task \in Tasks
      /\ \A r \in Reqs : req[r].pc # "idle" => req[r].task \in Tasks
      /\ row \in [Tasks -> Statuses \cup {"absent"}]
  BY <1>0 DEF CoTyped, ReqTyped, DataTyped
<1>k. ASSUME UNCHANGED <<row, co, proc, orphaned>>, \A t \in Tasks : Waits(t) => Waits(t)'
      PROVE  LeavingInv' /\ DrivenInv'
  BY <1>0, <1>k DEF LeavingInv, DrivenInv, Driven
<1>1. CASE Consume
  <2> PICK t \in Tasks : t = Head(queue)
    BY <1>0, <1>1, TailQueue DEF Consume, OnceInv
  <2>1. /\ InQueue(t)
        /\ \A u : InQueue(u)' <=> InQueue(u) /\ u # t
    BY <1>0, <1>1, TailQueue DEF Consume, OnceInv
  <2>2. UNCHANGED <<row, req, proc, orphaned>> /\ Spawn(t, "run")
    BY <1>1 DEF Consume
  <2>3. \A c \in Coros : co[c].pc # "free" => co[c].task # t
    BY <1>0, <2>1 DEF FirstInv, Waits
  <2>4. ~InFlight(t)
    BY <1>0, <2>1, <2>3 DEF InFlight, HandleInv, HandleTyped
  <2>5. PICK c \in Coros : /\ co[c].pc = "free"
                           /\ co' = [co EXCEPT ![c] = CoroAt("spawned", t, "run")]
    BY <2>2, <2>4 DEF Spawn
  <2>6. /\ co'[c].pc = "spawned" /\ co'[c].task = t
        /\ \A d \in Coros \ {c} : co'[d] = co[d]
    BY <1>0, <2>5 DEF CoTyped, CoroAt
  <2>7. LeavingInv'
    BY <1>0, <2>2, <2>6 DEF LeavingInv
  <2>8. ASSUME NEW u \in Tasks, Driven(u) PROVE Driven(u)'
    <3>1. CASE u = t
      BY <2>6, <3>1 DEF Driven, Working
    <3>2. CASE u # t
      BY <2>1, <2>2, <2>5, <2>6, <2>8, <3>2 DEF Driven, Waits, Inserted, Working
    <3> QED
      BY <3>1, <3>2
  <2> QED
    BY <1>0, <2>2, <2>7, <2>8 DEF DrivenInv
<1>2. ASSUME NEW c \in Coros, CoroStep(c) \/ ForceCancel(c), ~DoneCallback(c)
      PROVE  LeavingInv' /\ DrivenInv'
  <2>1. CoroDoes(c)
    BY <1>0, <1>2, CoroSteps
  <2> PICK t \in Tasks : t = co[c].task
    BY <1>t, <2>1 DEF CoroDoes, Working
  <2>2. /\ UNCHANGED <<queue, req, proc>> /\ OnlyMoves(c)
        /\ co[c].pc # "free" /\ Live(c)
    BY <2>1 DEF CoroDoes, Working, Live
  <2>3. \A u \in Tasks \ {t} : row'[u] = row[u] /\ (u \in orphaned => u \in orphaned')
    BY <1>0, <2>1, <2>2, UpdateDoes, UpdateFailsDoes DEF CoroDoes, DriverEnds
  <2>4. \A d \in Coros \ {c} : co[d].pc = "leaving" => co[d].task \in Tasks \ {t}
    BY <1>t, <2>2 DEF Known, OneExecutorPerTask, Live
  <2>5. co'[c].pc = "leaving" => row'[t] \notin Active
    <3>1. ASSUME co'[c].pc = "leaving" PROVE co[c].pc = "writing" /\
             \E st \in Outcomes \cup {"waiting_approval"} : UpdateTask(t, st)
      BY <2>1, <3>1 DEF CoroDoes, Working
    <3> QED
      BY <1>0, <3>1, UpdateDoes DEF Active, Outcomes
  <2>6. LeavingInv'
    BY <1>0, <2>2, <2>3, <2>4, <2>5 DEF LeavingInv, OnlyMoves
  <2>7. \/ co'[c].pc \in Working \/ row'[t] \notin Active \/ t \in orphaned'
        \/ proc = "draining"
    <3>1. CASE co'[c].pc = "leaving"
      BY <2>5, <3>1
    <3>2. CASE /\ UNCHANGED <<row, orphaned>>
               /\ row[t] = "absent" \/ co[c].pc = "leaving" \/ proc = "draining"
      BY <1>0, <3>2 DEF LeavingInv, Active
    <3>3. CASE DriverEnds(t)
      BY <3>3 DEF DriverEnds
    <3> QED
      BY <2>1, <3>1, <3>2, <3>3 DEF CoroDoes
  <2>8. ASSUME NEW u \in Tasks, u # t, Driven(u) PROVE Driven(u)'
    BY <2>2, <2>3, <2>8 DEF Driven, Waits, InQueue, Inserted, OnlyMoves
  <2>9. co'[c].pc \in Working => Driven(t)'
    BY <2>2 DEF Driven, OnlyMoves
  <2> QED
    BY <1>0, <2>2, <2>3, <2>6, <2>7, <2>8, <2>9 DEF DrivenInv
<1>3. ASSUME NEW c \in Coros, DoneCallback(c) PROVE LeavingInv' /\ DrivenInv'
  <2>1. /\ UNCHANGED <<queue, req, proc, row, orphaned>> /\ co[c].pc = "finished"
        /\ co'[c].pc = "free" /\ \A d \in Coros \ {c} : co'[d] = co[d]
    BY <1>0, <1>3, NoCoroType DEF DoneCallback, CoTyped
  <2>2. LeavingInv'
    BY <1>0, <2>1 DEF LeavingInv
  <2>3. ASSUME NEW u \in Tasks, Driven(u) PROVE Driven(u)'
    BY <2>1, <2>3 DEF Driven, Waits, InQueue, Inserted, Working
  <2> QED
    BY <1>0, <2>1, <2>2, <2>3 DEF DrivenInv
<1>4. ASSUME NEW r \in Reqs, CreateInsert(r) PROVE LeavingInv' /\ DrivenInv'
  <2>1. PICK t \in Tasks \ issued :
           /\ row' = [row EXCEPT ![t] = "queued"]
           /\ req' = [req EXCEPT ![r] = [pc |-> "inserted", op |-> "create", task |-> t]]
    BY <1>4 DEF CreateInsert
  <2>2. /\ req'[r].pc = "inserted" /\ req'[r].task = t
        /\ \A q \in Reqs \ {r} : req'[q] = req[q]
        /\ UNCHANGED <<queue, co, proc, orphaned>>
        /\ row'[t] = "queued" /\ \A u \in Tasks \ {t} : row'[u] = row[u]
        /\ req[r].pc = "idle"
    BY <1>0, <1>t, <1>4, <2>1 DEF CreateInsert, ReqTyped
  <2>3. \A c \in Coros : co[c].pc # "free" => co[c].task # t /\ co[c].task \in Tasks
    BY <1>0, <1>t, <2>1 DEF KnownIssued
  <2>4. LeavingInv'
    BY <1>0, <2>2, <2>3 DEF LeavingInv
  <2>5. Driven(t)'
    BY <2>2 DEF Driven, Waits, Inserted
  <2>6. ASSUME NEW u \in Tasks, u # t, Driven(u) PROVE Driven(u)'
    BY <2>2, <2>6 DEF Driven, Waits, InQueue, Inserted
  <2> QED
    BY <1>0, <2>2, <2>4, <2>5, <2>6 DEF DrivenInv
<1>5. ASSUME NEW r \in Reqs, CreateSubmit(r) PROVE LeavingInv' /\ DrivenInv'
  <2> PICK t \in Tasks : t = req[r].task
    BY <1>t, <1>5 DEF CreateSubmit
  <2>1. /\ req[r].pc = "inserted" /\ UNCHANGED <<co, proc>>
        /\ queue' = Append(queue, t) /\ UpdateTask(t, "queued")
    BY <1>t, <1>5 DEF CreateSubmit
  <2>2. \A q \in Reqs \ {r} : req'[q] = req[q]
    BY <1>0, <1>5 DEF CreateSubmit, ReqTyped
  <2>3. Inserted(t) /\ ~InQueue(t)
    BY <1>0, <2>1 DEF OnceInv, Inserted
  <2>4. \A u : InQueue(u)' <=> InQueue(u) \/ u = t
    BY <1>0, <2>1, <2>3, AppendQueue DEF OnceInv
  <2>5. /\ row'[t] \in {"absent", "queued"}
        /\ \A u \in Tasks \ {t} : row'[u] = row[u] /\ (u \in orphaned => u \in orphaned')
    BY <1>0, <2>1, UpdateDoes
  <2>6. \A c \in Coros : co[c].pc # "free" => co[c].task # t /\ co[c].task \in Tasks
    BY <1>0, <1>t, <2>1, <2>3 DEF FirstInv, Waits
  <2>7. LeavingInv'
    BY <1>0, <2>1, <2>5, <2>6 DEF LeavingInv
  <2>8. row'[t] \in Active => Driven(t)'
    BY <2>4, <2>5 DEF Driven, Waits, Active
  <2>9. ASSUME NEW u \in Tasks, u # t, Driven(u) PROVE Driven(u)'
    BY <2>1, <2>2, <2>4, <2>5, <2>9 DEF Driven, Waits, Inserted
  <2> QED
    BY <1>0, <2>1, <2>5, <2>7, <2>8, <2>9 DEF DrivenInv
<1>6. ASSUME NEW r \in Reqs, OwnedTask(r) PROVE LeavingInv' /\ DrivenInv'
  <2>1. req[r].pc = "idle" /\ \A q \in Reqs \ {r} : req'[q] = req[q]
    BY <1>0, <1>6 DEF OwnedTask, ReqTyped
  <2> QED
    BY <1>k, <1>6, <2>1 DEF OwnedTask, Waits, InQueue, Inserted
<1>7. ASSUME NEW r \in Reqs, SubmitResume(r) PROVE LeavingInv' /\ DrivenInv'
  <2>1. /\ \A q \in Reqs \ {r} : req'[q] = req[q]
        /\ UNCHANGED <<queue, proc, row, orphaned>> /\ req[r].pc = "admitted"
    BY <1>0, <1>7 DEF SubmitResume, ReqTyped
  <2>2. /\ req[r].task \in Tasks /\ KindOf(req[r].op) \in Kinds
        /\ Spawn(req[r].task, KindOf(req[r].op))
    BY <1>t, <1>7 DEF SubmitResume, KindOf, Kinds
  <2>3. \A d \in Coros : \/ co'[d] = co[d]
                         \/ co[d].pc = "free" /\ co'[d].pc = "spawned"
    BY <1>0, <2>2, SpawnsFree
  <2>4. LeavingInv'
    BY <1>0, <2>1, <2>3 DEF LeavingInv
  <2>5. ASSUME NEW u \in Tasks, Driven(u) PROVE Driven(u)'
    BY <2>1, <2>3, <2>5 DEF Driven, Waits, InQueue, Inserted, Working
  <2> QED
    BY <1>0, <2>1, <2>4, <2>5 DEF DrivenInv
<1>8. ASSUME NEW r \in Reqs, CancelTask(r) \/ DeleteThreadCheckpoints(r)
      PROVE  LeavingInv' /\ DrivenInv'
  <2>1. req[r].pc # "inserted" /\ \A q \in Reqs \ {r} : req'[q] = req[q]
    BY <1>0, <1>8 DEF CancelTask, DeleteThreadCheckpoints, ReqTyped
  <2> QED
    BY <1>k, <1>8, <2>1 DEF CancelTask, DeleteThreadCheckpoints, Waits, InQueue, Inserted
<1>9. ASSUME NEW r \in Reqs, CancelRow(r) \/ DeleteRow(r) \/ RequestFails(r)
      PROVE  LeavingInv' /\ DrivenInv'
  <2> PICK t \in Tasks : t = req[r].task
    BY <1>t, <1>9 DEF CancelRow, DeleteRow, RequestFails
  <2>1. /\ \A q \in Reqs \ {r} : req'[q] = req[q]
        /\ UNCHANGED <<queue, co, proc>>
    BY <1>0, <1>9 DEF CancelRow, DeleteRow, RequestFails, ReqTyped
  <2>2. CASE req[r].pc # "inserted" /\ UNCHANGED <<row, orphaned>>
    BY <1>k, <2>1, <2>2 DEF Waits, InQueue, Inserted
  <2>3. CASE ~(req[r].pc # "inserted" /\ UNCHANGED <<row, orphaned>>)
    <3>1. \/ row'[t] \notin Active
          \/ t \in orphaned' /\ Inserted(t)
      <4>1. CASE CancelRow(r)
        BY <1>0, <4>1, UpdateDoes DEF CancelRow, Active
      <4>2. CASE DeleteRow(r)
        BY <1>t, <4>2 DEF DeleteRow, Active
      <4>3. CASE RequestFails(r)
        <5>1. req[r].pc = "inserted" /\ DriverEnds(t)
          BY <2>3, <4>3 DEF RequestFails
        <5> QED
          BY <5>1 DEF DriverEnds, Inserted
      <4> QED
        BY <1>9, <4>1, <4>2, <4>3
    <3>2. \A u \in Tasks \ {t} : row'[u] = row[u] /\ (u \in orphaned => u \in orphaned')
      <4>1. CASE CancelRow(r)
        BY <1>0, <4>1, UpdateDoes DEF CancelRow
      <4>2. CASE DeleteRow(r)
        BY <1>t, <4>2 DEF DeleteRow
      <4>3. CASE RequestFails(r)
        BY <1>0, <4>3, UpdateFailsDoes DEF RequestFails, DriverEnds
      <4> QED
        BY <1>9, <4>1, <4>2, <4>3
    <3>3. LeavingInv'
      <4>1. ASSUME NEW c \in Coros, co[c].pc = "leaving", co[c].task = t
            PROVE  row'[t] \notin Active
        BY <1>0, <3>1, <4>1 DEF FirstInv, Waits
      <4> QED
        BY <1>0, <1>t, <2>1, <3>2, <4>1 DEF LeavingInv
    <3>4. ASSUME NEW u \in Tasks, u # t, Driven(u) PROVE Driven(u)'
      BY <2>1, <3>2, <3>4 DEF Driven, Waits, InQueue, Inserted
    <3> QED
      BY <1>0, <2>1, <3>1, <3>2, <3>3, <3>4 DEF DrivenInv
  <2> QED
    BY <2>2, <2>3
<1>10. CASE Crash \/ EndStop
  <2>1. proc' = "down" /\ \A c \in Coros : co'[c].pc = "free"
    BY <1>10, NoCoroType DEF Crash, EndStop, ForgetMemory
  <2> QED
    BY <2>1 DEF LeavingInv, DrivenInv
<1>11. CASE BeginStop
  BY <1>0, <1>11 DEF BeginStop, LeavingInv, DrivenInv
<1>12. CASE Restart
  <2>1. UNCHANGED co /\ \A t \in Tasks : row'[t] \notin Active
    BY <1>t, <1>12 DEF Restart, Active
  <2> QED
    BY <1>t, <2>1 DEF LeavingInv, DrivenInv
<1>13. CASE UNCHANGED vars
  BY <1>k, <1>13 DEF vars, Waits, InQueue, Inserted
<1> QED
  BY <1>1, <1>2, <1>3, <1>4, <1>5, <1>6, <1>7, <1>8, <1>9, <1>10, <1>11, <1>12, <1>13
  DEF Next, ReqStep

\* While the process is up, every queued or running row is moved on by
\* somebody: the handler that submits it, the queue, or a coroutine that has
\* yet to write back; or a failing call to the database ended the handler or
\* the coroutine.  fail_interrupted_tasks is what makes it so at the start,
\* _spawn's refusal never strands the head of the queue, and the except branch
\* of _execute makes up for a run that raised and for a final write that failed.
THEOREM ActiveRowsAreDriven == Spec => []ActiveRowHasDriver
<1>1. Init => DriverInv
  <2> SUFFICES ASSUME Init PROVE DriverInv
    OBVIOUS
  <2>1. /\ queue = <<>> /\ proc = "up"
        /\ \A r \in Reqs : req[r].pc = "idle"
        /\ \A c \in Coros : co[c].pc = "free"
        /\ \A t \in Tasks : handle[t] = None /\ row[t] = "absent"
    BY NoCoroType, NoReqType DEF Init
  <2>2. \A t \in Tasks : ~InQueue(t) /\ ~Inserted(t)
    BY <2>1 DEF InQueue, Inserted
  <2>3. QueuedOnce
    BY <2>1 DEF QueuedOnce
  <2> QED
    BY <2>1, <2>2, <2>3 DEF DriverInv, WaitInv, FirstInv, OnceInv, DownInv, HandleInv,
       LeavingInv, DrivenInv, Waits, Active
<1>2. TypeInv /\ OneExecutorPerTask /\ AgreeInv /\ DriverInv /\ [Next]_vars => DriverInv'
  BY HandleStep, WaitStep, DrivenStep DEF Known, AgreeInv, DriverInv
<1>3. TypeInv /\ DriverInv => ActiveRowHasDriver
  <2> SUFFICES ASSUME TypeInv, DriverInv, proc = "up", NEW t \in Tasks, row[t] \in Active,
                      t \notin orphaned
               PROVE  HasDriver(t)
    BY DEF ActiveRowHasDriver
  <2>1. Driven(t)
    BY DEF DriverInv, DrivenInv
  <2> QED
    BY <2>1 DEF Driven, HasDriver, Waits, InQueue, Inserted, Working, Live
<1>4. Init => AgreeInv
  BY InitAgrees
<1> QED
  BY <1>1, <1>2, <1>3, <1>4, InitTyped, TypeInvInductive, OneExecution, AgreeInductive, PTL
  DEF Spec
=============================================================================
