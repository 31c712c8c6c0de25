--------------------------- MODULE LocalTaskQueue ---------------------------
(***************************************************************************)
(* The life of a task in the default deployment: API handlers, the asyncio *)
(* queue and its coroutines (app/worker/local_queue.py), the rows of the   *)
(* tasks table they share (app/storage/repository.py), the checkpoint the  *)
(* engine leaves behind (app/graph/engine.py), a graceful stop, a kill and *)
(* the sweep at the next start.                                            *)
(*                                                                         *)
(* Every await that touches the database ends an action, so handlers and   *)
(* coroutines interleave exactly where the event loop can switch.  What    *)
(* the graph computes is left to module AgentGraph: here a run of the      *)
(* engine may finish with any status, stop at the approval gate or raise.  *)
(* Every call to the database may raise, with or without having taken      *)
(* effect.                                                                 *)
(***************************************************************************)
EXTENDS Naturals, Sequences, FiniteSets

CONSTANTS
    Tasks,          \* task ids that new_task_id can return
    Coros,          \* identities of asyncio.Task objects, recycled when forgotten
    Reqs,           \* HTTP requests that can be in flight together
    Gated,          \* the tasks submitted with require_approval
    ClientOps,      \* what clients may ask of a task they own
    Ends,           \* the statuses with which the graph may reach END
    MaxConcurrent,  \* settings.max_concurrent_tasks
    MaxStarts,      \* bound: how often the process starts again
    None            \* "no handle" / "no task"

ASSUME QueueAssumption ==
    /\ Gated \subseteq Tasks
    /\ ClientOps \subseteq {"resume", "approve", "reject", "cancel", "delete"}
    /\ Ends \subseteq {"done", "failed", "canceled", "budget_exceeded"}
    /\ MaxConcurrent \in Nat \ {0}
    /\ MaxStarts \in Nat
    /\ None \notin Tasks \cup Coros

VARIABLES
    row,        \* task id -> status column, "absent" when the table has no row
    ckpt,       \* task id -> where the checkpoint of that thread stands
    issued,     \* task ids already handed out
    queue,      \* asyncio.Queue of task ids
    handle,     \* LocalTaskQueue._running
    co,         \* the coroutines running _execute
    canceled,   \* AgentEngine._canceled
    req,        \* the API handlers between their first read and their effect
    proc,       \* "up", "draining" (stop() is waiting) or "down"
    starts,     \* how often the process was started again
    orphaned    \* history: active rows whose driver a failing call ended, and
                \* which nobody has written since

vars == <<row, ckpt, issued, queue, handle, co, canceled, req, proc, starts, orphaned>>

-----------------------------------------------------------------------------
(* Statuses.  "resuming" is never written to the table by any code path.   *)

Outcomes == {"done", "failed", "canceled", "budget_exceeded"}
Active == {"queued", "running", "resuming"}
Statuses == Outcomes \cup Active \cup {"waiting_approval"}
Deletable == {"queued", "waiting_approval"} \cup Outcomes

\* A checkpoint is missing, has a next node, hangs on an interrupt, or is at
\* END with the status the final state carries.
Checkpoints == {"none", "mid", "gate"} \cup Outcomes

Kinds == {"run", "plain", "approve", "reject"}
CoroPCs == {"free", "spawned", "loading", "marking", "invoking", "engine",
            "writing", "leaving", "finished"}
Coroutine == [pc: CoroPCs, task: Tasks \cup {None}, kind: Kinds,
              out: Outcomes \cup {"waiting_approval", "raised", "none"}]
CoroAt(pc, t, kind) ==
    [pc |-> pc, task |-> t, kind |-> kind, out |-> "none"]
NoCoro == CoroAt("free", None, "run")

Ops == {"resume", "approve", "reject", "cancel", "delete"}
Request == [pc: {"idle", "admitted", "inserted", "notInFlight", "rowDeleted"},
            op: Ops \cup {"create"}, task: Tasks \cup {None}]
NoReq == [pc |-> "idle", op |-> "create", task |-> None]

TypeOK ==
    /\ row \in [Tasks -> Statuses \cup {"absent"}]
    /\ ckpt \in [Tasks -> Checkpoints]
    /\ issued \subseteq Tasks
    /\ queue \in Seq(Tasks)
    /\ handle \in [Tasks -> Coros \cup {None}]
    /\ co \in [Coros -> Coroutine]
    /\ canceled \subseteq Tasks
    /\ req \in [Reqs -> Request]
    /\ proc \in {"up", "draining", "down"}
    /\ starts \in Nat
    /\ orphaned \subseteq Tasks

Live(c) == co[c].pc \notin {"free", "finished"}
HoldsSlot(c) == Live(c) /\ co[c].pc # "spawned"

Init ==
    /\ row = [t \in Tasks |-> "absent"]
    /\ ckpt = [t \in Tasks |-> "none"]
    /\ issued = {}
    /\ queue = <<>>
    /\ handle = [t \in Tasks |-> None]
    /\ co = [c \in Coros |-> NoCoro]
    /\ canceled = {}
    /\ req = [r \in Reqs |-> NoReq]
    /\ proc = "up"
    /\ starts = 0
    /\ orphaned = {}

-----------------------------------------------------------------------------
(* Repository.update_task writes nothing when the row is gone.             *)

\* Mutant: an upsert.
UpdateTaskUpserts(t, status) ==
    /\ row' = [row EXCEPT ![t] = status]
    /\ orphaned' = orphaned \ {t}

RowsWith(t, status) == IF row[t] = "absent" THEN row ELSE [row EXCEPT ![t] = status]

UpdateTask(t, status) ==
    /\ row' = RowsWith(t, status)
    /\ orphaned' = orphaned \ {t}

\* The call raises, before or after the commit took effect.
UpdateFails(t, status) == row' \in {row, RowsWith(t, status)}

\* Whoever was to move the task on ends here.
DriverEnds(t) ==
    orphaned' = IF row'[t] \in Active THEN orphaned \cup {t} ELSE orphaned \ {t}

\* Mutant: the handle is overwritten without looking at it.
SpawnOverwrites(t, kind) ==
    \E c \in Coros :
        /\ co[c].pc = "free"
        /\ co' = [co EXCEPT ![c] = CoroAt("spawned", t, kind)]
        /\ handle' = [handle EXCEPT ![t] = c]

\* The registered coroutine of the task is not done.
InFlight(t) == handle[t] # None /\ Live(handle[t])

\* _spawn: refuse while the task is in flight, otherwise register a new
\* coroutine (overwriting a handle that is done).
Spawn(t, kind) ==
    \/ /\ InFlight(t)
       /\ UNCHANGED <<handle, co>>
    \/ /\ ~InFlight(t)
       /\ \E c \in Coros :
            /\ co[c].pc = "free"
            /\ co' = [co EXCEPT ![c] = CoroAt("spawned", t, kind)]
            /\ handle' = [handle EXCEPT ![t] = c]

\* The consume loop takes the head of the queue and spawns its execution.
Consume ==
    /\ proc = "up"
    /\ queue # <<>>
    /\ queue' = Tail(queue)
    /\ Spawn(Head(queue), "run")
    /\ UNCHANGED <<row, ckpt, issued, canceled, req, proc, starts, orphaned>>

-----------------------------------------------------------------------------
(* _execute, one action per stretch between two awaits.                    *)

Goto(c, pc) == co' = [co EXCEPT ![c].pc = pc]

\* The coroutine is done; its done callback is scheduled, not yet run.
Finish(c) == co' = [co EXCEPT ![c] = CoroAt("finished", co[c].task, "run")]

\* async with self._sem
Acquire(c) ==
    /\ co[c].pc = "spawned"
    /\ Cardinality({d \in Coros : HoldsSlot(d)}) < MaxConcurrent
    /\ Goto(c, "loading")
    /\ UNCHANGED <<row, ckpt, issued, queue, handle, canceled, req, proc, starts, orphaned>>

\* get_task; a missing row ends the coroutine, otherwise clear_cancel follows
\* before the next await.
LoadRow(c) ==
    /\ co[c].pc = "loading"
    /\ \/ /\ row[co[c].task] = "absent"
          /\ Finish(c)
          /\ UNCHANGED canceled
       \/ /\ row[co[c].task] # "absent"
          /\ canceled' = canceled \ {co[c].task}
          /\ Goto(c, "marking")
    /\ UNCHANGED <<row, ckpt, issued, queue, handle, req, proc, starts, orphaned>>

\* get_task raises, outside of the try: the coroutine is over.
LoadFails(c) ==
    /\ co[c].pc = "loading"
    /\ UNCHANGED row
    /\ DriverEnds(co[c].task)
    /\ Finish(c)
    /\ UNCHANGED <<ckpt, issued, queue, handle, canceled, req, proc, starts>>

MarkRunning(c) ==
    /\ co[c].pc = "marking"
    /\ UpdateTask(co[c].task, "running")
    /\ Goto(c, "invoking")
    /\ UNCHANGED <<ckpt, issued, queue, handle, canceled, req, proc, starts>>

\* This write is outside of the try, too.
MarkFails(c) ==
    /\ co[c].pc = "marking"
    /\ UpdateFails(co[c].task, "running")
    /\ DriverEnds(co[c].task)
    /\ Finish(c)
    /\ UNCHANGED <<ckpt, issued, queue, handle, canceled, req, proc, starts>>

Leave(c, out) == co' = [co EXCEPT ![c].pc = "writing", ![c].out = out]

\* run_task starts the graph from a fresh state.
RunTask(c) ==
    /\ co[c].pc = "invoking"
    /\ co[c].kind = "run"
    /\ ckpt' = [ckpt EXCEPT ![co[c].task] = "mid"]
    /\ Goto(c, "engine")
    /\ UNCHANGED <<row, issued, queue, handle, canceled, req, proc, starts, orphaned>>

\* Mutant: a thread without checkpoint returns an empty state, which the queue
\* reads as "done".
ResumeTaskSilently(c) ==
    /\ co[c].pc = "invoking"
    /\ co[c].kind # "run"
    /\ Leave(c, IF ckpt[co[c].task] = "none" THEN "done" ELSE "raised")
    /\ UNCHANGED <<row, ckpt, issued, queue, handle, canceled, req, proc, starts, orphaned>>

\* resume_task looks at the checkpoint first: nothing to resume raises, END
\* returns the stored status, a pending interrupt needs a decision.
ResumeTask(c) ==
    LET t == co[c].task IN
    /\ co[c].pc = "invoking"
    /\ co[c].kind # "run"
    /\ \/ /\ ckpt[t] = "none"
          /\ Leave(c, "raised")
          /\ UNCHANGED ckpt
       \/ /\ ckpt[t] \in Outcomes
          /\ Leave(c, ckpt[t])
          /\ UNCHANGED ckpt
       \/ /\ ckpt[t] = "gate" /\ co[c].kind = "plain"
          /\ Leave(c, "raised")
          /\ UNCHANGED ckpt
       \/ /\ ckpt[t] = "gate" /\ co[c].kind = "reject"
          /\ ckpt' = [ckpt EXCEPT ![t] = "canceled"]
          /\ Leave(c, "canceled")
       \/ /\ \/ ckpt[t] = "gate" /\ co[c].kind = "approve"
             \/ ckpt[t] = "mid"
          /\ ckpt' = [ckpt EXCEPT ![t] = "mid"]
          /\ Goto(c, "engine")
    /\ UNCHANGED <<row, issued, queue, handle, canceled, req, proc, starts, orphaned>>

\* The graph runs to END (Ends is all of Outcomes, or a part to bound a run).
\* It ends "canceled" only if a node saw the flag; a flag set after the last
\* node that looks changes nothing.
EngineFinish(c) ==
    /\ co[c].pc = "engine"
    /\ \E o \in Ends :
         /\ o = "canceled" => co[c].task \in canceled
         /\ ckpt' = [ckpt EXCEPT ![co[c].task] = o]
         /\ Leave(c, o)
    /\ UNCHANGED <<row, issued, queue, handle, canceled, req, proc, starts, orphaned>>

\* approval_gate interrupts; is_paused turns the result into waiting_approval.
EnginePause(c) ==
    /\ co[c].pc = "engine"
    /\ co[c].task \in Gated
    /\ ckpt' = [ckpt EXCEPT ![co[c].task] = "gate"]
    /\ Leave(c, "waiting_approval")
    /\ UNCHANGED <<row, issued, queue, handle, canceled, req, proc, starts, orphaned>>

\* A node raises (model endpoint down, recursion limit, database error); the
\* checkpoint of the last superstep stays (none, if a delete was faster).
EngineRaise(c) ==
    /\ co[c].pc = "engine"
    /\ UNCHANGED ckpt
    /\ Leave(c, "raised")
    /\ UNCHANGED <<row, issued, queue, handle, canceled, req, proc, starts, orphaned>>

\* Mutant: the except branch does not write.
WriteBackResultsOnly(c) ==
    /\ co[c].pc = "writing"
    /\ IF co[c].out = "raised" THEN UNCHANGED <<row, orphaned>>
       ELSE UpdateTask(co[c].task, co[c].out)
    /\ Goto(c, "leaving")
    /\ UNCHANGED <<ckpt, issued, queue, handle, canceled, req, proc, starts>>

\* The final update_task, of the try branch or of the except branch.
WriteBack(c) ==
    /\ co[c].pc = "writing"
    /\ UpdateTask(co[c].task, IF co[c].out = "raised" THEN "failed" ELSE co[c].out)
    /\ Goto(c, "leaving")
    /\ UNCHANGED <<ckpt, issued, queue, handle, canceled, req, proc, starts>>

\* The write raises: in the try the except branch follows and writes "failed",
\* there the coroutine is over.
WriteBackFails(c) ==
    /\ co[c].pc = "writing"
    /\ \/ /\ co[c].out # "raised"
          /\ UpdateFails(co[c].task, co[c].out)
          /\ Leave(c, "raised")
          /\ UNCHANGED orphaned
       \/ /\ co[c].out = "raised"
          /\ UpdateFails(co[c].task, "failed")
          /\ DriverEnds(co[c].task)
          /\ Finish(c)
    /\ UNCHANGED <<ckpt, issued, queue, handle, canceled, req, proc, starts>>

\* The session closes, the semaphore is released, the coroutine returns.
Return(c) ==
    /\ co[c].pc = "leaving"
    /\ Finish(c)
    /\ UNCHANGED <<row, ckpt, issued, queue, handle, canceled, req, proc, starts, orphaned>>

\* Mutant: the callback pops whatever handle the task has.
DoneCallbackPopsAny(c) ==
    /\ co[c].pc = "finished"
    /\ handle' = [handle EXCEPT ![co[c].task] = None]
    /\ co' = [co EXCEPT ![c] = NoCoro]
    /\ UNCHANGED <<row, ckpt, issued, queue, canceled, req, proc, starts, orphaned>>

\* The done callback: forget the handle only if it is this coroutine's own.
DoneCallback(c) ==
    LET t == co[c].task IN
    /\ co[c].pc = "finished"
    /\ handle' = IF handle[t] = c THEN [handle EXCEPT ![t] = None] ELSE handle
    /\ co' = [co EXCEPT ![c] = NoCoro]
    /\ UNCHANGED <<row, ckpt, issued, queue, canceled, req, proc, starts, orphaned>>

-----------------------------------------------------------------------------
(* API handlers.  owned_task reads the row; the effect comes later.        *)

\* create_task inserts the row before any quota is looked at.
CreateInsert(r) ==
    /\ proc = "up"
    /\ req[r].pc = "idle"
    /\ \E t \in Tasks \ issued :
         /\ issued' = issued \cup {t}
         /\ row' = [row EXCEPT ![t] = "queued"]
         /\ req' = [req EXCEPT ![r] = [pc |-> "inserted", op |-> "create", task |-> t]]
    /\ UNCHANGED <<ckpt, queue, handle, co, canceled, proc, starts, orphaned>>

\* queue.submit: write "queued", then put.
CreateSubmit(r) ==
    /\ req[r].pc = "inserted"
    /\ UpdateTask(req[r].task, "queued")
    /\ queue' = Append(queue, req[r].task)
    /\ req' = [req EXCEPT ![r] = NoReq]
    /\ UNCHANGED <<ckpt, issued, handle, co, canceled, proc, starts>>

\* The status checks of the endpoints on the row owned_task returned; a 404 or
\* 409 answer changes nothing.
Admits(op, status) ==
    CASE op = "resume" -> status = "failed"
      [] op \in {"approve", "reject"} -> status = "waiting_approval"
      [] op = "cancel" -> status # "absent"
      [] op = "delete" -> status \in Deletable

OwnedTask(r) ==
    /\ proc = "up"
    /\ req[r].pc = "idle"
    /\ \E op \in ClientOps, t \in issued :
         /\ Admits(op, row[t])
         /\ req' = [req EXCEPT ![r] = [pc |-> "admitted", op |-> op, task |-> t]]
    /\ UNCHANGED <<row, ckpt, issued, queue, handle, co, canceled, proc, starts, orphaned>>

KindOf(op) == IF op = "resume" THEN "plain" ELSE op

\* submit_resume: no queue, no row write, straight to _spawn.
SubmitResume(r) ==
    /\ req[r].pc = "admitted"
    /\ req[r].op \in {"resume", "approve", "reject"}
    /\ Spawn(req[r].task, KindOf(req[r].op))
    /\ req' = [req EXCEPT ![r] = NoReq]
    /\ UNCHANGED <<row, ckpt, issued, queue, canceled, proc, starts, orphaned>>

\* queue.cancel sets the engine's flag when the task has a handle, and the
\* endpoint answers "canceling"; ...
CancelTask(r) ==
    LET t == req[r].task IN
    /\ req[r].pc = "admitted"
    /\ req[r].op = "cancel"
    /\ \/ /\ handle[t] # None
          /\ canceled' = canceled \cup {t}
          /\ req' = [req EXCEPT ![r] = NoReq]
       \/ /\ handle[t] = None
          /\ req' = [req EXCEPT ![r].pc = "notInFlight"]
          /\ UNCHANGED canceled
    /\ UNCHANGED <<row, ckpt, issued, queue, handle, co, proc, starts, orphaned>>

\* ... otherwise it writes "canceled" into the row, whatever the row says now.
CancelRow(r) ==
    /\ req[r].pc = "notInFlight"
    /\ UpdateTask(req[r].task, "canceled")
    /\ req' = [req EXCEPT ![r] = NoReq]
    /\ UNCHANGED <<ckpt, issued, queue, handle, co, canceled, proc, starts>>

\* delete_task, by the endpoint or by create_task when a daily quota is
\* exceeded and the placeholder is taken back: one transaction for the row and
\* what hangs on it, ...
DeleteRow(r) ==
    /\ \/ req[r].pc = "admitted" /\ req[r].op = "delete"
       \/ req[r].pc = "inserted"
    /\ \/ /\ row[req[r].task] = "absent"
          /\ req' = [req EXCEPT ![r] = NoReq]
       \/ /\ row[req[r].task] # "absent"
          /\ req' = [req EXCEPT ![r].pc = "rowDeleted"]
    /\ row' = [row EXCEPT ![req[r].task] = "absent"]
    /\ orphaned' = orphaned \ {req[r].task}
    /\ UNCHANGED <<ckpt, issued, queue, handle, co, canceled, proc, starts>>

\* ... then, best effort, the checkpoints of the thread.
DeleteThreadCheckpoints(r) ==
    LET t == req[r].task IN
    /\ req[r].pc = "rowDeleted"
    /\ ckpt' \in {ckpt, [ckpt EXCEPT ![t] = "none"]}
    /\ req' = [req EXCEPT ![r] = NoReq]
    /\ UNCHANGED <<row, issued, queue, handle, co, canceled, proc, starts, orphaned>>

\* A call of the handler to the database raises and the client gets a 500.
\* create_task takes its row back only for an HTTPException: a failing quota
\* query, a failing deletion of the placeholder and a failing submit leave it.
RequestFails(r) ==
    LET t == req[r].task IN
    /\ \/ /\ req[r].pc = "inserted"
          /\ UpdateFails(t, "queued")
          /\ DriverEnds(t)
       \/ /\ \/ req[r].pc = "notInFlight"
             \/ req[r].pc = "admitted" /\ req[r].op = "delete"
          /\ UNCHANGED <<row, orphaned>>
    /\ req' = [req EXCEPT ![r] = NoReq]
    /\ UNCHANGED <<ckpt, issued, queue, handle, co, canceled, proc, starts>>

-----------------------------------------------------------------------------
(* Process life.                                                           *)

\* Everything that only lived in memory is gone.
ForgetMemory ==
    /\ queue' = <<>>
    /\ handle' = [t \in Tasks |-> None]
    /\ co' = [c \in Coros |-> NoCoro]
    /\ canceled' = {}
    /\ req' = [r \in Reqs |-> NoReq]

\* SIGKILL, power loss.
Crash ==
    /\ proc # "down"
    /\ proc' = "down"
    /\ ForgetMemory
    /\ UNCHANGED <<row, ckpt, issued, starts, orphaned>>

\* stop() once requests have ceased: the consumer is cancelled, then stop()
\* waits for the coroutines.
BeginStop ==
    /\ proc = "up"
    /\ \A r \in Reqs : req[r].pc = "idle"
    /\ proc' = "draining"
    /\ UNCHANGED <<row, ckpt, issued, queue, handle, co, canceled, req, starts, orphaned>>

\* The drain timeout: CancelledError is raised at the await the coroutine is
\* in.  Only inside the try does it write "canceled"; in the except branch and
\* before the try (which an "invoking" coroutine may not have entered yet), or
\* when that write fails, the row keeps what it has.
ForceCancel(c) ==
    /\ proc = "draining"
    /\ Live(c)
    /\ \/ /\ co[c].pc \in {"invoking", "engine", "writing", "leaving"}
          /\ co[c].out # "raised"
          /\ UpdateTask(co[c].task, "canceled")
       \/ UNCHANGED <<row, orphaned>>
    /\ Finish(c)
    /\ UNCHANGED <<ckpt, issued, queue, handle, canceled, req, proc, starts>>

EndStop ==
    /\ proc = "draining"
    /\ \A c \in Coros : ~Live(c)
    /\ proc' = "down"
    /\ ForgetMemory
    /\ UNCHANGED <<row, ckpt, issued, starts, orphaned>>

\* start(): fail_interrupted_tasks before the consumer and the API run.
Restart ==
    /\ proc = "down"
    /\ starts < MaxStarts
    /\ proc' = "up"
    /\ starts' = starts + 1
    /\ row' = [t \in Tasks |-> IF row[t] \in Active THEN "failed" ELSE row[t]]
    /\ orphaned' = {}
    /\ UNCHANGED <<ckpt, issued, queue, handle, co, canceled, req>>

-----------------------------------------------------------------------------

CoroStep(c) ==
    \/ Acquire(c) \/ LoadRow(c) \/ MarkRunning(c)
    \/ RunTask(c) \/ ResumeTask(c)
    \/ EngineFinish(c) \/ EnginePause(c) \/ EngineRaise(c)
    \/ WriteBack(c) \/ Return(c) \/ DoneCallback(c)
    \/ LoadFails(c) \/ MarkFails(c) \/ WriteBackFails(c)

ReqStep(r) ==
    \/ CreateInsert(r) \/ CreateSubmit(r)
    \/ OwnedTask(r) \/ SubmitResume(r) \/ CancelTask(r) \/ CancelRow(r)
    \/ DeleteRow(r) \/ DeleteThreadCheckpoints(r) \/ RequestFails(r)

Next ==
    \/ Consume
    \/ \E c \in Coros : CoroStep(c) \/ ForceCancel(c)
    \/ \E r \in Reqs : ReqStep(r)
    \/ Crash \/ BeginStop \/ EndStop \/ Restart

Spec == Init /\ [][Next]_vars

\* The event loop runs every ready coroutine, handler and callback;
\* asyncio.Semaphore wakes its waiters first in, first out; a run of the engine
\* ends because steps, tokens, retries and model timeouts are bounded.  Nobody
\* owes the system a request, a crash, a stop or a restart.  (Strong fairness
\* of Consume because the bound Coros may keep it waiting for a free identity;
\* the consume loop itself never blocks on anything but an empty queue.)
Fairness ==
    /\ SF_vars(Consume)
    /\ \A c \in Coros :
         /\ SF_vars(Acquire(c))
         /\ WF_vars(CoroStep(c))
    /\ \A r \in Reqs :
         WF_vars(CreateSubmit(r) \/ SubmitResume(r) \/ CancelTask(r)
                   \/ CancelRow(r) \/ DeleteRow(r) \/ DeleteThreadCheckpoints(r)
                   \/ RequestFails(r))

FairSpec == Spec /\ Fairness

-----------------------------------------------------------------------------
(* Properties that hold.                                                   *)

\* _spawn never lets two coroutines execute the same task: both would drive
\* one checkpoint thread and overwrite each other's final status.
OneExecutorPerTask ==
    \A c, d \in Coros : Live(c) /\ Live(d) /\ co[c].task = co[d].task => c = d

\* Every coroutine that is not done is the one registered for its task, so
\* that cancel and the drain of stop() reach it; a late done callback of an
\* older coroutine must not have removed it.
HandleCoversLive ==
    \A c \in Coros : Live(c) => handle[co[c].task] = c

\* While the process is up, a queued or running row has somebody who will move
\* it on: the handler that is still submitting it, the queue, or a coroutine
\* that has not written back.  Otherwise a call to the database raised in
\* create_task, before the try of _execute or in its except branch, and nobody
\* has written the row since: such an orphan keeps its max_tokens reserved
\* until it is canceled or deleted, or the process starts again.  A run that
\* raises, a refused _spawn, a lost race of handlers, a late done callback and
\* a failing final write alone (the except branch writes) make no orphan.
HasDriver(t) ==
    \/ \E c \in Coros : co[c].task = t /\ Live(c) /\ co[c].pc # "leaving"
    \/ /\ row[t] = "queued"
       /\ \/ \E i \in 1..Len(queue) : queue[i] = t
          \/ \E r \in Reqs : req[r].pc = "inserted" /\ req[r].task = t

ActiveRowHasDriver ==
    proc = "up" => \A t \in Tasks : row[t] \in Active => HasDriver(t) \/ t \in orphaned

\* What the row claims is what the checkpoint says: "done" only for a thread
\* that reached END as done, "waiting_approval" only for one that hangs on the
\* gate.  The write happens several awaits after the engine returned and in
\* competition with cancel, delete, kill and resume.
RowAgreesWithCheckpoint ==
    \A t \in Tasks :
        /\ row[t] = "done" => ckpt[t] = "done"
        /\ row[t] = "waiting_approval" => ckpt[t] = "gate"

\* A deleted task stays deleted: no late write of a coroutine, a cancel or a
\* submit brings its row back (task ids are never handed out twice).
DeletedStaysDeleted ==
    [][\A t \in issued : row[t] = "absent" => row'[t] = "absent"]_vars

\* A queued or running task leaves these states, whatever the requests do, as
\* long as the process stays up and no failing call to the database has left
\* the row without a driver.
ActiveTasksSettle ==
    \A t \in Tasks :
        row[t] \in Active ~> (row[t] \notin Active \/ t \in orphaned \/ proc # "up")

-----------------------------------------------------------------------------
(* What the repository's text promises and the code does not keep.         *)

\* A thread that hangs on the approval gate with nobody executing it can be
\* approved or rejected, also after a restart: its row says waiting_approval,
\* unless the task was cancelled or deleted.
PausedTaskIsApprovable ==
    \A t \in Tasks :
        /\ proc = "up" /\ ckpt[t] = "gate"
        /\ handle[t] = None
        => row[t] \in {"waiting_approval", "canceled", "absent"}
=============================================================================
