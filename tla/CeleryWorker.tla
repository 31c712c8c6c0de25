---------------------------- MODULE CeleryWorker ----------------------------
(***************************************************************************)
(* Task execution with QUEUE_MODE=celery: _execute of                      *)
(* app/worker/celery_app.py in several worker processes, the celery        *)
(* branches of app/api/routes_tasks.py, and the stale sweep                *)
(* fail_stale_active_tasks of app/storage/repository.py.                   *)
(*                                                                         *)
(* External, from how the module configures it: Celery delivers a message  *)
(* to an idle worker and acknowledges it after the run (task_acks_late),   *)
(* also when the run raised, was stopped by the time limit or lost its     *)
(* process (no reject_on_worker_lost).  Only the messages of a host that   *)
(* is gone are delivered again.  The pool enforces both time limits, as    *)
(* prefork does; the solo pool of the start command in the module's        *)
(* docstring (the one for Windows) enforces neither, and there a run may   *)
(* outlive the age the sweep goes by.  What the graph does is a choice of  *)
(* ends.                                                                   *)
(*                                                                         *)
(* Time advances for all rows and runs at once; ages stop growing where    *)
(* nothing depends on them any more.                                       *)
(***************************************************************************)
EXTENDS Naturals

CONSTANTS
    Tasks, Workers,
    None,          \* no task
    Ends,          \* what final["status"] may be
    SoftLimit,     \* task_soft_time_limit
    TimeLimit,     \* task_time_limit: settings.celery_task_time_limit_s
    Margin,        \* what _stale_max_age_s adds to twice the time limit
    MaxMessages    \* bound: messages per task in the broker

StaleAge == 2 * TimeLimit + Margin   \* _stale_max_age_s

ASSUME CeleryAssumption ==
    /\ None \notin Tasks
    /\ Ends \subseteq {"done", "failed", "canceled", "budget_exceeded", "waiting_approval"}
    /\ SoftLimit \in Nat
    /\ TimeLimit \in Nat
    /\ Margin \in Nat
    /\ MaxMessages \in Nat

VARIABLES
    row,       \* tasks.status
    age,       \* time since tasks.updated_at
    inserted,  \* tasks whose create handler has not reached delay() yet
    queued,    \* messages of each task in the broker
    unacked,   \* messages that a vanished host had taken
    worker     \* the run of each worker process

broker == <<inserted, queued, unacked>>
vars == <<row, age, broker, worker>>

Statuses == {"absent", "queued", "running", "done", "failed", "canceled",
             "budget_exceeded", "waiting_approval"}
Outcomes == Statuses \ {"absent", "queued", "running"}
Positions == {"idle", "sweeping", "marking", "engine", "writing", "acking"}
Idle == [pc |-> "idle", task |-> None, age |-> 0, out |-> "failed", warned |-> FALSE]

TypeOK ==
    /\ row \in [Tasks -> Statuses]
    /\ age \in [Tasks -> 0..StaleAge + 1]
    /\ inserted \subseteq Tasks
    /\ queued \in [Tasks -> Nat]
    /\ unacked \in [Tasks -> Nat]
    /\ worker \in [Workers -> [pc: Positions, task: Tasks \cup {None},
                               age: 0..TimeLimit, out: Outcomes, warned: BOOLEAN]]
    /\ \A w \in Workers : worker[w].pc # "idle" => worker[w].task \in Tasks

Init ==
    /\ row = [t \in Tasks |-> "absent"]
    /\ age = [t \in Tasks |-> 0]
    /\ inserted = {}
    /\ queued = [t \in Tasks |-> 0]
    /\ unacked = [t \in Tasks |-> 0]
    /\ worker = [w \in Workers |-> Idle]

-----------------------------------------------------------------------------
(* The API.                                                                *)

\* Mutant: updated_at keeps its value.
UpdateTaskKeepsTime(t, status) ==
    IF row[t] = "absent" THEN UNCHANGED <<row, age>>
    ELSE /\ row' = [row EXCEPT ![t] = status]
         /\ UNCHANGED age

\* update_task: a row that is gone is left alone.
UpdateTask(t, status) ==
    IF row[t] = "absent" THEN UNCHANGED <<row, age>>
    ELSE /\ row' = [row EXCEPT ![t] = status]
         /\ age' = [age EXCEPT ![t] = 0]

Send(t) ==
    /\ queued[t] + unacked[t] < MaxMessages
    /\ queued' = [queued EXCEPT ![t] = @ + 1]

\* create_task commits the row ...
CreateInsert(t) ==
    /\ row[t] = "absent"
    /\ row' = [row EXCEPT ![t] = "queued"]
    /\ age' = [age EXCEPT ![t] = 0]
    /\ inserted' = inserted \cup {t}
    /\ UNCHANGED <<queued, unacked, worker>>

\* ... and then calls run_task.delay, which may fail, or the process dies.
CreateDispatch(t) ==
    /\ t \in inserted
    /\ inserted' = inserted \ {t}
    /\ Send(t) \/ UNCHANGED queued
    /\ UNCHANGED <<row, age, unacked, worker>>

\* resume_task.delay from /resume, /approve and /reject; the row is not touched.
ResumeDispatch(t) ==
    /\ row[t] \in {"failed", "waiting_approval"}
    /\ Send(t)
    /\ UNCHANGED <<row, age, inserted, unacked, worker>>

\* /cancel: the local queue knows nothing of the run, so the row is written.
CancelRow(t) ==
    /\ row[t] # "absent"
    /\ UpdateTask(t, "canceled")
    /\ UNCHANGED <<broker, worker>>

\* DELETABLE
DeleteRow(t) ==
    /\ row[t] \notin {"absent", "running"}
    /\ row' = [row EXCEPT ![t] = "absent"]
    /\ UNCHANGED <<age, broker, worker>>

-----------------------------------------------------------------------------
(* _execute                                                                *)

Goto(w, pc) == worker' = [worker EXCEPT ![w].pc = pc]
Task(w) == worker[w].task

Deliver(w, t) ==
    /\ worker[w].pc = "idle"
    /\ queued[t] > 0
    /\ queued' = [queued EXCEPT ![t] = @ - 1]
    /\ worker' = [worker EXCEPT ![w] = [Idle EXCEPT !.pc = "sweeping", !.task = t]]
    /\ UNCHANGED <<row, age, inserted, unacked>>

\* fail_stale_active_tasks ("resuming" is written by nobody)
Stale(t) == row[t] = "running" /\ age[t] > StaleAge

\* Mutant: the rows nobody has started yet are swept instead.
SweepQueuedRows ==
    /\ row' = [t \in Tasks |-> IF row[t] = "queued" /\ age[t] > StaleAge
                                THEN "failed" ELSE row[t]]
    /\ UNCHANGED age

SweepRows ==
    /\ row' = [t \in Tasks |-> IF Stale(t) THEN "failed" ELSE row[t]]
    /\ age' = [t \in Tasks |-> IF Stale(t) THEN 0 ELSE age[t]]

\* The sweep may fail; the run goes on.
Sweep(w) ==
    /\ worker[w].pc = "sweeping"
    /\ SweepRows \/ UNCHANGED <<row, age>>
    /\ Goto(w, "marking")
    /\ UNCHANGED broker

\* A worker also sweeps when it starts a task that this model does not follow.
SweepForOther(w) ==
    /\ worker[w].pc = "idle"
    /\ SweepRows
    /\ UNCHANGED <<broker, worker>>

MarkRunning(w) ==
    /\ worker[w].pc = "marking"
    /\ UpdateTask(Task(w), "running")
    /\ Goto(w, "engine")
    /\ UNCHANGED broker

\* The engine returns a final state, or building or running it raises.
EngineEnds(w) ==
    /\ worker[w].pc = "engine"
    /\ \E out \in Ends \cup {"failed"} :
         worker' = [worker EXCEPT ![w].pc = "writing", ![w].out = out]
    /\ UNCHANGED <<row, age, broker>>

WriteBack(w) ==
    /\ worker[w].pc = "writing"
    /\ UpdateTask(Task(w), worker[w].out)
    /\ Goto(w, "acking")
    /\ UNCHANGED broker

Ack(w) ==
    /\ worker[w].pc = "acking"
    /\ worker' = [worker EXCEPT ![w] = Idle]
    /\ UNCHANGED <<row, age, broker>>

\* SoftTimeLimitExceeded is raised wherever the main thread is: inside the
\* coroutine, whose except writes "failed" (unless the exception met an except
\* of the sweep or of a tool, and the run goes on); or in the event loop, which
\* then cancels the coroutine, and nothing is written.
SoftTimeLimit(w) ==
    /\ worker[w].pc \notin {"idle", "acking"}
    /\ worker[w].age >= SoftLimit
    /\ ~worker[w].warned
    /\ \/ /\ worker[w].pc \in {"sweeping", "engine"}
          /\ worker' = [worker EXCEPT ![w].warned = TRUE]
       \/ /\ worker[w].pc \in {"engine", "writing"}
          /\ worker' = [worker EXCEPT ![w] = [@ EXCEPT !.warned = TRUE, !.pc = "writing",
                                                       !.out = "failed"]]
       \/ worker' = [worker EXCEPT ![w].warned = TRUE, ![w].pc = "acking"]
    /\ UNCHANGED <<row, age, broker>>

\* The hard limit, or the kernel, kills the process; the message is acknowledged
\* by its parent.
ProcessLost(w) ==
    /\ worker[w].pc # "idle"
    /\ worker' = [worker EXCEPT ![w] = Idle]
    /\ UNCHANGED <<row, age, broker>>

\* The whole host goes; the broker keeps the message ...
HostLost(w) ==
    /\ worker[w].pc # "idle"
    /\ unacked' = [unacked EXCEPT ![Task(w)] = @ + 1]
    /\ worker' = [worker EXCEPT ![w] = Idle]
    /\ UNCHANGED <<row, age, inserted, queued>>

\* ... and delivers it again.
Redeliver(t) ==
    /\ unacked[t] > 0
    /\ unacked' = [unacked EXCEPT ![t] = @ - 1]
    /\ queued' = [queued EXCEPT ![t] = @ + 1]
    /\ UNCHANGED <<row, age, inserted, worker>>

\* No run gets older than the hard limit.
Tick ==
    /\ \A w \in Workers : worker[w].pc # "idle" => worker[w].age < TimeLimit
    /\ age' = [t \in Tasks |-> IF age[t] <= StaleAge THEN age[t] + 1 ELSE age[t]]
    /\ worker' = [w \in Workers |->
                    IF worker[w].pc = "idle" THEN worker[w]
                    ELSE [worker[w] EXCEPT !.age = @ + 1]]
    /\ UNCHANGED <<row, broker>>

-----------------------------------------------------------------------------

Run(w) == Sweep(w) \/ MarkRunning(w) \/ EngineEnds(w) \/ WriteBack(w) \/ Ack(w)

Next ==
    \/ \E t \in Tasks :
         \/ CreateInsert(t) \/ CreateDispatch(t) \/ ResumeDispatch(t)
         \/ CancelRow(t) \/ DeleteRow(t) \/ Redeliver(t)
         \/ \E w \in Workers : Deliver(w, t)
    \/ \E w \in Workers :
         Run(w) \/ SweepForOther(w) \/ SoftTimeLimit(w) \/ ProcessLost(w) \/ HostLost(w)
    \/ Tick

Spec == Init /\ [][Next]_vars

\* Time passes; a run that is not killed ends (budgets, timeouts, at the latest
\* the hard limit); tasks keep being dispatched, each with a sweep.
Fairness ==
    /\ SF_vars(Tick)
    /\ \A w \in Workers : WF_vars(Run(w) \/ ProcessLost(w))
    /\ SF_vars(\E w \in Workers : SweepForOther(w))

FairSpec == Spec /\ Fairness

-----------------------------------------------------------------------------
(* Properties that hold.                                                   *)

\* From the write of "running" on a worker process works on its task.
Executing(w, t) == worker[w].pc \in {"engine", "writing"} /\ worker[w].task = t

\* No sweep of any worker fails a task that some worker is executing, with
\* redelivered and repeated messages, cancels and lost processes in between;
\* with a pool that enforces the hard time limit.
SweepSparesExecuting ==
    \A w \in Workers, t \in Tasks : Executing(w, t) => ~Stale(t)

\* A row that lost its worker does not stay "running": a sweep fails it, or
\* another message of the task or a request gets it on.
OrphansAreSwept ==
    \A t \in Tasks :
        (row[t] = "running" /\ \A w \in Workers : ~Executing(w, t))
          ~> (row[t] # "running" \/ \E w \in Workers : Executing(w, t))
=============================================================================
