---------------------------- MODULE EventStream ----------------------------
(***************************************************************************)
(* The trace of one task: AgentEngine numbers its events (emit, _seed_seq  *)
(* in app/graph/engine.py), the repository stores them, and the SSE        *)
(* endpoint of app/api/routes_tasks.py polls the table and the task row    *)
(* and pushes what is new, in a slot of the ConcurrencyGate.               *)
(*                                                                         *)
(* emit takes its number and then awaits the insert, so the events of      *)
(* tools that run in parallel are inserted in any order.  The worker that  *)
(* runs the task may be killed while streams stay open (Celery mode, or a  *)
(* client that polls with the last number it has seen).  In Celery mode a  *)
(* task may have several runs at a time (a message delivered again, two    *)
(* resumes), each with an engine and so a counter of its own.              *)
(*                                                                         *)
(* An event is its number.  One pass of the polling loop is two reads with *)
(* an await in between, then the sleep.                                    *)
(***************************************************************************)
EXTENDS Integers, FiniteSets, FiniteSetsExt

CONSTANTS
    Runs,         \* places for runs of the task: those that overlap
    Emitters,     \* coroutines of a run that emit at the same time
    RunOf,        \* the run of an emitter
    Streams,      \* SSE connections
    Tenants,      \* tenants that open streams
    TenantOf,     \* the tenant of a connection
    PerTenant,    \* settings: streams per tenant, 0 for no limit
    Total,        \* settings: streams of the process, 0 for no limit
    FreshEngine,  \* every run has an engine of its own (Celery), or all share one
    MaxPolls,     \* STREAM_MAX_S / STREAM_POLL_S
    MaxSeq,       \* bound: events of the task
    MaxRuns       \* bound: runs of the task

ASSUME StreamAssumption ==
    /\ RunOf \in [Emitters -> Runs]
    /\ TenantOf \in [Streams -> Tenants]
    /\ PerTenant \in Nat /\ Total \in Nat
    /\ FreshEngine \in BOOLEAN
    \* LocalTaskQueue!OneExecutorPerTask: runs overlap in Celery mode only.
    /\ ~FreshEngine => \A x, y \in Runs : x = y
    /\ MaxPolls \in Nat \ {0}
    /\ MaxSeq \in Nat /\ MaxRuns \in Nat

Idle == 0                       \* an emitter that awaits no insert

VARIABLES
    row,         \* the task row: "active", "waiting", "terminal", "absent"
    run,         \* per run: "idle", "started", "going" once the counter is seeded,
                 \* "ended" before the row is written
    seqs,        \* per run, AgentEngine._seqs of this task
    inserting,   \* per emitter, the number whose insert it awaits
    events,      \* numbers in the events table
    stream,      \* per connection: where its loop is, watermark, passes, what it pushed
    active, counts,   \* ConcurrencyGate._active, _counts
    runs,        \* how many runs there were
    late,        \* history: numbers stored after a larger one
    clean        \* history: the run that was seeded while no other was going,
                 \* and that no other has joined since

engineVars == <<row, run, seqs, inserting, events, runs, late, clean>>
gateVars == <<active, counts>>
vars == <<engineVars, stream, gateVars>>

StreamState == [pc : {"new", "events", "row", "sleep", "closed"},
                last : -1..MaxSeq, polls : 0..MaxPolls, pushed : SUBSET (1..MaxSeq)]

TypeOK ==
    /\ row \in {"active", "waiting", "terminal", "absent"}
    /\ run \in [Runs -> {"idle", "started", "going", "ended"}]
    /\ seqs \in [Runs -> 0..MaxSeq]
    /\ inserting \in [Emitters -> Idle..MaxSeq]
    /\ events \subseteq 1..MaxSeq
    /\ stream \in [Streams -> StreamState]
    /\ active \in 0..Cardinality(Streams)
    /\ counts \in [Tenants -> 0..Cardinality(Streams)]
    /\ runs \in 0..MaxRuns
    /\ late \subseteq 1..MaxSeq
    /\ clean \subseteq Runs

Init ==
    /\ row = "active"
    /\ run = [x \in Runs |-> "idle"]
    /\ seqs = [x \in Runs |-> 0]
    /\ inserting = [p \in Emitters |-> Idle]
    /\ events = {}
    /\ stream = [s \in Streams |->
                   [pc |-> "new", last |-> -1, polls |-> 0, pushed |-> {}]]
    /\ active = 0
    /\ counts = [t \in Tenants |-> 0]
    /\ runs = 0
    /\ late = {}
    /\ clean = {}

-----------------------------------------------------------------------------
(* The engine and the table.                                               *)

\* get_max_event_seq
MaxEventSeq == IF events = {} THEN 0 ELSE Max(events)

\* Mutant: numbers go on from how many events there are.
SeedSeqCounts(n) == IF n < Cardinality(events) THEN Cardinality(events) ELSE n

\* Mutant: the counter of the process is all there is.
SeedSeqMemoryOnly(n) == n

\* _seed_seq: never back, never below what is stored.
SeedSeq(n) == IF n < MaxEventSeq THEN MaxEventSeq ELSE n

AllIdle == \A x \in Runs : run[x] = "idle"

\* The worker marks the row: of a queued task, or of one that waits or failed
\* and is resumed (a stream may see the old status for a while).  On a deleted
\* row the local queue gives up; Celery's update_task does nothing to it, and
\* the run goes on.
StartRun(x) ==
    /\ run[x] = "idle"
    /\ row = "absent" => FreshEngine
    /\ runs < MaxRuns
    /\ run' = [run EXCEPT ![x] = "started"]
    /\ row' = IF row = "absent" THEN "absent" ELSE "active"
    /\ runs' = runs + 1
    /\ seqs' = [seqs EXCEPT ![x] = IF FreshEngine THEN 0 ELSE @]
    /\ UNCHANGED <<inserting, events, late, clean, stream, gateVars>>

\* run_task and resume_task up to the graph.  A read of the table that fails
\* is swallowed, and the counter stays what it was.
SeedRun(x) ==
    /\ run[x] = "started"
    /\ run' = [run EXCEPT ![x] = "going"]
    /\ \E seeded \in BOOLEAN :
         /\ seqs' = [seqs EXCEPT ![x] = IF seeded THEN SeedSeq(@) ELSE @]
         /\ clean' = IF seeded /\ \A y \in Runs \ {x} : run[y] # "going"
                     THEN {x} ELSE {}
    /\ UNCHANGED <<row, inserting, events, runs, late, stream, gateVars>>

\* emit up to its await: the number is taken.
Emit(p) ==
    LET x == RunOf[p] IN
    /\ run[x] = "going"
    /\ inserting[p] = Idle
    /\ seqs[x] < MaxSeq
    /\ seqs' = [seqs EXCEPT ![x] = @ + 1]
    /\ inserting' = [inserting EXCEPT ![p] = seqs[x] + 1]
    /\ UNCHANGED <<row, run, events, runs, late, clean, stream, gateVars>>

\* append_event: stored, or refused by the unique index if the number is taken.
AppendEvent(p) ==
    LET n == inserting[p] IN
    /\ n # Idle
    /\ inserting' = [inserting EXCEPT ![p] = Idle]
    /\ events' = events \cup {n}
    /\ late' = IF n \notin events /\ n < MaxEventSeq THEN late \cup {n} ELSE late
    /\ UNCHANGED <<row, run, seqs, runs, clean, stream, gateVars>>

\* The insert fails for a reason of its own (a locked database); the number is
\* gone.
AppendFails(p) ==
    /\ inserting[p] # Idle
    /\ inserting' = [inserting EXCEPT ![p] = Idle]
    /\ UNCHANGED <<row, run, seqs, events, runs, late, clean, stream, gateVars>>

\* The graph returns or raises (or no engine could be built): all that was
\* emitted was awaited.
EndRun(x) ==
    /\ run[x] \in {"started", "going"}
    /\ \A p \in Emitters : RunOf[p] = x => inserting[p] = Idle
    /\ run' = [run EXCEPT ![x] = "ended"]
    /\ UNCHANGED <<row, seqs, inserting, events, runs, late, clean, stream, gateVars>>

\* The queue or the worker writes the outcome, unless the row is gone.
WriteRow(x) ==
    /\ run[x] = "ended"
    /\ run' = [run EXCEPT ![x] = "idle"]
    /\ IF row = "absent" THEN row' = row ELSE row' \in {"terminal", "waiting"}
    /\ UNCHANGED <<seqs, inserting, events, runs, late, clean, stream, gateVars>>

\* The worker is killed: inserts in flight are lost, so is the counter, and
\* the row keeps claiming that the task is active ...
Crash(x) ==
    /\ run[x] # "idle"
    /\ run' = [run EXCEPT ![x] = "idle"]
    /\ seqs' = [seqs EXCEPT ![x] = 0]
    /\ inserting' = [p \in Emitters |-> IF RunOf[p] = x THEN Idle ELSE inserting[p]]
    /\ UNCHANGED <<row, events, runs, late, clean, stream, gateVars>>

\* ... until a sweep fails it (or the task is delivered to a worker again).
\* A worker pool that does not enforce the time limit may still be running it.
Sweep ==
    /\ AllIdle \/ FreshEngine
    /\ row = "active"
    /\ runs > 0
    /\ row' = "terminal"
    /\ UNCHANGED <<run, seqs, inserting, events, runs, late, clean, stream, gateVars>>

\* cancel_task, where the API's queue does not drive the task: whatever it is
\* doing, the row says canceled.
CancelTask ==
    /\ AllIdle \/ FreshEngine
    /\ row # "absent"
    /\ row' = "terminal"
    /\ UNCHANGED <<run, seqs, inserting, events, runs, late, clean, stream, gateVars>>

\* delete_task, of a task whose row says queued, waiting or over: the row and
\* its events, whoever may still be running it.
DeleteTask ==
    /\ row \in {"waiting", "terminal"} \/ (row = "active" /\ runs = 0)
    /\ row' = "absent"
    /\ events' = {}
    /\ UNCHANGED <<run, seqs, inserting, runs, late, clean, stream, gateVars>>

-----------------------------------------------------------------------------
(* The gate and the streams.                                               *)

\* try_acquire
HasSlot(t) ==
    /\ Total > 0 => active < Total
    /\ PerTenant > 0 => counts[t] < PerTenant

\* A client connects; one that gets no slot is answered 429.
OpenStream(s) ==
    /\ stream[s].pc = "new"
    /\ row # "absent"
    /\ HasSlot(TenantOf[s])
    /\ active' = active + 1
    /\ counts' = [counts EXCEPT ![TenantOf[s]] = @ + 1]
    /\ stream' = [stream EXCEPT ![s].pc = "events"]
    /\ UNCHANGED engineVars

\* Mutant: only the process total is given back.
ReleaseTotalOnly(t) ==
    /\ active' = IF active > 0 THEN active - 1 ELSE 0
    /\ UNCHANGED counts

\* release
Release(t) ==
    /\ active' = IF active > 0 THEN active - 1 ELSE 0
    /\ counts' = [counts EXCEPT ![t] = IF @ > 0 THEN @ - 1 ELSE 0]

\* The generator returns and its finally gives the slot back.
CloseStream(s) ==
    /\ stream' = [stream EXCEPT ![s].pc = "closed"]
    /\ Release(TenantOf[s])
    /\ UNCHANGED engineVars

\* Mutant: a page holds the newest event only.
GetEventsNewest(after) == {n \in events : n > after /\ n = MaxEventSeq}

\* get_events
GetEvents(after) == {n \in events : n > after}

\* First half of a pass: push what is new and move the watermark.
PushEvents(s) ==
    LET new == GetEvents(stream[s].last) IN
    /\ stream[s].pc = "events"
    /\ stream' = [stream EXCEPT ![s].pc = "row",
                                ![s].last = IF new = {} THEN @ ELSE Max(new),
                                ![s].pushed = @ \cup new]
    /\ UNCHANGED <<engineVars, gateVars>>

\* Second half: a terminal row ends the stream, ...
StreamEnd(s) ==
    /\ stream[s].pc = "row"
    /\ row = "terminal"
    /\ CloseStream(s)

\* Mutant: the time slept is not added up.
SleepBeginsUncounted(s) ==
    /\ stream[s].pc = "row"
    /\ row # "terminal"
    /\ stream' = [stream EXCEPT ![s].pc = "sleep"]
    /\ UNCHANGED <<engineVars, gateVars>>

\* ... any other, also a missing one, does not.
SleepBegins(s) ==
    /\ stream[s].pc = "row"
    /\ row # "terminal"
    /\ stream' = [stream EXCEPT ![s].pc = "sleep", ![s].polls = @ + 1]
    /\ UNCHANGED <<engineVars, gateVars>>

TimedOut(s) == stream[s].polls >= MaxPolls

SleepEnds(s) ==
    /\ stream[s].pc = "sleep"
    /\ ~TimedOut(s)
    /\ stream' = [stream EXCEPT ![s].pc = "events"]
    /\ UNCHANGED <<engineVars, gateVars>>

StreamTimeout(s) ==
    /\ stream[s].pc = "sleep"
    /\ TimedOut(s)
    /\ CloseStream(s)

\* The client goes away, at whatever await or yield the generator is.
Disconnect(s) ==
    /\ stream[s].pc \in {"events", "row", "sleep"}
    /\ CloseStream(s)

-----------------------------------------------------------------------------
StreamStep(s) ==
    PushEvents(s) \/ StreamEnd(s) \/ SleepBegins(s) \/ SleepEnds(s) \/ StreamTimeout(s)

Next ==
    \/ \E x \in Runs : StartRun(x) \/ SeedRun(x) \/ EndRun(x) \/ WriteRow(x) \/ Crash(x)
    \/ Sweep \/ CancelTask \/ DeleteTask
    \/ \E p \in Emitters : Emit(p) \/ AppendEvent(p) \/ AppendFails(p)
    \/ \E s \in Streams : OpenStream(s) \/ StreamStep(s) \/ Disconnect(s)

Spec == Init /\ [][Next]_vars

\* The event loop runs every generator that is not asleep, and sleeps end;
\* nobody has to run, resume or delete the task, or to disconnect.
FairSpec == Spec /\ \A s \in Streams : WF_vars(StreamStep(s))

-----------------------------------------------------------------------------
(* Properties that hold.                                                   *)

\* Kills, lost inserts and new engines never make two events claim one number:
\* as long as a run is the only one and its counter was seeded, the unique
\* index has nothing to refuse.  (Runs of a Celery task that overlap seed from
\* the same number and do collide; so does one whose _seed_seq failed.)
NumbersNeverCollide ==
    \A p \in Emitters :
        inserting[p] # Idle /\ RunOf[p] \in clean =>
            /\ inserting[p] \notin events
            /\ \A q \in Emitters \ {p} : inserting[q] # inserting[p]

\* What such a run emits from now on is above every watermark, so no client
\* that polls with the last number it saw is blind to a resumed task.
NewEventsAreVisible ==
    row # "absent" =>
        \A x \in clean, s \in Streams : run[x] = "going" => stream[s].last <= seqs[x]

\* The watermark passes over a stored event only if it was pushed, or was
\* stored after an event with a larger number, also when runs overlap.
OnlyLateEventsMissed ==
    row # "absent" =>
        \A s \in Streams, n \in events :
            n <= stream[s].last => n \in stream[s].pushed \cup late

\* The gate counts the streams that are open, in total and per tenant, after
\* every way a stream can end, so that no slot is lost or given out twice.
SlotsMatchStreams ==
    LET Open(t) == {s \in Streams : /\ stream[s].pc \notin {"new", "closed"}
                                    /\ TenantOf[s] = t}
    IN  /\ active = Cardinality(UNION {Open(t) : t \in Tenants})
        /\ \A t \in Tenants : counts[t] = Cardinality(Open(t))

\* A stream ends: it holds its slot for a bounded time, also when the task
\* waits for a human, or was deleted.
StreamsEnd ==
    \A s \in Streams : stream[s].pc = "events" ~> stream[s].pc = "closed"
=============================================================================
