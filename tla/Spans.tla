------------------------------- MODULE Spans -------------------------------
(***************************************************************************)
(* The spans of the tasks of one process: SpanSession and _SpanBuffer      *)
(* (app/observability/spans.py), _execute and flush_spans of               *)
(* app/graph/engine.py, the rows of record_spans and the tree the API      *)
(* builds from them.                                                       *)
(*                                                                         *)
(* The tasks run concurrently and share one bounded buffer.  A task may    *)
(* run several times (resume, approval), one run at a time, also after the *)
(* process was started anew.  Some have an engine without a span_sink:     *)
(* the children a subagent tool starts, and all tasks of a Celery worker.  *)
(* Spans of a run nest: a span closes after those opened under it.  Names, *)
(* times and attributes are left out; every run has a trace, so no span is *)
(* dropped for having none.                                                *)
(***************************************************************************)
EXTENDS Naturals, Sequences, FiniteSets, SequencesExt

CONSTANTS
    Tasks,
    Sinkless,     \* tasks whose engine has no span_sink
    MaxPending,   \* _SpanBuffer.max_pending
    Limit,        \* settings.spans_max_per_task, 0 for none
    MaxSpanRuns,  \* bound: runs of a task
    MaxSpans      \* bound: spans of a run under its root

ASSUME SpansAssumption ==
    /\ Sinkless \subseteq Tasks
    /\ MaxPending \in Nat \ {0}
    /\ {Limit, MaxSpanRuns, MaxSpans} \subseteq Nat

VARIABLES
    traced,      \* the execution of each task
    buffer,      \* BUFFER._pending
    spanCounts,  \* engine._span_counts, as long as the engine lives
    rows,        \* the spans table
    closed,      \* history: spans that were closed
    lost,        \* history: spans dropped at the bound, at the limit, with a batch,
                 \* by an engine without a sink or with the process
    uncounted    \* history: stored spans the counter does not know of

spansVars == <<traced, buffer, spanCounts, rows, closed, lost, uncounted>>

\* A span is named by the task and run that opened it and a number; its record
\* also has the span it was opened under and the task it is booked on.
SpanName(t, n, i) == [opener |-> t, run |-> n, no |-> i]
NoParent == 0
Root == 1

SpansInit ==
    /\ traced = [t \in Tasks |-> [pc |-> "rest", n |-> 0, open |-> <<>>, used |-> 0,
                               batch |-> <<>>]]
    /\ buffer = <<>>
    /\ spanCounts = [t \in Tasks |-> 0]
    /\ rows = {}
    /\ closed = {}
    /\ lost = {}
    /\ uncounted = {}

\* open is the run's spans: under which each was opened, and whether it is open.
Running(t) == traced[t].pc = "graph"
IsOpen(t, i) == i \in DOMAIN traced[t].open /\ traced[t].open[i].live

-----------------------------------------------------------------------------
(* Spans                                                                   *)

\* end(): the record, with the task as it was when the span was opened
Record(t, i) ==
    [name |-> SpanName(t, traced[t].n, i), parent |-> traced[t].open[i].parent, task |-> t]

\* _SpanBuffer.add: the oldest one makes room.
Add(record) ==
    /\ buffer' = Append(IF Len(buffer) >= MaxPending THEN Tail(buffer) ELSE buffer, record)
    /\ lost' = IF Len(buffer) >= MaxPending THEN lost \cup {Head(buffer).name} ELSE lost
    /\ closed' = closed \cup {record.name}

\* begin_span of _execute
BeginRun(t) ==
    /\ traced[t].pc = "rest"
    /\ traced[t].n < MaxSpanRuns
    /\ traced' = [traced EXCEPT ![t].pc = "graph", ![t].n = @ + 1,
                                ![t].open = <<[parent |-> NoParent, live |-> TRUE]>>]
    /\ UNCHANGED <<buffer, spanCounts, rows, closed, lost, uncounted>>

OpenSpan(t, parent) ==
    /\ Running(t)
    /\ IsOpen(t, parent)
    /\ Len(traced[t].open) <= MaxSpans
    /\ traced' = [traced EXCEPT ![t].open = Append(@, [parent |-> parent, live |-> TRUE])]
    /\ UNCHANGED <<buffer, spanCounts, rows, closed, lost, uncounted>>

LastOpen(t, i) ==
    IsOpen(t, i) /\ \A j \in DOMAIN traced[t].open : traced[t].open[j].parent = i => ~IsOpen(t, j)

CloseSpan(t, i) ==
    /\ Running(t)
    /\ i # Root
    /\ LastOpen(t, i)
    /\ Add(Record(t, i))
    /\ traced' = [traced EXCEPT ![t].open[i].live = FALSE]
    /\ UNCHANGED <<spanCounts, rows, uncounted>>

-----------------------------------------------------------------------------
(* _execute and flush_spans                                                *)

\* ainvoke returns; the context is reset; is_paused is awaited.
GraphReturns(t) ==
    /\ Running(t)
    /\ LastOpen(t, Root)
    /\ traced' = [traced EXCEPT ![t].pc = "checking"]
    /\ UNCHANGED <<buffer, spanCounts, rows, closed, lost, uncounted>>

CloseRoot(t) ==
    /\ Add(Record(t, Root))
    /\ traced' = [traced EXCEPT ![t].pc = "flush", ![t].open = <<>>]
    /\ UNCHANGED <<spanCounts, rows, uncounted>>

\* The pause check is over, or ainvoke raised: the root is closed and then
\* everything is flushed.
CheckedOrRaised(t) ==
    /\ traced[t].pc = "checking" \/ (Running(t) /\ LastOpen(t, Root))
    /\ CloseRoot(t)

\* The check raises or is canceled: the root is never closed, nothing is flushed.
CheckFails(t) ==
    /\ traced[t].pc = "checking"
    /\ traced' = [traced EXCEPT ![t].pc = "rest", ![t].open = <<>>]
    /\ UNCHANGED <<buffer, spanCounts, rows, closed, lost, uncounted>>

\* Mutant: everything is taken and booked on the task that flushes.
TakeAll(t) ==
    [mine |-> [i \in DOMAIN buffer |-> [buffer[i] EXCEPT !.task = t]], others |-> <<>>]

\* The records of s that are booked on one of the tasks, in their order
OfTasks(s, owners) ==
    LET chosen[i \in 0..Len(s)] ==
          IF i = 0 THEN <<>>
          ELSE IF s[i].task \in owners THEN Append(chosen[i - 1], s[i])
          ELSE chosen[i - 1]
    IN  chosen[Len(s)]

\* drain_for
Take(t) == [mine |-> OfTasks(buffer, {t}), others |-> OfTasks(buffer, Tasks \ {t})]

\* What the limit leaves of the batch: the first ones.
Kept(t, batch) ==
    LET room == IF spanCounts[t] > Limit THEN 0 ELSE Limit - spanCounts[t]
    IN  IF Limit # 0 /\ Len(batch) > room THEN SubSeq(batch, 1, room) ELSE batch

NamesOf(records) == {r.name : r \in records}

Flush(t) ==
    LET taken == Take(t)
        kept == Kept(t, taken.mine)
    IN  /\ traced[t].pc = "flush"
        /\ t \notin Sinkless
        /\ buffer' = taken.others
        /\ lost' = lost \cup NamesOf(ToSet(taken.mine) \ ToSet(kept))
        /\ traced' = [traced EXCEPT ![t].pc = IF kept = <<>> THEN "rest" ELSE "writing",
                                  ![t].batch = kept, ![t].used = spanCounts[t]]
        /\ UNCHANGED <<spanCounts, rows, closed, uncounted>>

\* flush_spans without a sink: drain takes the spans of every task.
DrainAll(t) ==
    /\ traced[t].pc = "flush"
    /\ t \in Sinkless
    /\ buffer' = <<>>
    /\ lost' = lost \cup NamesOf(ToSet(buffer))
    /\ traced' = [traced EXCEPT ![t].pc = "rest"]
    /\ UNCHANGED <<spanCounts, rows, closed, uncounted>>

EndFlush(t) == traced' = [traced EXCEPT ![t].pc = "rest", ![t].batch = <<>>, ![t].used = 0]

\* record_spans commits the batch ...
Commit(t) ==
    /\ traced[t].pc = "writing"
    /\ rows' = rows \cup ToSet(traced[t].batch)
    /\ traced' = [traced EXCEPT ![t].pc = "committed"]
    /\ UNCHANGED <<buffer, spanCounts, closed, lost, uncounted>>

\* Mutant: what was written is not added.
CountUnchanged(t) == traced[t].used

NewCount(t) == traced[t].used + Len(traced[t].batch)

\* ... and returns: the count goes up; ...
Counted(t) ==
    /\ traced[t].pc = "committed"
    /\ spanCounts' = [spanCounts EXCEPT ![t] = NewCount(t)]
    /\ EndFlush(t)
    /\ UNCHANGED <<buffer, rows, closed, lost, uncounted>>

\* ... or it raises, or the flush is canceled, before that is known.
CommitUnacknowledged(t) ==
    /\ traced[t].pc = "committed"
    /\ uncounted' = uncounted \cup NamesOf(ToSet(traced[t].batch))
    /\ EndFlush(t)
    /\ UNCHANGED <<buffer, spanCounts, rows, closed, lost>>

\* The sink fails or the flush is canceled before the commit: the batch is gone.
WriteFails(t) ==
    /\ traced[t].pc = "writing"
    /\ lost' = lost \cup NamesOf(ToSet(traced[t].batch))
    /\ EndFlush(t)
    /\ UNCHANGED <<buffer, spanCounts, rows, closed, uncounted>>

\* The records a flush has taken and not stored
Batch(t) == IF traced[t].pc = "writing" THEN ToSet(traced[t].batch) ELSE {}

InBuffer == NamesOf(ToSet(buffer))
InFlight == UNION {NamesOf(Batch(t)) : t \in Tasks}
Stored == NamesOf(rows)

\* The process is killed and started anew: the rows stay, what was in memory is
\* gone, and the new engine counts from 0.
RestartProcess ==
    /\ traced' = [t \in Tasks |-> [pc |-> "rest", n |-> traced[t].n, open |-> <<>>,
                                   used |-> 0, batch |-> <<>>]]
    /\ buffer' = <<>>
    /\ spanCounts' = [t \in Tasks |-> 0]
    /\ lost' = lost \cup InBuffer \cup InFlight
    /\ uncounted' = Stored
    /\ UNCHANGED <<rows, closed>>

SpansNext ==
    \/ RestartProcess
    \/ \E t \in Tasks :
        \/ BeginRun(t) \/ GraphReturns(t) \/ CheckedOrRaised(t) \/ CheckFails(t)
        \/ Flush(t) \/ DrainAll(t) \/ Commit(t) \/ Counted(t)
        \/ CommitUnacknowledged(t) \/ WriteFails(t)
        \/ \E i \in DOMAIN traced[t].open : OpenSpan(t, i) \/ CloseSpan(t, i)

SpansSpec == SpansInit /\ [][SpansNext]_spansVars

-----------------------------------------------------------------------------
(* GET /tasks/{id}/spans                                                   *)

RowsOf(t) == {r \in rows : r.task = t}
ParentIn(r, nodes) ==
    {p \in nodes : p.name = SpanName(r.name.opener, r.name.run, r.parent)}

\* Mutant: only spans without a parent are roots.
RootsWithoutParent(nodes) == {r \in nodes : r.parent = NoParent}

\* build_tree: a span whose parent is not among the rows is a root.
Roots(nodes) == {r \in nodes : ParentIn(r, nodes) = {}}

\* The nodes within k levels of a root
Shown(nodes, k) ==
    LET level[n \in 0..k] ==
          IF n = 0 THEN Roots(nodes)
          ELSE level[n - 1] \cup {r \in nodes : ParentIn(r, nodes) \cap level[n - 1] # {}}
    IN  level[k]

-----------------------------------------------------------------------------
(* Properties.                                                             *)

\* Every span that was closed is in one place: stored, on its way, in the buffer,
\* or dropped for one of the five reasons, and in no two of them; a stored one is
\* under the task that opened it; and a flush to the sink leaves nothing of its
\* task behind, also of a run that broke off before.
SpansAccountedFor ==
    /\ closed = Stored \cup InFlight \cup InBuffer \cup lost
    /\ \A r \in rows : r.task = r.name.opener
    /\ Cardinality(closed) = Cardinality(Stored) + Cardinality(InFlight)
                               + Cardinality(InBuffer) + Cardinality(lost)
    /\ \A t \in Tasks : traced[t].pc \in {"writing", "committed"} =>
                            \A s \in InBuffer : s.opener # t

\* However many runs a task has in the life of an engine and whichever of its
\* batches fail, no more than spans_max_per_task of its spans are stored, not
\* counting batches whose commit was never acknowledged.  (A restart allows as
\* many again.)
SpanLimit ==
    Limit # 0 => \A t \in Tasks :
                   Cardinality({r \in RowsOf(t) : r.name \notin uncounted}) <= Limit

\* The tree shows every stored span of the task, also when the bound, the limit
\* or a failed batch took its parent.
TreeShowsAll ==
    \A t \in Tasks : Shown(RowsOf(t), MaxSpans + 1) = RowsOf(t)
=============================================================================
