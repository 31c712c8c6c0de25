---------------------------- MODULE ToolJournal ----------------------------
(***************************************************************************)
(* One round of tool calls and the journal that keeps it from running      *)
(* twice: tool_executor_node and _await_claim_result (app/graph/nodes.py)  *)
(* over the tool_executions table (app/storage/repository.py).             *)
(*                                                                         *)
(* The checkpoint of a graph lies between supersteps, so a kill inside the *)
(* round repeats the round, and a dispatch that is delivered twice lets    *)
(* two workers run it at once.  Every database access is an action of its  *)
(* own.  What happens inside one call (repair of arguments, retries) is    *)
(* module ToolCall; here a call is executed and yields one observation.    *)
(***************************************************************************)
EXTENDS Naturals, FiniteSets

CONSTANTS
    Workers,     \* processes that may run the round
    Calls,       \* pending_tool_calls of the round
    Keys,        \* values of _journal_call_key
    KeyOf,       \* the key of a call; endpoints that reuse call ids give equal keys
    MaxTools,    \* settings.max_concurrent_tools
    MaxCrashes,  \* bound: kills
    MaxPurges    \* bound: delete_task on the task of this round

ASSUME JournalAssumption ==
    /\ KeyOf \in [Calls -> Keys]
    /\ MaxTools \in Nat \ {0}
    /\ MaxCrashes \in Nat
    /\ MaxPurges \in Nat

VARIABLES
    journal,    \* key -> "absent", "in_flight", or what the row restores to
    worker,     \* worker -> "idle", "round", "ended"
    call,       \* worker -> call -> where its run_one stands
    crashes, purges,
    started,    \* history: key -> how often the tool was started
    takeovers,  \* history: key -> how often a claim was taken over
    outcomes    \* history: key -> what executions of the tool ended with

vars == <<journal, worker, call, crashes, purges, started, takeovers, outcomes>>
history == <<started, takeovers, outcomes>>

\* Observations: success, failure with an error code, failure known by text only.
Results == {"ok", "coded", "plain"}
Rows == Results \cup {"in_flight", "absent"}
PCs == {"waiting", "claiming", "conflict", "polling", "takingOver", "executing",
        "recording", "inserting", "updating", "done"}
Ways == {"none", "claim", "takeover", "replay"}
RunOne == [pc: PCs, way: Ways, obs: Results \cup {"none"}]

NotStarted == [pc |-> "waiting", way |-> "none", obs |-> "none"]

TypeOK ==
    /\ journal \in [Keys -> Rows]
    /\ worker \in [Workers -> {"idle", "round", "ended"}]
    /\ call \in [Workers -> [Calls -> RunOne]]
    /\ crashes \in 0..MaxCrashes
    /\ purges \in 0..MaxPurges
    /\ started \in [Keys -> Nat]
    /\ takeovers \in [Keys -> Nat]
    /\ outcomes \in [Keys -> SUBSET Results]

Init ==
    /\ journal = [k \in Keys |-> "absent"]
    /\ worker = [w \in Workers |-> "idle"]
    /\ call = [w \in Workers |-> [c \in Calls |-> NotStarted]]
    /\ crashes = 0
    /\ purges = 0
    /\ started = [k \in Keys |-> 0]
    /\ takeovers = [k \in Keys |-> 0]
    /\ outcomes = [k \in Keys |-> {}]

-----------------------------------------------------------------------------

Goto(w, c, pc) == call' = [call EXCEPT ![w][c].pc = pc]
Observe(w, c, way, obs) ==
    call' = [call EXCEPT ![w][c] = [pc |-> "done", way |-> way, obs |-> obs]]

\* The row has no column for the error code: _tool_exec_dict cannot restore it.
Stored(obs) == IF obs = "coded" THEN "plain" ELSE obs

\* The row is complete, that is, neither missing nor a placeholder.
Complete(k) == journal[k] \in Results

HoldsSlot(w, c) == call[w][c].pc \notin {"waiting", "done"}

\* The node is entered: the coroutines of all calls are gathered.
BeginRound(w) ==
    /\ worker[w] = "idle"
    /\ worker' = [worker EXCEPT ![w] = "round"]
    /\ call' = [call EXCEPT ![w] = [c \in Calls |-> NotStarted]]
    /\ UNCHANGED <<journal, crashes, purges, history>>

\* async with sem
Acquire(w, c) ==
    /\ worker[w] = "round"
    /\ call[w][c].pc = "waiting"
    /\ Cardinality({d \in Calls : HoldsSlot(w, d)}) < MaxTools
    /\ Goto(w, c, "claiming")
    /\ UNCHANGED <<journal, worker, crashes, purges, history>>

StartTool(w, c, way) ==
    /\ call' = [call EXCEPT ![w][c].pc = "executing", ![w][c].way = way]
    /\ started' = [started EXCEPT ![KeyOf[c]] = @ + 1]

\* Mutant: look first, insert later (the row appears when the result does).
TryClaimLooksOnly(w, c) ==
    /\ call[w][c].pc = "claiming"
    /\ \/ /\ journal[KeyOf[c]] = "absent"
          /\ StartTool(w, c, "claim")
       \/ /\ journal[KeyOf[c]] # "absent"
          /\ Goto(w, c, "conflict")
          /\ UNCHANGED started
    /\ UNCHANGED <<journal, worker, crashes, purges, takeovers, outcomes>>

\* try_claim_tool_execution: the unique constraint decides who inserts the
\* placeholder and thereby owns the call; ...
TryClaim(w, c) ==
    /\ call[w][c].pc = "claiming"
    /\ \/ /\ journal[KeyOf[c]] = "absent"
          /\ journal' = [journal EXCEPT ![KeyOf[c]] = "in_flight"]
          /\ StartTool(w, c, "claim")
       \/ /\ journal[KeyOf[c]] # "absent"
          /\ Goto(w, c, "conflict")
          /\ UNCHANGED <<journal, started>>
    /\ UNCHANGED <<worker, crashes, purges, takeovers, outcomes>>

\* Mutant: a placeholder counts as a result.
ReadConflictAnyRow(w, c) ==
    /\ call[w][c].pc = "conflict"
    /\ \/ /\ journal[KeyOf[c]] # "absent"
          /\ Observe(w, c, "replay", journal[KeyOf[c]])
       \/ /\ journal[KeyOf[c]] = "absent"
          /\ Goto(w, c, "polling")
    /\ UNCHANGED <<journal, worker, crashes, purges, history>>

\* ... whoever loses reads the row: a result is replayed, a placeholder (or a
\* row that has vanished again) is waited for.
ReadConflict(w, c) ==
    /\ call[w][c].pc = "conflict"
    /\ \/ /\ Complete(KeyOf[c])
          /\ Observe(w, c, "replay", journal[KeyOf[c]])
       \/ /\ ~Complete(KeyOf[c])
          /\ Goto(w, c, "polling")
    /\ UNCHANGED <<journal, worker, crashes, purges, history>>

\* _await_claim_result: a poll (get_tool_execution) finds a result; ...
PollHits(w, c) ==
    /\ call[w][c].pc = "polling"
    /\ Complete(KeyOf[c])
    /\ Observe(w, c, "replay", journal[KeyOf[c]])
    /\ UNCHANGED <<journal, worker, crashes, purges, history>>

\* Mutant: wait for the owner, however long it takes.
GiveUpNever(w, c) ==
    /\ call[w][c].pc = "polling"
    /\ journal[KeyOf[c]] = "absent"
    /\ Goto(w, c, "takingOver")
    /\ UNCHANGED <<journal, worker, crashes, purges, history>>

\* ... the last poll before CLAIM_WAIT_S is over finds none.  How long the
\* owner still needs is not known: a tool may run for longer than the wait.
GiveUp(w, c) ==
    /\ call[w][c].pc = "polling"
    /\ ~Complete(KeyOf[c])
    /\ Goto(w, c, "takingOver")
    /\ UNCHANGED <<journal, worker, crashes, purges, history>>

\* The event tool_claim_takeover is emitted, then the tool is run; the row is
\* neither looked at again nor claimed.
TakeOver(w, c) ==
    /\ call[w][c].pc = "takingOver"
    /\ StartTool(w, c, "takeover")
    /\ takeovers' = [takeovers EXCEPT ![KeyOf[c]] = @ + 1]
    /\ UNCHANGED <<journal, worker, crashes, purges, outcomes>>

\* _execute_call returns an observation.
ExecuteCall(w, c) ==
    /\ call[w][c].pc = "executing"
    /\ \E obs \in Results :
         /\ call' = [call EXCEPT ![w][c].pc = "recording", ![w][c].obs = obs]
         /\ outcomes' = [outcomes EXCEPT ![KeyOf[c]] = @ \cup {obs}]
    /\ UNCHANGED <<journal, worker, crashes, purges, started, takeovers>>

\* _execute_call raises (the model endpoint of the repair, the event sink): the
\* gathered exception becomes an observation, the placeholder stays behind.
ExecuteCallRaises(w, c) ==
    /\ call[w][c].pc = "executing"
    /\ Observe(w, c, call[w][c].way, "plain")
    /\ UNCHANGED <<journal, worker, crashes, purges, history>>

\* complete_tool_execution reads the row: ...
ReadForCompletion(w, c) ==
    /\ call[w][c].pc = "recording"
    /\ \/ /\ journal[KeyOf[c]] = "absent"
          /\ Goto(w, c, "inserting")
       \/ /\ journal[KeyOf[c]] = "in_flight"
          /\ Goto(w, c, "updating")
       \/ /\ Complete(KeyOf[c])
          /\ Goto(w, c, "done")
    /\ UNCHANGED <<journal, worker, crashes, purges, history>>

\* ... no row, so a row is inserted unless one has appeared meanwhile; ...
InsertCompletion(w, c) ==
    /\ call[w][c].pc = "inserting"
    /\ journal' = [journal EXCEPT ![KeyOf[c]] =
                     IF @ = "absent" THEN Stored(call[w][c].obs) ELSE @]
    /\ Goto(w, c, "done")
    /\ UNCHANGED <<worker, crashes, purges, history>>

\* ... or a placeholder, so the row is updated by its primary key, whatever it
\* holds by now.  An update of a row that is gone raises, and the exception
\* replaces the observation.
UpdateCompletion(w, c) ==
    /\ call[w][c].pc = "updating"
    /\ \/ /\ journal[KeyOf[c]] # "absent"
          /\ journal' = [journal EXCEPT ![KeyOf[c]] = Stored(call[w][c].obs)]
          /\ Goto(w, c, "done")
       \/ /\ journal[KeyOf[c]] = "absent"
          /\ Observe(w, c, call[w][c].way, "plain")
          /\ UNCHANGED journal
    /\ UNCHANGED <<worker, crashes, purges, history>>

\* All coroutines are gathered; the superstep commits its checkpoint.
EndRound(w) ==
    /\ worker[w] = "round"
    /\ \A c \in Calls : call[w][c].pc = "done"
    /\ worker' = [worker EXCEPT ![w] = "ended"]
    /\ UNCHANGED <<journal, call, crashes, purges, history>>

\* A worker is killed inside the round; the round will be entered again.
Crash(w) ==
    /\ worker[w] = "round"
    /\ crashes < MaxCrashes
    /\ crashes' = crashes + 1
    /\ worker' = [worker EXCEPT ![w] = "idle"]
    /\ call' = [call EXCEPT ![w] = [c \in Calls |-> NotStarted]]
    /\ UNCHANGED <<journal, purges, history>>

\* delete_task, on a task whose row was deletable when it was read.
PurgeJournal ==
    /\ purges < MaxPurges
    /\ purges' = purges + 1
    /\ journal' = [k \in Keys |-> "absent"]
    /\ UNCHANGED <<worker, call, crashes, history>>

RunOneStep(w, c) ==
    \/ Acquire(w, c) \/ TryClaim(w, c) \/ ReadConflict(w, c)
    \/ PollHits(w, c) \/ GiveUp(w, c) \/ TakeOver(w, c)
    \/ ExecuteCall(w, c) \/ ExecuteCallRaises(w, c)
    \/ ReadForCompletion(w, c) \/ InsertCompletion(w, c) \/ UpdateCompletion(w, c)

Next ==
    \/ \E w \in Workers, c \in Calls : RunOneStep(w, c)
    \/ \E w \in Workers : BeginRound(w) \/ EndRound(w) \/ Crash(w)
    \/ PurgeJournal

Spec == Init /\ [][Next]_vars

\* Coroutines that can go on do; the semaphore is first in, first out; a tool
\* ends because the registry wraps it in wait_for(timeout_s); a poll is over
\* after CLAIM_WAIT_S.  Nobody has to start a round, kill or delete.
FairSpec ==
    /\ Spec
    /\ \A w \in Workers :
         /\ WF_vars(EndRound(w))
         /\ \A c \in Calls : SF_vars(Acquire(w, c)) /\ WF_vars(RunOneStep(w, c))

-----------------------------------------------------------------------------
(* Properties that hold.                                                   *)

\* A tool is started once per key, and again only for a claim that was taken
\* over or a journal that was deleted: no interleaving of claims, conflicts,
\* kills and repeated rounds starts it for any other reason.
StartsAccountedFor ==
    \A k \in Keys : started[k] <= 1 + takeovers[k] + purges

\* What is replayed is what some execution of that tool ended with (as far as
\* the row can hold it): never a placeholder, never a success nobody had.
ReplayIsGenuine ==
    \A w \in Workers, c \in Calls :
        call[w][c].way = "replay" =>
            \E obs \in outcomes[KeyOf[c]] : call[w][c].obs = Stored(obs)

\* Where no claim was taken over, every worker and every call with the same
\* key ends with the same observation, whatever crashed in between.
ObserversAgree ==
    \A v, w \in Workers, c, d \in Calls :
        /\ KeyOf[c] = KeyOf[d]
        /\ takeovers[KeyOf[c]] + purges = 0
        /\ call[v][c].pc = "done" /\ call[w][d].pc = "done"
        => Stored(call[v][c].obs) = Stored(call[w][d].obs)

\* A round ends, or its worker is killed: no call waits for ever for an owner
\* that is dead, nor for a slot held by a call that waits for it.
RoundsEnd ==
    \A w \in Workers : worker[w] = "round" ~> worker[w] # "round"

=============================================================================
