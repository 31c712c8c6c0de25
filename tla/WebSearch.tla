----------------------------- MODULE WebSearch -----------------------------
(***************************************************************************)
(* The web_search tool: routing (app/tools/web_search/__init__.py), the    *)
(* gate and the cooldown of each source (throttle.py) and what the sources *)
(* make of an answer (providers/).  Calls of parallel tool rounds, steps   *)
(* and tasks share the two tables of throttle.py; the executor's timeout   *)
(* cancels a call at an await and its retry (_retry_transient of           *)
(* app/graph/nodes.py) starts the handler again.                           *)
(*                                                                         *)
(* Queries and hits are abstracted to whether an answer passes             *)
(* _ensure_relevant.  Times count down; a call's sleep may end late.       *)
(***************************************************************************)
EXTENDS Naturals, Sequences

CONSTANTS
    Calls,
    Modes,              \* what the calls ask for: "auto" (setting or argument) or a source
    BochaKey,           \* whether BOCHA_API_KEY is set
    Cooldown,           \* _COOLDOWN_S
    NetCooldown,        \* _NET_COOLDOWN_S
    MinInterval,        \* _MIN_INTERVAL_S
    MaxSearchRetries    \* settings.retry_max_attempts

AutoOrder == <<"bocha", "sogou", "bing", "ddgs">>
Sources == {"bocha", "sogou", "bing", "ddgs"}

ASSUME SearchAssumption ==
    /\ Modes \subseteq Sources \cup {"auto", "mock"}
    /\ BochaKey \in BOOLEAN
    /\ {Cooldown, NetCooldown, MinInterval, MaxSearchRetries} \subseteq Nat
    /\ NetCooldown <= Cooldown

VARIABLES
    cool,   \* _COOLDOWN_UNTIL, as the time that is left
    rest,   \* _LAST_CALL, as what is left of the minimal interval
    search,
    quiet,  \* history: how long a source that failed must be left alone at least
    fresh   \* history: what is left of the interval after the last request

searchVars == <<cool, rest, search, quiet, fresh>>

\* caught: the source failed while the call was between check and request;
\* overtaken: another request to the source left meanwhile.
Idle == [pc |-> "idle", mode |-> "auto", todo |-> <<>>, tries |-> 0, wait |-> 0,
         failed |-> <<>>, caught |-> FALSE, overtaken |-> FALSE]

SearchInit ==
    /\ cool = [s \in Sources |-> 0]
    /\ rest = [s \in Sources |-> 0]
    /\ search = [c \in Calls |-> Idle]
    /\ quiet = [s \in Sources |-> 0]
    /\ fresh = [s \in Sources |-> 0]

-----------------------------------------------------------------------------
(* Routing.                                                                *)

Configured(s) == s = "bocha" => BochaKey

\* _search_auto passes over bocha, the first of them, when it has no key.
AutoPlan == IF Configured("bocha") THEN AutoOrder ELSE Tail(AutoOrder)

\* What the handler goes through, from the beginning at every attempt.
Plan(mode) == IF mode = "auto" THEN AutoPlan
              ELSE IF Configured(mode) THEN <<mode>> ELSE <<>>

\* mock answers without a request; a named source that is not configured is an
\* error, and not a skip.
Begin(c, mode) ==
    /\ search[c].pc = "idle"
    /\ search' = [search EXCEPT ![c] =
                  [Idle EXCEPT !.mode = mode, !.todo = Plan(mode),
                     !.pc = IF mode = "mock" THEN "answered"
                              ELSE IF Plan(mode) = <<>> THEN "failed" ELSE "try"]]
    /\ UNCHANGED <<cool, rest, quiet, fresh>>

\* An exception of the handler, in the executor.
Attempted(r, retryable) ==
    IF retryable /\ r.tries < MaxSearchRetries
    THEN [Idle EXCEPT !.pc = "backoff", !.mode = r.mode, !.tries = r.tries + 1]
    ELSE [r EXCEPT !.pc = "failed", !.wait = 0, !.todo = <<>>,
                   !.caught = FALSE, !.overtaken = FALSE]

\* Mutant: what is worth a retry leaves the loop of _search_auto.
SourceFailedEscapes(r, retryable) ==
    LET tried == [r EXCEPT !.pc = "try", !.todo = Tail(@), !.wait = 0,
                           !.failed = Append(@, Head(r.todo)),
                           !.caught = FALSE, !.overtaken = FALSE]
    IN  IF r.mode # "auto" \/ retryable THEN Attempted(tried, retryable)
        ELSE IF tried.todo = <<>> THEN Attempted(tried, FALSE)
        ELSE tried

\* The source did not deliver: _search_auto goes on with the next one and raises,
\* not retryable, after the last; a single source raises as it is.
SourceFailed(r, retryable) ==
    LET tried == [r EXCEPT !.pc = "try", !.todo = Tail(@), !.wait = 0,
                           !.failed = Append(@, Head(r.todo)),
                           !.caught = FALSE, !.overtaken = FALSE]
    IN  IF r.mode # "auto" THEN Attempted(tried, retryable)
        ELSE IF tried.todo = <<>> THEN Attempted(tried, FALSE)
        ELSE tried

Retry(c) ==
    /\ search[c].pc = "backoff"
    /\ search' = [search EXCEPT ![c].pc = "try", ![c].todo = Plan(search[c].mode)]
    /\ UNCHANGED <<cool, rest, quiet, fresh>>

-----------------------------------------------------------------------------
(* _gate: the check, the sleep, the entry in _LAST_CALL, and the request.  *)

Source(c) == Head(search[c].todo)

RefusedByGate(c) ==
    /\ search[c].pc = "try"
    /\ cool[Source(c)] > 0
    /\ search' = [search EXCEPT ![c] = SourceFailed(@, FALSE)]
    /\ UNCHANGED <<cool, rest, quiet, fresh>>

\* Mutant: the time of the request is not kept.
RecordNothing(s) == UNCHANGED rest

Record(s) == rest' = [rest EXCEPT ![s] = MinInterval]

\* Requests of the others that sleep at the gate of the same source.
Request(c) ==
    LET s == Source(c)
    IN  /\ Record(s)
        /\ fresh' = [fresh EXCEPT ![s] = MinInterval]
        /\ search' = [d \in Calls |->
                        IF d = c THEN [search[c] EXCEPT !.pc = "flight"]
                        ELSE IF search[d].pc = "sleep" /\ Source(d) = s
                             THEN [search[d] EXCEPT !.overtaken = TRUE] ELSE search[d]]
        /\ UNCHANGED <<cool, quiet>>

\* Mutant: only the interval is looked at.
PassGateUnchecked(c) ==
    /\ search[c].pc = "try"
    /\ IF rest[Source(c)] > 0
       THEN /\ search' = [search EXCEPT ![c].pc = "sleep", ![c].wait = rest[Source(c)]]
            /\ UNCHANGED <<cool, rest, quiet, fresh>>
       ELSE Request(c)

PassGate(c) ==
    /\ search[c].pc = "try"
    /\ cool[Source(c)] = 0
    /\ IF rest[Source(c)] > 0
       THEN /\ search' = [search EXCEPT ![c].pc = "sleep", ![c].wait = rest[Source(c)]]
            /\ UNCHANGED <<cool, rest, quiet, fresh>>
       ELSE Request(c)

Wake(c) ==
    /\ search[c].pc = "sleep"
    /\ search[c].wait = 0
    /\ Request(c)

-----------------------------------------------------------------------------
(* Answers.                                                                *)

\* How a request may fail: the cooldown it leads to and whether it is worth a
\* retry.
Failure(cooldown, retryable) == [cooldown |-> cooldown, retryable |-> retryable]
Unreachable == Failure(NetCooldown, TRUE)   \* timeout or transport error
Blocked == Failure(Cooldown, FALSE)         \* _check_blocked
Irrelevant == Failure(0, FALSE)             \* _ensure_relevant: nothing, or noise

\* 403, 429, 5xx and other errors of a page
PageErrors == {Failure(Cooldown, FALSE), Failure(Cooldown, TRUE), Failure(0, TRUE),
               Failure(0, FALSE)}
SogouFailures == PageErrors \cup {Unreachable, Blocked, Irrelevant}
BingFailures == PageErrors \cup {Unreachable, Blocked, Irrelevant}

\* The library raises, or is not installed.
DdgsFailures == {Unreachable, Failure(0, FALSE), Irrelevant}

\* An API: 401 and 403 are about the key; 429, 5xx, other errors and no JSON
BochaFailures == {Unreachable, Failure(0, FALSE), Failure(Cooldown, TRUE),
                  Failure(NetCooldown, TRUE), Irrelevant}

FailuresOf(s) ==
    CASE s = "bocha" -> BochaFailures
      [] s = "sogou" -> SogouFailures
      [] s = "bing" -> BingFailures
      [] s = "ddgs" -> DdgsFailures

\* _mark_failed overwrites what was there.
MarkFailed(s, seconds) ==
    cool' = IF seconds = 0 THEN cool ELSE [cool EXCEPT ![s] = seconds]

AnswerFails(c, f) ==
    LET s == Source(c)
    IN  /\ search[c].pc = "flight"
        /\ MarkFailed(s, f.cooldown)
        /\ quiet' = IF f.cooldown = 0 THEN quiet ELSE [quiet EXCEPT ![s] = NetCooldown]
        /\ search' = [d \in Calls |->
                        IF d = c THEN SourceFailed(search[c], f.retryable)
                        ELSE IF f.cooldown # 0 /\ search[d].pc = "sleep" /\ Source(d) = s
                             THEN [search[d] EXCEPT !.caught = TRUE] ELSE search[d]]
        /\ UNCHANGED <<rest, fresh>>

\* _mark_ok, also when the source was marked after this request had left.
AnswerGood(c) ==
    LET s == Source(c)
    IN  /\ search[c].pc = "flight"
        /\ cool' = [cool EXCEPT ![s] = 0]
        /\ quiet' = [quiet EXCEPT ![s] = 0]
        /\ search' = [search EXCEPT ![c] = [Idle EXCEPT !.pc = "answered"]]
        /\ UNCHANGED <<rest, fresh>>

\* wait_for of the registry gives up on the handler; nothing is marked.
TimeOut(c) ==
    /\ search[c].pc \in {"sleep", "flight"}
    /\ search' = [search EXCEPT ![c] = Attempted([@ EXCEPT !.failed = <<>>], TRUE)]
    /\ UNCHANGED <<cool, rest, quiet, fresh>>

\* The task takes the answer; later calls use the same slot.
Collect(c) ==
    /\ search[c].pc \in {"answered", "failed"}
    /\ search' = [search EXCEPT ![c] = Idle]
    /\ UNCHANGED <<cool, rest, quiet, fresh>>

Less(n) == IF n = 0 THEN 0 ELSE n - 1
Tick ==
    /\ cool' = [s \in Sources |-> Less(cool[s])]
    /\ rest' = [s \in Sources |-> Less(rest[s])]
    /\ quiet' = [s \in Sources |-> Less(quiet[s])]
    /\ fresh' = [s \in Sources |-> Less(fresh[s])]
    /\ search' = [c \in Calls |-> [search[c] EXCEPT !.wait = Less(@)]]

Work(c) ==
    \/ Retry(c) \/ RefusedByGate(c) \/ PassGate(c) \/ Wake(c)
    \/ AnswerGood(c) \/ TimeOut(c)
    \/ search[c].pc = "flight" /\ \E f \in FailuresOf(Source(c)) : AnswerFails(c, f)

SearchNext ==
    \/ \E c \in Calls : Work(c) \/ Collect(c) \/ \E m \in Modes : Begin(c, m)
    \/ Tick

SearchSpec == SearchInit /\ [][SearchNext]_searchVars

-----------------------------------------------------------------------------
(* Properties.                                                             *)

Leaves(c) == search[c].pc # "flight" /\ search'[c].pc = "flight"

\* A source that refused or did not answer gets no request for the short
\* cooldown at least, from retries, other sources' turns or other tasks, unless
\* a request of it succeeded meanwhile; only calls that slept at the gate when
\* it failed still send theirs.
FailedSourceLeftAlone ==
    [][\A c \in Calls :
         Leaves(c) /\ quiet[Source(c)] > 0 => search[c].caught]_searchVars

\* Two requests to one source are MinInterval apart, also after timeouts and
\* retries, unless the later one was already asleep when the earlier one left.
RequestsSpaced ==
    [][\A c \in Calls :
         Leaves(c) /\ fresh[Source(c)] > 0 => search[c].overtaken]_searchVars

\* An auto search that fails without a timeout has gone through every configured
\* source, in order: no failing source takes away the turn of the next ones.
FailedAutoAskedAll ==
    \A c \in Calls :
        search[c].pc = "failed" /\ search[c].mode = "auto" /\ search[c].failed # <<>>
          => search[c].failed = AutoPlan
=============================================================================
