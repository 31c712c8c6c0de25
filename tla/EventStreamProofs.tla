------------------------- MODULE EventStreamProofs -------------------------
(***************************************************************************)
(* Proofs about EventStream, for any number of emitters, streams, runs and *)
(* events.  NumberInv is what makes "no collision" inductive: a number in  *)
(* flight is at most the counter of its run and no other emitter of the    *)
(* run has it; and where a clean run is going, no other one is, it counts  *)
(* from the largest stored number on, and what it has in flight is not     *)
(* stored.                                                                 *)
(* WatermarkInv ties the streams to the table: a watermark is a stored     *)
(* number as long as the task exists.  GateInv counts the open streams, by *)
(* cardinality, against the slots of ConcurrencyGate.                      *)
(*                                                                         *)
(* The second part is about Spans, which the same engine buffers next to   *)
(* its events, for any number of tasks, runs and spans and any limits.     *)
(* ShapeInv has the types and that a span is opened under an earlier one;  *)
(* PlaceInv that stored, in flight, buffered and lost exclude each other;  *)
(* LimitInv that the counter of a task bounds its rows, also while a batch *)
(* is written.  What the recursive functions of Spans return is shown by   *)
(* the smallest place at which it would be wrong.                          *)
(***************************************************************************)
EXTENDS EventStream, Spans, WellFoundedInduction, FiniteSetTheorems, TLAPS

StreamShape == [pc : {"new", "events", "row", "sleep", "closed"},
                last : -1..MaxSeq, polls : Nat, pushed : SUBSET (1..MaxSeq)]

TypeInv ==
    /\ row \in {"active", "waiting", "terminal", "absent"}
    /\ run \in [Runs -> {"idle", "started", "going", "ended"}]
    /\ seqs \in [Runs -> 0..MaxSeq]
    /\ inserting \in [Emitters -> 0..MaxSeq]
    /\ \A n \in events : n \in 1..MaxSeq
    /\ stream \in [Streams -> StreamShape]
    /\ clean \subseteq Runs

\* What an emitter that awaits an insert may rely on.
Awaits(p) ==
    /\ run[RunOf[p]] = "going"
    /\ inserting[p] <= seqs[RunOf[p]]
    /\ RunOf[p] \in clean => inserting[p] \notin events

NumberInv ==
    /\ \A p \in Emitters : inserting[p] # Idle => Awaits(p)
    /\ \A p, q \in Emitters :
         p # q /\ RunOf[p] = RunOf[q] /\ inserting[p] # Idle => inserting[p] # inserting[q]
    /\ \A x \in clean : run[x] = "going" =>
         /\ \A y \in Runs : run[y] = "going" => y = x
         /\ \A n \in events : n <= seqs[x]

WatermarkInv ==
    row # "absent" =>
        \A s \in Streams : stream[s].last = -1 \/ stream[s].last \in events

IInv == TypeInv /\ NumberInv /\ WatermarkInv /\ OnlyLateEventsMissed

-----------------------------------------------------------------------------
\* The bound on the numbers is a number.
LEMMA MaxSeqIsNat == MaxSeq \in Nat
  BY StreamAssumption DEF StreamAssumption

\* Every emitter has a run.
LEMMA RunOfEmitter == \A p \in Emitters : RunOf[p] \in Runs
  BY StreamAssumption DEF StreamAssumption

\* A nonempty set of numbers up to N has a largest member, and Max returns it.
LEMMA MaxOfBounded ==
    ASSUME NEW N \in Nat, NEW S \in SUBSET (0..N), S # {}
    PROVE  Max(S) \in S /\ \A y \in S : y <= Max(S)
<1> DEFINE T == {N - x : x \in S}
           R == OpToRel(<, Nat)
<1>1. T \subseteq Nat /\ T # {}
  <2>1. \A x \in S : x \in 0..N /\ N - x \in Nat
    OBVIOUS
  <2>2. T # {}
    OBVIOUS
  <2> QED
    BY <2>1, <2>2
<1>2. PICK m \in T : \A y \in T : ~ (<<y, m>> \in R)
  <2> HIDE DEF T, R
  <2>1. IsWellFoundedOn(R, Nat)
    BY NatLessThanWellFounded DEF R
  <2> QED
    BY <1>1, <2>1, WFMin
<1>3. \A y \in T : m <= y
  <2> SUFFICES ASSUME NEW y \in T, ~(m <= y) PROVE FALSE
    OBVIOUS
  <2>1. y \in Nat /\ m \in Nat /\ y < m
    BY <1>1
  <2>2. <<y, m>> \in R
    BY <2>1 DEF OpToRel
  <2> QED
    BY <1>2, <2>2
<1>4. PICK x \in S : m = N - x
  OBVIOUS
<1>5. \A y \in S : x >= y
  BY <1>3, <1>4
<1> QED
  BY <1>5 DEF Max

\* No stored number is above the one get_max_event_seq returns.
LEMMA MaxEventSeqBounds ==
    ASSUME TypeInv
    PROVE  /\ MaxEventSeq \in 0..MaxSeq
           /\ \A n \in events : n <= MaxEventSeq
<1>1. CASE events = {}
  BY <1>1, MaxSeqIsNat DEF MaxEventSeq
<1>2. CASE events # {}
  <2>1. events \subseteq 0..MaxSeq /\ MaxSeq \in Nat
    BY MaxSeqIsNat DEF TypeInv
  <2>2. Max(events) \in events /\ \A y \in events : y <= Max(events)
    BY <1>2, <2>1, MaxOfBounded
  <2> QED
    BY <1>2, <2>1, <2>2 DEF MaxEventSeq
<1> QED
  BY <1>1, <1>2

-----------------------------------------------------------------------------
(* The steps.                                                              *)

\* In the initial state nothing is numbered, stored or read.
LEMMA InitIInv == Init => IInv
<1> SUFFICES ASSUME Init PROVE IInv
  OBVIOUS
<1>1. stream = [s \in Streams |->
                  [pc |-> "new", last |-> -1, polls |-> 0, pushed |-> {}]]
  BY DEF Init
<1>2. [pc |-> "new", last |-> -1, polls |-> 0, pushed |-> {}] \in StreamShape
  BY MaxSeqIsNat DEF StreamShape
<1>3. TypeInv
  BY <1>1, <1>2, MaxSeqIsNat DEF Init, TypeInv, Idle
<1>4. NumberInv
  BY DEF Init, NumberInv, Idle
<1>5. WatermarkInv /\ OnlyLateEventsMissed
  BY <1>1 DEF Init, WatermarkInv, OnlyLateEventsMissed
<1> QED
  BY <1>3, <1>4, <1>5 DEF IInv

\* Nothing is numbered yet: a fresh counter is 0.
LEMMA StartRunIInv == ASSUME NEW x \in Runs PROVE IInv /\ StartRun(x) => IInv'
<1> SUFFICES ASSUME IInv, StartRun(x) PROVE IInv'
  OBVIOUS
<1>1. /\ run' = [run EXCEPT ![x] = "started"]
      /\ run[x] = "idle"
      /\ seqs' \in [Runs -> 0..MaxSeq]
      /\ \A y \in Runs : y # x => seqs'[y] = seqs[y]
      /\ row' # "absent" <=> row # "absent"
      /\ row' \in {"active", "waiting", "terminal", "absent"}
      /\ UNCHANGED <<inserting, events, late, clean, stream>>
  BY MaxSeqIsNat DEF IInv, TypeInv, StartRun
<1>2. TypeInv'
  BY <1>1 DEF IInv, TypeInv
<1>3. \A y \in Runs : run'[y] = "going" => run[y] = "going" /\ y # x
  BY <1>1 DEF IInv, TypeInv
<1>4. ASSUME NEW p \in Emitters, inserting'[p] # Idle PROVE Awaits(p)'
  <2>1. Awaits(p) /\ RunOf[p] \in Runs
    BY <1>1, <1>4, RunOfEmitter DEF IInv, NumberInv
  <2> QED
    BY <1>1, <2>1 DEF Awaits, IInv, TypeInv
<1>5. ASSUME NEW y \in clean', run'[y] = "going"
      PROVE  /\ \A z \in Runs : run'[z] = "going" => z = y
             /\ \A n \in events' : n <= seqs'[y]
  <2>1. y \in clean /\ y \in Runs /\ run[y] = "going" /\ y # x
    BY <1>1, <1>3, <1>5 DEF IInv, TypeInv
  <2> QED
    BY <1>1, <1>3, <2>1 DEF IInv, NumberInv
<1>6. NumberInv'
  BY <1>1, <1>4, <1>5 DEF IInv, NumberInv
<1>7. WatermarkInv' /\ OnlyLateEventsMissed'
  BY <1>1 DEF IInv, WatermarkInv, OnlyLateEventsMissed
<1> QED
  BY <1>2, <1>6, <1>7 DEF IInv

\* Seeding: the counter starts at or above everything that is stored.
LEMMA SeedRunIInv == ASSUME NEW x \in Runs PROVE IInv /\ SeedRun(x) => IInv'
<1> SUFFICES ASSUME IInv, SeedRun(x) PROVE IInv'
  OBVIOUS
<1>1. /\ MaxEventSeq \in 0..MaxSeq
      /\ \A n \in events : n <= MaxEventSeq
  BY MaxEventSeqBounds DEF IInv
<1>2. PICK seeded \in BOOLEAN :
        /\ seqs' = [seqs EXCEPT ![x] = IF seeded THEN SeedSeq(seqs[x]) ELSE seqs[x]]
        /\ clean' = IF seeded /\ \A y \in Runs \ {x} : run[y] # "going"
                    THEN {x} ELSE {}
  BY DEF SeedRun
<1>3. /\ run[x] = "started" /\ run' = [run EXCEPT ![x] = "going"]
      /\ seqs \in [Runs -> 0..MaxSeq] /\ seqs[x] \in 0..MaxSeq
      /\ run \in [Runs -> {"idle", "started", "going", "ended"}]
      /\ UNCHANGED <<row, inserting, events, late, stream>>
  BY DEF SeedRun, IInv, TypeInv
<1>4. SeedSeq(seqs[x]) \in 0..MaxSeq /\ MaxEventSeq <= SeedSeq(seqs[x])
  BY <1>1, <1>3, MaxSeqIsNat DEF SeedSeq
<1>5. /\ seqs' \in [Runs -> 0..MaxSeq]
      /\ clean' # {} => clean' = {x} /\ MaxEventSeq <= seqs'[x]
                          /\ \A y \in Runs \ {x} : run[y] # "going"
      /\ \A y \in Runs : y # x => seqs'[y] = seqs[y] /\ run'[y] = run[y]
      /\ run'[x] = "going"
  BY <1>2, <1>3, <1>4
<1>6. TypeInv'
  BY <1>2, <1>3, <1>5 DEF IInv, TypeInv
<1>7. ASSUME NEW p \in Emitters, inserting'[p] # Idle
      PROVE  RunOf[p] # x /\ RunOf[p] \notin clean' /\ Awaits(p)'
  <2>1. Awaits(p) /\ RunOf[p] \in Runs
    BY <1>3, <1>7, RunOfEmitter DEF IInv, NumberInv
  <2>2. RunOf[p] # x
    BY <1>3, <2>1 DEF Awaits
  <2>3. RunOf[p] \notin clean'
    BY <1>5, <2>1, <2>2 DEF Awaits
  <2> QED
    BY <1>3, <1>5, <2>1, <2>2, <2>3 DEF Awaits
<1>8. ASSUME NEW y \in clean'
      PROVE  /\ \A z \in Runs : run'[z] = "going" => z = y
             /\ \A n \in events' : n <= seqs'[y]
  <2>1. y = x /\ \A z \in Runs \ {x} : run'[z] # "going"
    BY <1>5, <1>8
  <2>2. \A n \in events : n \in 1..MaxSeq
    BY DEF IInv, TypeInv
  <2>3. seqs'[x] \in 0..MaxSeq /\ MaxEventSeq <= seqs'[x]
    BY <1>5, <1>8
  <2>4. \A n \in events' : n <= seqs'[x]
    BY <1>1, <1>3, <2>2, <2>3, MaxSeqIsNat
  <2> QED
    BY <2>1, <2>4
<1>9. NumberInv'
  BY <1>3, <1>7, <1>8 DEF IInv, NumberInv
<1>10. WatermarkInv' /\ OnlyLateEventsMissed'
  BY <1>3 DEF IInv, WatermarkInv, OnlyLateEventsMissed
<1> QED
  BY <1>6, <1>9, <1>10 DEF IInv

\* A new number is above the counter of its run, so above every stored one if
\* the run is clean, and above every one the run awaits.
LEMMA EmitIInv == ASSUME NEW p \in Emitters PROVE IInv /\ Emit(p) => IInv'
<1> SUFFICES ASSUME IInv, Emit(p) PROVE IInv'
  OBVIOUS
<1> DEFINE x == RunOf[p]
           n == seqs[x] + 1
<1>1. /\ x \in Runs /\ run[x] = "going" /\ seqs \in [Runs -> 0..MaxSeq]
      /\ seqs[x] \in 0..MaxSeq /\ n \in 1..MaxSeq
      /\ inserting \in [Emitters -> 0..MaxSeq]
      /\ inserting' = [inserting EXCEPT ![p] = n]
      /\ seqs' = [seqs EXCEPT ![x] = n]
      /\ UNCHANGED <<row, run, events, late, clean, stream>>
  BY MaxSeqIsNat, RunOfEmitter DEF IInv, TypeInv, Emit
<1>2. /\ seqs' \in [Runs -> 0..MaxSeq] /\ seqs'[x] = n
      /\ \A y \in Runs : y # x => seqs'[y] = seqs[y]
      /\ inserting'[p] = n
      /\ \A q \in Emitters : q # p => inserting'[q] = inserting[q]
  BY <1>1, MaxSeqIsNat
<1>3. TypeInv'
  BY <1>1, <1>2, MaxSeqIsNat DEF IInv, TypeInv
<1>4. \A q \in Emitters : inserting[q] # Idle /\ RunOf[q] = x => inserting[q] < n
  BY <1>1, MaxSeqIsNat DEF IInv, NumberInv, TypeInv, Awaits
<1>5. x \in clean => n \notin events
  BY <1>1, MaxSeqIsNat DEF IInv, NumberInv, TypeInv
<1> HIDE DEF n, x
<1>6. ASSUME NEW q \in Emitters, inserting'[q] # Idle PROVE Awaits(q)'
  <2>1. CASE q = p
    BY <1>1, <1>2, <1>5, <2>1, MaxSeqIsNat DEF Awaits, x
  <2>2. CASE q # p
    <3>1. Awaits(q) /\ inserting'[q] = inserting[q] /\ RunOf[q] \in Runs
      BY <1>2, <1>6, <2>2, RunOfEmitter DEF IInv, NumberInv
    <3>2. inserting[q] <= seqs'[RunOf[q]]
      <4>1. CASE RunOf[q] = x
        <5>1. inserting[q] < n /\ inserting[q] \in 0..MaxSeq
          BY <1>1, <1>4, <1>6, <3>1, <4>1
        <5> QED
          BY <1>1, <1>2, <4>1, <5>1, MaxSeqIsNat
      <4>2. CASE RunOf[q] # x
        BY <1>2, <3>1, <4>2 DEF Awaits
      <4> QED
        BY <4>1, <4>2
    <3> QED
      BY <1>1, <3>1, <3>2 DEF Awaits
  <2> QED
    BY <2>1, <2>2
<1>7. ASSUME NEW q \in Emitters, NEW r \in Emitters, q # r, RunOf[q] = RunOf[r],
             inserting'[q] # Idle
      PROVE  inserting'[q] # inserting'[r]
  <2>1. inserting[q] # Idle => inserting[q] # inserting[r]
    BY <1>7 DEF IInv, NumberInv
  <2>2. \A u \in Emitters : inserting[u] \in 0..MaxSeq
    BY <1>1
  <2>3. CASE q = p
    <3>1. inserting[r] # Idle => inserting[r] < n
      BY <1>4, <1>7, <2>3 DEF x
    <3> QED
      BY <1>1, <1>2, <1>7, <2>2, <2>3, <3>1, MaxSeqIsNat DEF Idle
  <2>4. CASE r = p
    <3>1. inserting[q] # Idle /\ inserting[q] < n
      BY <1>2, <1>4, <1>7, <2>4 DEF x
    <3> QED
      BY <1>1, <1>2, <1>7, <2>2, <2>4, <3>1, MaxSeqIsNat
  <2>5. CASE q # p /\ r # p
    BY <1>2, <1>7, <2>1, <2>5
  <2> QED
    BY <2>3, <2>4, <2>5
<1>8. ASSUME NEW y \in clean', run'[y] = "going"
      PROVE  /\ \A z \in Runs : run'[z] = "going" => z = y
             /\ \A m \in events' : m <= seqs'[y]
  <2>1. y \in clean /\ run[y] = "going" /\ y \in Runs
    BY <1>1, <1>8 DEF IInv, TypeInv
  <2>2. y = x /\ \A m \in events : m <= seqs[x] /\ m \in 1..MaxSeq
    BY <1>1, <2>1 DEF IInv, NumberInv, TypeInv
  <2>3. \A m \in events : m <= n
    BY <1>1, <2>2, MaxSeqIsNat DEF n
  <2> QED
    BY <1>1, <1>2, <2>1, <2>2, <2>3 DEF IInv, NumberInv
<1>9. NumberInv'
  BY <1>6, <1>7, <1>8 DEF NumberInv
<1>10. WatermarkInv' /\ OnlyLateEventsMissed'
  BY <1>1 DEF IInv, WatermarkInv, OnlyLateEventsMissed
<1> QED
  BY <1>3, <1>9, <1>10 DEF IInv

\* The number leaves the air and enters the table; if the run is clean the
\* unique index never sees it twice, and it is late for the streams whose
\* watermark is above it.
LEMMA AppendEventIInv == ASSUME NEW p \in Emitters PROVE IInv /\ AppendEvent(p) => IInv'
<1> SUFFICES ASSUME IInv, AppendEvent(p) PROVE IInv'
  OBVIOUS
<1> DEFINE n == inserting[p]
           x == RunOf[p]
<1>1. /\ n # Idle /\ n \in 1..MaxSeq /\ Awaits(p) /\ x \in Runs
      /\ seqs \in [Runs -> 0..MaxSeq]
      /\ inserting \in [Emitters -> 0..MaxSeq]
      /\ \A m \in events : m \in 1..MaxSeq
  BY MaxSeqIsNat, RunOfEmitter DEF IInv, TypeInv, NumberInv, AppendEvent, Idle
<1>2. /\ inserting' = [inserting EXCEPT ![p] = Idle]
      /\ events' = events \cup {n}
      /\ late' = IF n \notin events /\ n < MaxEventSeq THEN late \cup {n} ELSE late
      /\ UNCHANGED <<row, run, seqs, clean, stream>>
  BY DEF AppendEvent
<1>3. TypeInv'
  BY <1>1, <1>2, MaxSeqIsNat DEF IInv, TypeInv, Idle
<1>4. \A q \in Emitters : inserting'[q] # Idle => q # p /\ inserting'[q] = inserting[q]
  BY <1>1, <1>2
<1>5. ASSUME NEW y \in clean, run[y] = "going" PROVE y = x
  BY <1>1, <1>5 DEF IInv, NumberInv, Awaits
<1>6. ASSUME NEW q \in Emitters, inserting'[q] # Idle PROVE Awaits(q)'
  <2>1. q # p /\ inserting'[q] = inserting[q] /\ Awaits(q)
    BY <1>4, <1>6 DEF IInv, NumberInv
  <2>2. RunOf[q] \in clean => inserting[q] # n
    <3>1. ASSUME RunOf[q] \in clean PROVE RunOf[q] = x
      BY <1>5, <2>1, <3>1 DEF Awaits
    <3> QED
      BY <1>6, <2>1, <3>1 DEF IInv, NumberInv
  <2> QED
    BY <1>2, <2>1, <2>2 DEF Awaits
<1>7. ASSUME NEW q \in Emitters, NEW r \in Emitters, q # r, RunOf[q] = RunOf[r],
             inserting'[q] # Idle
      PROVE  inserting'[q] # inserting'[r]
  BY <1>1, <1>2, <1>4, <1>7 DEF IInv, NumberInv
<1>8. ASSUME NEW y \in clean', run'[y] = "going"
      PROVE  /\ \A z \in Runs : run'[z] = "going" => z = y
             /\ \A m \in events' : m <= seqs'[y]
  BY <1>1, <1>2, <1>5, <1>8 DEF IInv, NumberInv, Awaits
<1>9. NumberInv'
  BY <1>6, <1>7, <1>8 DEF NumberInv
<1>10. WatermarkInv'
  BY <1>2 DEF IInv, WatermarkInv
<1>11. ASSUME row' # "absent", NEW s \in Streams, NEW m \in events', m <= stream'[s].last
       PROVE  m \in stream'[s].pushed \cup late'
  <2>1. CASE m \in events
    BY <1>2, <1>11, <2>1 DEF IInv, OnlyLateEventsMissed
  <2>2. CASE m = n /\ n \notin events
    <3>1. n <= stream[s].last /\ stream[s].last \in -1..MaxSeq
      BY <1>2, <1>11, <2>2 DEF IInv, TypeInv, StreamShape
    <3>2. stream[s].last \in events
      BY <1>1, <1>2, <1>11, <3>1, MaxSeqIsNat DEF IInv, WatermarkInv
    <3>3. stream[s].last <= MaxEventSeq /\ MaxEventSeq \in 0..MaxSeq
      BY <3>2, MaxEventSeqBounds DEF IInv
    <3>4. n < MaxEventSeq
      BY <1>1, <2>2, <3>1, <3>2, <3>3, MaxSeqIsNat
    <3> QED
      BY <1>2, <2>2, <3>4
  <2> QED
    BY <1>2, <2>1, <2>2
<1> QED
  BY <1>3, <1>9, <1>10, <1>11 DEF IInv, OnlyLateEventsMissed

\* A step of a run that numbers and stores nothing and leaves no emitter
\* waiting for a run that is not going.
LEMMA RunStepIInv ==
    ASSUME IInv, TypeInv',
           \A y \in Runs : run'[y] = "going" => run[y] = "going" /\ seqs'[y] = seqs[y],
           \A p \in Emitters : inserting'[p] # Idle =>
               inserting'[p] = inserting[p] /\ run'[RunOf[p]] = "going",
           row' # "absent" => row # "absent",
           UNCHANGED <<events, late, clean, stream>>
    PROVE  IInv'
<1>1. ASSUME NEW p \in Emitters, inserting'[p] # Idle PROVE Awaits(p)'
  <2>1. Awaits(p) /\ RunOf[p] \in Runs
    BY <1>1, RunOfEmitter DEF IInv, NumberInv
  <2> QED
    BY <1>1, <2>1 DEF Awaits
<1>2. ASSUME NEW p \in Emitters, NEW q \in Emitters, p # q, RunOf[p] = RunOf[q],
             inserting'[p] # Idle
      PROVE  inserting'[p] # inserting'[q]
  <2>1. inserting'[p] = inserting[p] /\ inserting[p] # inserting[q]
    BY <1>2 DEF IInv, NumberInv
  <2> QED
    BY <1>2, <2>1
<1>3. ASSUME NEW y \in clean', run'[y] = "going"
      PROVE  /\ \A z \in Runs : run'[z] = "going" => z = y
             /\ \A m \in events' : m <= seqs'[y]
  <2>1. y \in Runs /\ y \in clean /\ run[y] = "going"
    BY <1>3 DEF IInv, TypeInv
  <2> QED
    BY <1>3, <2>1 DEF IInv, NumberInv
<1>4. NumberInv'
  BY <1>1, <1>2, <1>3 DEF NumberInv
<1>5. WatermarkInv' /\ OnlyLateEventsMissed'
  BY DEF IInv, WatermarkInv, OnlyLateEventsMissed
<1> QED
  BY <1>4, <1>5 DEF IInv

\* A pass of a stream moves the watermark to the largest number it pushes.
LEMMA PushEventsIInv == ASSUME NEW s \in Streams PROVE IInv /\ PushEvents(s) => IInv'
<1> SUFFICES ASSUME IInv, PushEvents(s) PROVE IInv'
  OBVIOUS
<1> DEFINE new == GetEvents(stream[s].last)
           old == stream[s]
<1>1. /\ old \in StreamShape
      /\ old.last \in -1..MaxSeq
      /\ \A m \in events : m \in 1..MaxSeq
      /\ new = {n \in events : n > old.last}
  BY DEF IInv, TypeInv, StreamShape, GetEvents
<1>2. new # {} => Max(new) \in new /\ \A n \in new : n <= Max(new)
  <2>1. new \subseteq 0..MaxSeq
    BY <1>1, MaxSeqIsNat
  <2> HIDE DEF new
  <2> QED
    BY <2>1, MaxSeqIsNat, MaxOfBounded
<1> DEFINE last2 == IF new = {} THEN old.last ELSE Max(new)
<1>3. /\ stream' = [stream EXCEPT ![s].pc = "row", ![s].last = last2,
                                  ![s].pushed = @ \cup new]
      /\ UNCHANGED <<row, run, seqs, inserting, events, late, clean>>
  BY DEF PushEvents, engineVars
<1> HIDE DEF new, old
<1>4. /\ last2 \in -1..MaxSeq
      /\ last2 = old.last \/ last2 \in events
      /\ \A n \in events : n <= last2 => n <= old.last \/ n \in new
  <2>1. CASE new = {}
    BY <1>1, <2>1, MaxSeqIsNat
  <2>2. CASE new # {}
    <3>1. last2 = Max(new) /\ Max(new) \in events
      BY <1>1, <1>2, <2>2
    <3>2. \A n \in events : n > old.last => n \in new
      BY <1>1
    <3> QED
      BY <1>1, <3>1, <3>2, MaxSeqIsNat
  <2> QED
    BY <2>1, <2>2
<1> HIDE DEF last2
<1>5. stream \in [Streams -> StreamShape]
  BY DEF IInv, TypeInv
<1>6. /\ stream'[s].last = last2
      /\ stream'[s].pushed = old.pushed \cup new
      /\ stream'[s] \in StreamShape
      /\ \A r \in Streams : r # s => stream'[r] = stream[r]
  BY <1>1, <1>3, <1>4, <1>5 DEF StreamShape, old
<1>7. TypeInv'
  BY <1>3, <1>5, <1>6 DEF IInv, TypeInv
<1>8. NumberInv'
  BY <1>3 DEF IInv, NumberInv, Awaits
<1>9. WatermarkInv'
  <2>1. ASSUME NEW r \in Streams, row' # "absent"
        PROVE  stream'[r].last = -1 \/ stream'[r].last \in events'
    <3>1. stream[r].last = -1 \/ stream[r].last \in events
      BY <1>3, <2>1 DEF IInv, WatermarkInv
    <3>2. CASE r = s
      <4>1. old.last = -1 \/ old.last \in events
        BY <3>1, <3>2 DEF old
      <4> QED
        BY <1>3, <1>4, <1>6, <3>2, <4>1
    <3>3. CASE r # s
      <4>1. stream'[r] = stream[r] /\ events' = events
        BY <1>3, <1>6, <3>3
      <4> QED
        BY <3>1, <4>1
    <3> QED
      BY <3>2, <3>3
  <2> QED
    BY <1>3, <2>1 DEF IInv, WatermarkInv
<1>10. OnlyLateEventsMissed'
  BY <1>3, <1>4, <1>6 DEF IInv, OnlyLateEventsMissed, old
<1> QED
  BY <1>7, <1>8, <1>9, <1>10 DEF IInv

\* The other steps of a stream leave watermark, pushed events and table alone.
LEMMA OtherStreamStepIInv ==
    ASSUME NEW s \in Streams, NEW pc \in {"events", "row", "sleep", "closed"},
           NEW polls \in Nat
    PROVE  /\ IInv
           /\ stream' = [stream EXCEPT ![s].pc = pc, ![s].polls = polls]
           /\ UNCHANGED engineVars
           => IInv'
<1> SUFFICES ASSUME IInv,
                    stream' = [stream EXCEPT ![s].pc = pc, ![s].polls = polls],
                    UNCHANGED engineVars
             PROVE  IInv'
  OBVIOUS
<1>1. stream \in [Streams -> StreamShape]
  BY DEF IInv, TypeInv
<1>2. /\ stream' \in [Streams -> StreamShape]
      /\ \A r \in Streams : /\ stream'[r].last = stream[r].last
                            /\ stream'[r].pushed = stream[r].pushed
  BY <1>1 DEF StreamShape
<1>3. UNCHANGED <<row, run, seqs, inserting, events, late, clean>>
  BY DEF engineVars
<1>4. TypeInv' /\ NumberInv'
  BY <1>2, <1>3 DEF IInv, TypeInv, NumberInv, Awaits
<1>5. WatermarkInv' /\ OnlyLateEventsMissed'
  BY <1>2, <1>3 DEF IInv, WatermarkInv, OnlyLateEventsMissed
<1> QED
  BY <1>4, <1>5 DEF IInv

\* Every step keeps the invariant.
LEMMA NextIInv == IInv /\ [Next]_vars => IInv'
<1> SUFFICES ASSUME IInv, [Next]_vars PROVE IInv'
  OBVIOUS
<1> USE DEF engineVars, gateVars
<1>1. ASSUME NEW x \in Runs, StartRun(x) \/ SeedRun(x) PROVE IInv'
  BY <1>1, StartRunIInv, SeedRunIInv
<1>2. ASSUME NEW x \in Runs, EndRun(x) PROVE IInv'
  <2>1. TypeInv'
    BY <1>2 DEF IInv, TypeInv, EndRun
  <2>2. \A y \in Runs : run'[y] = "going" => run[y] = "going" /\ seqs'[y] = seqs[y]
    BY <1>2 DEF EndRun, IInv, TypeInv
  <2>3. ASSUME NEW p \in Emitters, inserting'[p] # Idle
        PROVE  inserting'[p] = inserting[p] /\ run'[RunOf[p]] = "going"
    <3>1. inserting[p] # Idle /\ RunOf[p] # x /\ RunOf[p] \in Runs /\ Awaits(p)
      BY <1>2, <2>3, RunOfEmitter DEF EndRun, IInv, NumberInv
    <3> QED
      BY <1>2, <3>1 DEF EndRun, IInv, TypeInv, Awaits
  <2> QED
    BY <1>2, <2>1, <2>2, <2>3, RunStepIInv DEF EndRun
<1>3. ASSUME NEW x \in Runs, WriteRow(x) PROVE IInv'
  <2>1. TypeInv'
    BY <1>3 DEF IInv, TypeInv, WriteRow
  <2>2. \A y \in Runs : run'[y] = "going" => run[y] = "going" /\ seqs'[y] = seqs[y]
    BY <1>3 DEF WriteRow, IInv, TypeInv
  <2>3. ASSUME NEW p \in Emitters, inserting'[p] # Idle
        PROVE  inserting'[p] = inserting[p] /\ run'[RunOf[p]] = "going"
    <3>1. inserting[p] # Idle /\ RunOf[p] \in Runs /\ Awaits(p)
      BY <1>3, <2>3, RunOfEmitter DEF WriteRow, IInv, NumberInv
    <3> QED
      BY <1>3, <3>1 DEF WriteRow, IInv, TypeInv, Awaits
  <2> QED
    BY <1>3, <2>1, <2>2, <2>3, RunStepIInv DEF WriteRow
<1>4. ASSUME NEW x \in Runs, Crash(x) PROVE IInv'
  <2>1. TypeInv'
    BY <1>4, MaxSeqIsNat DEF IInv, TypeInv, Crash, Idle
  <2>2. \A y \in Runs : run'[y] = "going" => run[y] = "going" /\ seqs'[y] = seqs[y]
    BY <1>4 DEF Crash, IInv, TypeInv
  <2>3. ASSUME NEW p \in Emitters, inserting'[p] # Idle
        PROVE  inserting'[p] = inserting[p] /\ run'[RunOf[p]] = "going"
    <3>1. inserting'[p] = inserting[p] /\ RunOf[p] # x /\ RunOf[p] \in Runs /\ Awaits(p)
      BY <1>4, <2>3, RunOfEmitter DEF Crash, IInv, NumberInv
    <3> QED
      BY <1>4, <3>1 DEF Crash, IInv, TypeInv, Awaits
  <2> QED
    BY <1>4, <2>1, <2>2, <2>3, RunStepIInv DEF Crash
<1>5. ASSUME Sweep \/ CancelTask PROVE IInv'
  <2>1. TypeInv'
    BY <1>5 DEF IInv, TypeInv, Sweep, CancelTask
  <2> QED
    BY <1>5, <2>1, RunStepIInv DEF IInv, NumberInv, Awaits, Sweep, CancelTask
<1>6. CASE DeleteTask
  <2>1. /\ row' = "absent" /\ events' = {}
        /\ UNCHANGED <<run, seqs, inserting, clean, stream>>
    BY <1>6 DEF DeleteTask
  <2>2. TypeInv' /\ NumberInv'
    BY <2>1 DEF IInv, TypeInv, NumberInv, Awaits
  <2> QED
    BY <2>1, <2>2 DEF IInv, WatermarkInv, OnlyLateEventsMissed
<1>7. ASSUME NEW p \in Emitters, Emit(p) \/ AppendEvent(p) PROVE IInv'
  BY <1>7, EmitIInv, AppendEventIInv
<1>8. ASSUME NEW p \in Emitters, AppendFails(p) PROVE IInv'
  <2>1. TypeInv'
    BY <1>8, MaxSeqIsNat DEF IInv, TypeInv, AppendFails, Idle
  <2>2. ASSUME NEW q \in Emitters, inserting'[q] # Idle
        PROVE  inserting'[q] = inserting[q] /\ run'[RunOf[q]] = "going"
    <3>1. q # p /\ inserting'[q] = inserting[q]
      BY <1>8, <2>2 DEF AppendFails, IInv, TypeInv
    <3> QED
      BY <1>8, <2>2, <3>1 DEF AppendFails, IInv, NumberInv, Awaits
  <2> QED
    BY <1>8, <2>1, <2>2, RunStepIInv DEF AppendFails
<1>9. ASSUME NEW s \in Streams, PushEvents(s) PROVE IInv'
  BY <1>9, PushEventsIInv
<1>10. ASSUME NEW s \in Streams,
              OpenStream(s) \/ StreamEnd(s) \/ SleepBegins(s) \/ SleepEnds(s)
                \/ StreamTimeout(s) \/ Disconnect(s)
       PROVE  IInv'
  <2>1. stream \in [Streams -> StreamShape]
    BY DEF IInv, TypeInv
  <2>2. \E pc \in {"events", "row", "sleep", "closed"}, polls \in Nat :
          /\ stream' = [stream EXCEPT ![s].pc = pc, ![s].polls = polls]
          /\ UNCHANGED engineVars
    BY <1>10, <2>1 DEF StreamShape, OpenStream, StreamEnd, SleepBegins, SleepEnds,
                       StreamTimeout, Disconnect, CloseStream
  <2> QED
    BY <2>2, OtherStreamStepIInv
<1>11. CASE UNCHANGED vars
  BY <1>11 DEF vars, IInv, TypeInv, NumberInv, Awaits, WatermarkInv, OnlyLateEventsMissed
<1> QED
  BY <1>1, <1>2, <1>3, <1>4, <1>5, <1>6, <1>7, <1>8, <1>9, <1>10, <1>11
  DEF Next, StreamStep

-----------------------------------------------------------------------------
(* The theorems.                                                           *)

\* The invariant holds in every reachable state of numbering and streams.
LEMMA Inductive == Spec => []IInv
  BY InitIInv, NextIInv, PTL DEF Spec

\* Whatever workers are killed, however many coroutines emit and however many
\* engines the task has had: an event that a run of its own inserts has a number
\* that is not stored and that no other emitter has, so the unique index of
\* (task, seq) refuses none.  A run is on its own when _seed_seq succeeded and
\* no other run of the task is or was going since: overlapping runs of a Celery
\* task and a failed seed are in the specification, and are not promised this.
THEOREM NoCollision == Spec => []NumbersNeverCollide
<1>1. ASSUME IInv, NEW p \in Emitters, inserting[p] # Idle, RunOf[p] \in clean,
             NEW q \in Emitters \ {p}
      PROVE  inserting[q] # inserting[p]
  <2>1. Awaits(p)
    BY <1>1 DEF IInv, NumberInv
  <2>2. CASE inserting[q] = Idle
    BY <1>1, <2>2
  <2>3. CASE inserting[q] # Idle
    <3>1. Awaits(q) /\ RunOf[q] \in Runs
      BY <1>1, <2>3, RunOfEmitter DEF IInv, NumberInv
    <3>2. RunOf[q] = RunOf[p]
      BY <1>1, <2>1, <3>1 DEF IInv, NumberInv, Awaits
    <3> QED
      BY <1>1, <3>2 DEF IInv, NumberInv
  <2> QED
    BY <2>2, <2>3
<1>2. IInv => NumbersNeverCollide
  BY <1>1 DEF IInv, NumberInv, Awaits, NumbersNeverCollide
<1> QED
  BY <1>2, Inductive, PTL

\* While such a run goes on, no watermark is above the counter emit counts with:
\* the events to come are visible to every client that asks for what is new.
THEOREM NoBlindSpot == Spec => []NewEventsAreVisible
<1>1. ASSUME IInv, row # "absent", NEW x \in clean, run[x] = "going", NEW s \in Streams
      PROVE  stream[s].last <= seqs[x]
  <2>1. stream[s].last = -1 \/ stream[s].last \in events
    BY <1>1 DEF IInv, WatermarkInv
  <2>2. x \in Runs /\ seqs[x] \in 0..MaxSeq /\ \A n \in events : n <= seqs[x]
    BY <1>1 DEF IInv, TypeInv, NumberInv
  <2> QED
    BY <2>1, <2>2, MaxSeqIsNat
<1>2. IInv => NewEventsAreVisible
  BY <1>1 DEF NewEventsAreVisible
<1> QED
  BY <1>2, Inductive, PTL

\* A stream passes over a stored event only if it pushed it, or if it was
\* inserted after one with a larger number, also when runs overlap.
THEOREM NothingElseMissed == Spec => []OnlyLateEventsMissed
<1>1. IInv => OnlyLateEventsMissed
  BY DEF IInv
<1> QED
  BY <1>1, Inductive, PTL
-----------------------------------------------------------------------------
(* The gate.  The set of open streams is finite, though there may be any   *)
(* number of connections, so that its cardinality can be counted along.    *)

OpenStreams == {s \in Streams : stream[s].pc \notin {"new", "closed"}}
OpenOf(t) == {s \in OpenStreams : TenantOf[s] = t}

GateInv ==
    /\ stream \in [Streams -> StreamShape]
    /\ counts \in [Tenants -> Nat]
    /\ IsFiniteSet(OpenStreams)
    /\ active = Cardinality(OpenStreams)
    /\ \A t \in Tenants : counts[t] = Cardinality(OpenOf(t))

\* What settings allow: so many streams of the process, so many per tenant.
WithinLimits ==
    /\ Total > 0 => active <= Total
    /\ PerTenant > 0 => \A t \in Tenants : counts[t] <= PerTenant

\* Tenants and limits have their types.
LEMMA GateConstants ==
    /\ \A s \in Streams : TenantOf[s] \in Tenants
    /\ PerTenant \in Nat /\ Total \in Nat
  BY StreamAssumption DEF StreamAssumption

\* All sets of open streams are finite and can be counted.
LEMMA OpenCounted ==
    ASSUME IsFiniteSet(OpenStreams)
    PROVE  /\ Cardinality(OpenStreams) \in Nat
           /\ \A t \in Tenants : IsFiniteSet(OpenOf(t)) /\ Cardinality(OpenOf(t)) \in Nat
<1>1. ASSUME NEW t \in Tenants PROVE IsFiniteSet(OpenOf(t))
  <2>1. OpenOf(t) \in SUBSET OpenStreams
    BY DEF OpenOf
  <2> QED
    BY <2>1, FS_Subset
<1> QED
  BY <1>1, FS_CardinalityType

\* A step in which no stream opens or closes and the gate is not called.
LEMMA SameGate ==
    ASSUME GateInv, WithinLimits, stream' \in [Streams -> StreamShape],
           OpenStreams' = OpenStreams, UNCHANGED gateVars
    PROVE  GateInv' /\ WithinLimits'
<1>1. \A t \in Tenants : OpenOf(t)' = OpenOf(t)
  BY DEF OpenOf
<1> QED
  BY <1>1 DEF GateInv, WithinLimits, gateVars

\* try_acquire counts the stream that opens.
LEMMA OpenGate ==
    ASSUME GateInv, WithinLimits, NEW s \in Streams, OpenStream(s)
    PROVE  GateInv' /\ WithinLimits'
<1> DEFINE u == TenantOf[s]
<1>1. /\ stream' \in [Streams -> StreamShape]
      /\ stream[s].pc = "new" /\ stream'[s].pc = "events"
      /\ \A r \in Streams \ {s} : stream'[r] = stream[r]
  BY DEF GateInv, OpenStream, StreamShape
<1>2. OpenStreams' = OpenStreams \cup {s} /\ s \notin OpenStreams
  BY <1>1 DEF OpenStreams
<1>3. /\ u \in Tenants
      /\ OpenOf(u)' = OpenOf(u) \cup {s} /\ s \notin OpenOf(u)
      /\ \A t \in Tenants \ {u} : OpenOf(t)' = OpenOf(t)
  BY <1>2, GateConstants DEF OpenOf
<1>4. /\ IsFiniteSet(OpenStreams) /\ Cardinality(OpenStreams) \in Nat
      /\ IsFiniteSet(OpenOf(u)) /\ Cardinality(OpenOf(u)) \in Nat
  BY <1>3, OpenCounted DEF GateInv
<1>5. IsFiniteSet(OpenStreams)' /\ Cardinality(OpenStreams)' = Cardinality(OpenStreams) + 1
  BY <1>2, <1>4, FS_AddElement
<1>6. Cardinality(OpenOf(u))' = Cardinality(OpenOf(u)) + 1
  BY <1>3, <1>4, FS_AddElement
<1>7. /\ active' = active + 1
      /\ counts' = [counts EXCEPT ![u] = counts[u] + 1]
      /\ Total > 0 => active < Total
      /\ PerTenant > 0 => counts[u] < PerTenant
  BY DEF OpenStream, HasSlot
<1>8. /\ counts' \in [Tenants -> Nat] /\ counts'[u] = counts[u] + 1
      /\ \A t \in Tenants \ {u} : counts'[t] = counts[t]
  BY <1>3, <1>7 DEF GateInv
<1>9. \A t \in Tenants : counts'[t] = Cardinality(OpenOf(t)')
  BY <1>3, <1>6, <1>8 DEF GateInv
<1>10. GateInv'
  BY <1>1, <1>5, <1>7, <1>8, <1>9 DEF GateInv
<1>11. WithinLimits'
  BY <1>3, <1>4, <1>7, <1>8, GateConstants DEF GateInv, WithinLimits
<1> QED
  BY <1>10, <1>11

\* release, in the finally of the generator, takes back exactly that.
LEMMA CloseGate ==
    ASSUME GateInv, WithinLimits, NEW s \in Streams, s \in OpenStreams, CloseStream(s)
    PROVE  GateInv' /\ WithinLimits'
<1> DEFINE u == TenantOf[s]
<1>1. /\ stream' \in [Streams -> StreamShape] /\ stream'[s].pc = "closed"
      /\ \A r \in Streams \ {s} : stream'[r] = stream[r]
  BY DEF GateInv, CloseStream, StreamShape
<1>2. OpenStreams' = OpenStreams \ {s}
  BY <1>1 DEF OpenStreams
<1>3. /\ u \in Tenants
      /\ OpenOf(u)' = OpenOf(u) \ {s} /\ s \in OpenOf(u)
      /\ \A t \in Tenants \ {u} : OpenOf(t)' = OpenOf(t)
  BY <1>2, GateConstants DEF OpenOf
<1>4. /\ IsFiniteSet(OpenStreams) /\ Cardinality(OpenStreams) \in Nat
      /\ IsFiniteSet(OpenOf(u)) /\ Cardinality(OpenOf(u)) \in Nat
  BY <1>3, OpenCounted DEF GateInv
<1>5. IsFiniteSet(OpenStreams)' /\ Cardinality(OpenStreams)' = Cardinality(OpenStreams) - 1
  BY <1>2, <1>4, FS_RemoveElement
<1>6. Cardinality(OpenOf(u))' = Cardinality(OpenOf(u)) - 1
  BY <1>3, <1>4, FS_RemoveElement
<1>7. active > 0 /\ counts[u] > 0
  BY <1>3, <1>4, FS_EmptySet DEF GateInv
<1>8. active' = active - 1 /\ counts' = [counts EXCEPT ![u] = counts[u] - 1]
  BY <1>7 DEF CloseStream, Release
<1>9. /\ counts' \in [Tenants -> Nat] /\ counts'[u] = counts[u] - 1
      /\ \A t \in Tenants \ {u} : counts'[t] = counts[t]
  BY <1>3, <1>7, <1>8 DEF GateInv
<1>10. \A t \in Tenants : counts'[t] = Cardinality(OpenOf(t)')
  BY <1>3, <1>6, <1>9 DEF GateInv
<1>11. GateInv'
  BY <1>1, <1>5, <1>8, <1>9, <1>10 DEF GateInv
<1>12. WithinLimits'
  BY <1>3, <1>4, <1>8, <1>9, GateConstants DEF GateInv, WithinLimits
<1> QED
  BY <1>11, <1>12

\* No stream is open at first.
LEMMA InitGate == Init => GateInv /\ WithinLimits
<1> SUFFICES ASSUME Init PROVE GateInv /\ WithinLimits
  OBVIOUS
<1>1. stream \in [Streams -> StreamShape]
  BY InitIInv DEF IInv, TypeInv
<1>2. \A s \in Streams : stream[s].pc = "new"
  BY DEF Init
<1>3. OpenStreams = {} /\ \A t \in Tenants : OpenOf(t) = {}
  BY <1>2 DEF OpenStreams, OpenOf
<1> QED
  BY <1>1, <1>3, FS_EmptySet, GateConstants DEF Init, GateInv, WithinLimits

\* Every step keeps the count of the gate.
LEMMA NextGate ==
    IInv /\ IInv' /\ GateInv /\ WithinLimits /\ [Next]_vars => GateInv' /\ WithinLimits'
<1> SUFFICES ASSUME IInv, IInv', GateInv, WithinLimits, [Next]_vars
             PROVE  GateInv' /\ WithinLimits'
  OBVIOUS
<1>1. stream' \in [Streams -> StreamShape] /\ stream \in [Streams -> StreamShape]
  BY DEF IInv, TypeInv
<1>2. CASE UNCHANGED <<stream, gateVars>>
  BY <1>1, <1>2, SameGate DEF OpenStreams
<1>3. ASSUME NEW s \in Streams, OpenStream(s) PROVE GateInv' /\ WithinLimits'
  BY <1>3, OpenGate
<1>4. ASSUME NEW s \in Streams, PushEvents(s) \/ SleepBegins(s) \/ SleepEnds(s)
      PROVE  GateInv' /\ WithinLimits'
  <2>1. /\ stream[s].pc \in {"events", "row", "sleep"}
        /\ stream'[s].pc \in {"events", "row", "sleep"}
        /\ \A r \in Streams \ {s} : stream'[r] = stream[r]
        /\ UNCHANGED gateVars
    <3>1. CASE PushEvents(s)
      BY <1>1, <3>1 DEF PushEvents, StreamShape
    <3>2. CASE SleepBegins(s) \/ SleepEnds(s)
      BY <1>1, <3>2 DEF SleepBegins, SleepEnds, StreamShape
    <3> QED
      BY <1>4, <3>1, <3>2
  <2>2. OpenStreams' = OpenStreams
    BY <2>1 DEF OpenStreams
  <2> QED
    BY <1>1, <2>1, <2>2, SameGate
<1>5. ASSUME NEW s \in Streams, StreamEnd(s) \/ StreamTimeout(s) \/ Disconnect(s)
      PROVE  GateInv' /\ WithinLimits'
  <2>1. CloseStream(s) /\ s \in OpenStreams
    BY <1>5 DEF StreamEnd, StreamTimeout, Disconnect, OpenStreams
  <2> QED
    BY <2>1, CloseGate
<1>6. CASE \/ \E x \in Runs : StartRun(x) \/ SeedRun(x) \/ EndRun(x) \/ WriteRow(x) \/ Crash(x)
           \/ Sweep \/ CancelTask \/ DeleteTask
           \/ \E p \in Emitters : Emit(p) \/ AppendEvent(p) \/ AppendFails(p)
  BY <1>2, <1>6 DEF StartRun, SeedRun, EndRun, WriteRow, Crash, Sweep, CancelTask, DeleteTask,
                    Emit, AppendEvent, AppendFails
<1>7. CASE UNCHANGED vars
  BY <1>2, <1>7 DEF vars
<1> QED
  BY <1>3, <1>4, <1>5, <1>6, <1>7 DEF Next, StreamStep

\* The invariant of the gate holds in every reachable state.
LEMMA GateInductive == Spec => [](GateInv /\ WithinLimits)
<1>1. Init => GateInv /\ WithinLimits
  BY InitGate
<1>2. IInv /\ IInv' /\ GateInv /\ WithinLimits /\ [Next]_vars => GateInv' /\ WithinLimits'
  BY NextGate
<1> QED
  BY <1>1, <1>2, Inductive, PTL DEF Spec

\* However a stream ends (terminal row, time-out, disconnect), ConcurrencyGate
\* counts exactly the streams that are open, in total and per tenant.
THEOREM SlotsAreStreams == Spec => []SlotsMatchStreams
<1>1. GateInv => SlotsMatchStreams
  <2> SUFFICES ASSUME GateInv PROVE SlotsMatchStreams
    OBVIOUS
  <2> DEFINE Open(t) == {s \in Streams : /\ stream[s].pc \notin {"new", "closed"}
                                         /\ TenantOf[s] = t}
  <2>1. \A t \in Tenants : Open(t) = OpenOf(t)
    BY DEF OpenOf, OpenStreams
  <2>2. UNION {Open(t) : t \in Tenants} = OpenStreams
    BY GateConstants DEF OpenStreams
  <2> QED
    BY <2>1, <2>2 DEF GateInv, SlotsMatchStreams
<1> QED
  BY <1>1, GateInductive, PTL

\* try_acquire keeps the limits: never more open streams than settings allow
\* for the process and for a tenant (0 is no limit).
THEOREM StreamsAreLimited ==
    Spec => [](/\ Total > 0 => Cardinality(OpenStreams) <= Total
               /\ PerTenant > 0 =>
                    \A t \in Tenants : Cardinality(OpenOf(t)) <= PerTenant)
<1>1. GateInv /\ WithinLimits =>
        /\ Total > 0 => Cardinality(OpenStreams) <= Total
        /\ PerTenant > 0 => \A t \in Tenants : Cardinality(OpenOf(t)) <= PerTenant
  BY DEF GateInv, WithinLimits
<1> QED
  BY <1>1, GateInductive, PTL

-----------------------------------------------------------------------------
(* Recursion and induction over 0..N.                                      *)

\* A nonempty set of numbers has a least one.
LEMMA LeastOf ==
    ASSUME NEW S \in SUBSET Nat, S # {}
    PROVE  \E m \in S : \A j \in S : m <= j
<1> DEFINE R == OpToRel(<, Nat)
<1>1. PICK m \in S : \A y \in S : ~ (<<y, m>> \in R)
  <2> HIDE DEF R
  <2>1. IsWellFoundedOn(R, Nat)
    BY NatLessThanWellFounded DEF R
  <2> QED
    BY <2>1, WFMin
<1>2. ASSUME NEW y \in S, ~(m <= y) PROVE FALSE
  <2>1. y \in Nat /\ m \in Nat /\ y < m
    BY <1>2
  <2> QED
    BY <1>1, <2>1 DEF OpToRel
<1> QED
  BY <1>2

\* What holds of 0, and of a number with its predecessor, holds up to N.
LEMMA IntervalInduction ==
    ASSUME NEW N \in Nat, NEW G, 0 \in G, \A i \in 1..N : i - 1 \in G => i \in G
    PROVE  0..N \subseteq G
<1> SUFFICES ASSUME ~(0..N \subseteq G) PROVE FALSE
  OBVIOUS
<1> DEFINE Bad == {i \in 0..N : i \notin G}
<1>1. Bad \in SUBSET Nat /\ Bad # {}
  OBVIOUS
<1>2. PICK m \in Bad : \A j \in Bad : m <= j
  BY <1>1, LeastOf
<1>3. m \in 1..N /\ m \notin G
  BY <1>2
<1>4. m - 1 \in 0..N /\ ~(m <= m - 1)
  BY <1>3
<1>5. m - 1 \in G
  BY <1>2, <1>4
<1> QED
  BY <1>3, <1>5

\* g solves the recursion over 0..N that begins with base.
Solves(g, N, A, base, step) ==
    g \in [0..N -> A] /\ g[0] = base /\ \A i \in 1..N : g[i] = step[<<i, g[i - 1]>>]

\* It has a solution.
LEMMA Recursion ==
    ASSUME NEW N \in Nat, NEW A, NEW base \in A, NEW step \in [(1..N) \X A -> A]
    PROVE  \E g : Solves(g, N, A, base, step)
<1> DEFINE Good(n, g) == /\ g \in [0..n -> A] /\ g[0] = base
                         /\ \A i \in 1..n : g[i] = step[<<i, g[i - 1]>>]
           G == {n \in 0..N : \E g : Good(n, g)}
<1>1. 0 \in G
  <2>1. Good(0, [i \in 0..0 |-> base])
    OBVIOUS
  <2>2. 0 \in 0..N
    OBVIOUS
  <2> HIDE DEF Good
  <2> QED
    BY <2>1, <2>2
<1>2. ASSUME NEW n \in 1..N, n - 1 \in G PROVE n \in G
  <2>1. PICK g : Good(n - 1, g)
    BY <1>2
  <2> DEFINE h == [i \in 0..n |-> IF i = n THEN step[<<n, g[n - 1]>>] ELSE g[i]]
  <2>2. g \in [0..n - 1 -> A] /\ n - 1 \in 0..n - 1
    BY <2>1
  <2>3. g[n - 1] \in A
    BY <2>2
  <2>4. h \in [0..n -> A] /\ h[0] = base
    BY <2>1, <2>2, <2>3
  <2>5. ASSUME NEW i \in 1..n PROVE h[i] = step[<<i, h[i - 1]>>]
    <3>1. i - 1 \in 0..n /\ i - 1 # n
      OBVIOUS
    <3>2. h[i - 1] = g[i - 1]
      BY <3>1
    <3>3. CASE i = n
      <4>1. h[n] = step[<<n, g[n - 1]>>] /\ h[n - 1] = g[n - 1]
        BY <3>2, <3>3
      <4> HIDE DEF h
      <4>2. h[n] = step[<<n, h[n - 1]>>]
        BY <4>1
      <4> QED
        BY <3>3, <4>2
    <3>4. CASE i # n
      <4>1. i \in 1..(n - 1)
        BY <3>4
      <4>2. g[i] = step[<<i, g[i - 1]>>] /\ h[i] = g[i]
        BY <2>1, <3>4, <4>1
      <4> QED
        BY <3>2, <4>2
    <3> QED
      BY <3>3, <3>4
  <2> HIDE DEF h
  <2>6. Good(n, h)
    BY <2>4, <2>5
  <2> QED
    BY <2>6
<1> HIDE DEF G
<1>3. 0..N \subseteq G
  BY <1>1, <1>2, IntervalInduction
<1>4. N \in G
  BY <1>3
<1> QED
  BY <1>4 DEF G, Solves

-----------------------------------------------------------------------------
(* Spans: the other record that AgentEngine keeps of a run.                *)

Names == [opener : Tasks, run : Nat, no : 1..(MaxSpans + 1)]

\* A record is booked on the task that opened the span, under an earlier span.
Records == {r \in [name : Names, parent : Nat, task : Tasks] :
              r.task = r.name.opener /\ r.parent < r.name.no}

\* No two records have one name.
Apart(q) == \A i, j \in 1..Len(q) : i # j => q[i].name # q[j].name

\* The elements of a sequence.
LEMMA SetOfSeq ==
    ASSUME NEW X, NEW q \in Seq(X)
    PROVE  /\ ToSet(q) = {q[i] : i \in 1..Len(q)}
           /\ Len(q) \in Nat /\ DOMAIN q = 1..Len(q)
           /\ ToSet(q) \subseteq X
  BY DEF ToSet

\* One of them.
LEMMA ElementOf ==
    ASSUME NEW X, NEW q \in Seq(X), NEW i \in 1..Len(q)
    PROVE  q[i] \in X
  OBVIOUS

\* append of _SpanBuffer.
LEMMA AppendIs ==
    ASSUME NEW X, NEW q \in Seq(X), NEW x \in X
    PROVE  /\ Append(q, x) \in Seq(X) /\ Len(Append(q, x)) = Len(q) + 1
           /\ \A i \in 1..Len(q) : Append(q, x)[i] = q[i]
           /\ Append(q, x)[Len(q) + 1] = x
           /\ ToSet(Append(q, x)) = ToSet(q) \cup {x}
<1> DEFINE a == Append(q, x)
<1>1. /\ a \in Seq(X) /\ Len(a) = Len(q) + 1 /\ \A i \in 1..Len(q) : a[i] = q[i]
      /\ a[Len(q) + 1] = x /\ Len(q) \in Nat
  OBVIOUS
<1> HIDE DEF a
<1>2. ASSUME NEW y PROVE y \in ToSet(a) <=> y \in ToSet(q) \cup {x}
  <2>1. ToSet(a) = {a[i] : i \in 1..Len(a)} /\ ToSet(q) = {q[i] : i \in 1..Len(q)}
    BY <1>1, SetOfSeq
  <2>2. ASSUME y \in ToSet(a) PROVE y \in ToSet(q) \cup {x}
    <3>1. PICK i \in 1..Len(a) : y = a[i]
      BY <2>1, <2>2
    <3>2. i \in 1..Len(q) \/ i = Len(q) + 1
      BY <1>1
    <3> QED
      BY <1>1, <2>1, <3>1, <3>2
  <2>3. ASSUME y \in ToSet(q) PROVE y \in ToSet(a)
    <3>1. PICK i \in 1..Len(q) : y = q[i]
      BY <2>1, <2>3
    <3>2. i \in 1..Len(a) /\ y = a[i]
      BY <1>1, <3>1
    <3> QED
      BY <2>1, <3>2
  <2>4. x \in ToSet(a)
    <3>1. Len(q) + 1 \in 1..Len(a)
      BY <1>1
    <3> QED
      BY <1>1, <2>1, <3>1
  <2> QED
    BY <2>2, <2>3, <2>4
<1>3. ToSet(a) = ToSet(q) \cup {x}
  BY <1>2
<1> QED
  BY <1>1, <1>3 DEF a

\* A record of another name.
LEMMA AppendApart ==
    ASSUME NEW q \in Seq(Records), Apart(q), NEW x \in Records,
           \A y \in ToSet(q) : y.name # x.name
    PROVE  Apart(Append(q, x))
<1> DEFINE a == Append(q, x)
<1>1. /\ Len(a) = Len(q) + 1 /\ \A i \in 1..Len(q) : a[i] = q[i]
      /\ a[Len(q) + 1] = x /\ Len(q) \in Nat
  BY AppendIs
<1> HIDE DEF a
<1>2. \A i \in 1..Len(q) : q[i] \in ToSet(q)
  BY SetOfSeq
<1>3. ASSUME NEW i \in 1..Len(a), NEW j \in 1..Len(a), i # j PROVE a[i].name # a[j].name
  <2>1. (i \in 1..Len(q) \/ i = Len(q) + 1) /\ (j \in 1..Len(q) \/ j = Len(q) + 1)
    BY <1>1
  <2>2. CASE i \in 1..Len(q) /\ j \in 1..Len(q)
    BY <1>1, <1>3, <2>2 DEF Apart
  <2>3. CASE i \in 1..Len(q) /\ j = Len(q) + 1
    BY <1>1, <1>2, <2>3
  <2>4. CASE i = Len(q) + 1 /\ j \in 1..Len(q)
    BY <1>1, <1>2, <2>4
  <2> QED
    BY <1>3, <2>1, <2>2, <2>3, <2>4
<1> QED
  BY <1>3 DEF Apart, a

\* drain_for: the records of the tasks, each as often as it was there.
LEMMA OfTasksIs ==
    ASSUME NEW s \in Seq(Records), NEW owners, Apart(s)
    PROVE  /\ OfTasks(s, owners) \in Seq(Records)
           /\ ToSet(OfTasks(s, owners)) =
                {r \in ToSet(s) : r.task \in owners}
           /\ Apart(OfTasks(s, owners))
<1> DEFINE N == Len(s)
           F(f) == [i \in 0..N |-> IF i = 0 THEN <<>>
                                   ELSE IF s[i].task \in owners THEN Append(f[i - 1], s[i])
                                   ELSE f[i - 1]]
           step == [p \in (1..N) \X Seq(Records) |->
                      IF s[p[1]].task \in owners THEN Append(p[2], s[p[1]]) ELSE p[2]]
<1>1. N \in Nat /\ \A i \in 1..N : s[i] \in Records
  OBVIOUS
<1>2. <<>> \in Seq(Records)
  OBVIOUS
<1>3. step \in [(1..N) \X Seq(Records) -> Seq(Records)]
  <2>1. \A i \in 1..N, q \in Seq(Records) : Append(q, s[i]) \in Seq(Records)
    BY <1>1, AppendIs
  <2> HIDE DEF N
  <2> QED
    BY <2>1
<1>4. PICK g \in [0..N -> Seq(Records)] :
        g[0] = <<>> /\ \A i \in 1..N : g[i] = step[<<i, g[i - 1]>>]
  <2> DEFINE none == <<>>
             A == Seq(Records)
  <2>1. none \in A /\ step \in [(1..N) \X A -> A] /\ N \in Nat
    BY <1>1, <1>2, <1>3
  <2> HIDE DEF N, step, none, A
  <2>2. \E h : Solves(h, N, A, none, step)
    BY <2>1, Recursion
  <2> QED
    BY <2>2 DEF none, A, Solves
<1>5. g = F(g)
  <2>1. ASSUME NEW i \in 1..N
        PROVE  g[i] = IF s[i].task \in owners THEN Append(g[i - 1], s[i]) ELSE g[i - 1]
    <3>1. <<i, g[i - 1]>> \in (1..N) \X Seq(Records)
      <4>1. i - 1 \in 0..N
        BY <1>1
      <4> HIDE DEF N
      <4> QED
        BY <1>4, <4>1
    <3> QED
      BY <1>4, <3>1
  <2> HIDE DEF N, step
  <2>2. ASSUME NEW i \in 0..N PROVE g[i] = F(g)[i]
    <3>1. CASE i = 0
      <4>1. F(g)[i] = <<>>
        BY <3>1
      <4> HIDE DEF F
      <4> QED
        BY <1>4, <3>1, <4>1
    <3>2. CASE i \in 1..N
      <4>1. F(g)[i] = IF s[i].task \in owners THEN Append(g[i - 1], s[i]) ELSE g[i - 1]
        BY <3>2
      <4> HIDE DEF F
      <4> QED
        BY <2>1, <3>2, <4>1
    <3> QED
      BY <1>1, <3>1, <3>2
  <2> QED
    BY <1>4, <2>2
<1> DEFINE f == CHOOSE h : h = F(h)
<1>6. f = F(f)
  <2> HIDE DEF F
  <2> QED
    BY <1>5
<1>7. OfTasks(s, owners) = f[N]
  BY DEF OfTasks
<1>8. /\ f[0] = <<>>
      /\ \A i \in 1..N :
           f[i] = IF s[i].task \in owners THEN Append(f[i - 1], s[i]) ELSE f[i - 1]
  <2> HIDE DEF f, N
  <2> DEFINE h == F(f)
  <2>1. /\ h[0] = <<>>
        /\ \A i \in 1..N :
             h[i] = IF s[i].task \in owners THEN Append(f[i - 1], s[i]) ELSE f[i - 1]
    BY <1>1
  <2>2. f = h
    BY <1>6
  <2> HIDE DEF h
  <2> QED
    BY <2>1, <2>2
<1> HIDE DEF f, N
<1> DEFINE Upto(i) == {s[j] : j \in {k \in 1..i : s[k].task \in owners}}
           G == {i \in 0..N : /\ f[i] \in Seq(Records) /\ ToSet(f[i]) = Upto(i)
                              /\ Apart(f[i])}
<1>9. 0 \in G
  <2>1. ToSet(<<>>) = {}
    BY DEF ToSet
  <2>2. Apart(<<>>) /\ Upto(0) = {}
    BY DEF Apart
  <2> HIDE DEF Upto
  <2>3. f[0] \in Seq(Records) /\ ToSet(f[0]) = Upto(0) /\ Apart(f[0])
    BY <1>2, <1>8, <2>1, <2>2
  <2>4. 0 \in 0..N
    BY <1>1
  <2> QED
    BY <2>3, <2>4
<1>10. ASSUME NEW i \in 1..N, i - 1 \in G PROVE i \in G
  <2>0. i - 1 \in Nat /\ i \in 0..N /\ s[i] \in Records
    BY <1>1
  <2>1. CASE s[i].task \in owners
    <3>1. f[i] = Append(f[i - 1], s[i])
      BY <1>8, <2>1
    <3>2. Upto(i) = Upto(i - 1) \cup {s[i]}
      <4>1. {k \in 1..i : s[k].task \in owners} =
              {k \in 1..(i - 1) : s[k].task \in owners} \cup {i}
        BY <2>0, <2>1
      <4> QED
        BY <4>1
    <3>3. ASSUME NEW y \in Upto(i - 1) PROVE y.name # s[i].name
      <4>1. PICK j \in 1..(i - 1) : y = s[j]
        BY <3>3
      <4>2. j \in 1..N /\ i \in 1..N /\ j # i
        BY <1>1, <2>0, <4>1
      <4> QED
        BY <4>1, <4>2 DEF Apart, N
    <3> HIDE DEF Upto
    <3>4. /\ f[i - 1] \in Seq(Records) /\ ToSet(f[i - 1]) = Upto(i - 1)
          /\ Apart(f[i - 1])
      BY <1>10
    <3> DEFINE q == f[i - 1]
    <3>5. q \in Seq(Records) /\ ToSet(q) = Upto(i - 1) /\ Apart(q) /\ f[i] = Append(q, s[i])
      BY <3>1, <3>4
    <3> HIDE DEF q
    <3>6. Apart(Append(q, s[i]))
      BY <2>0, <3>3, <3>5, AppendApart
    <3>7. /\ Append(q, s[i]) \in Seq(Records)
          /\ ToSet(Append(q, s[i])) = ToSet(q) \cup {s[i]}
      BY <2>0, <3>5, AppendIs
    <3> QED
      BY <2>0, <3>2, <3>5, <3>6, <3>7
  <2>2. CASE ~(s[i].task \in owners)
    <3>1. f[i] = f[i - 1]
      BY <1>8, <2>2
    <3>2. Upto(i) = Upto(i - 1)
      <4>1. {k \in 1..i : s[k].task \in owners} = {k \in 1..(i - 1) : s[k].task \in owners}
        BY <2>0, <2>2
      <4> QED
        BY <4>1
    <3> HIDE DEF Upto
    <3> QED
      BY <1>10, <2>0, <3>1, <3>2
  <2> QED
    BY <2>1, <2>2
<1>11. N \in G
  <2> HIDE DEF G
  <2>1. 0..N \subseteq G
    BY <1>1, <1>9, <1>10, IntervalInduction
  <2> QED
    BY <1>1, <2>1
<1>12. Upto(N) = {r \in ToSet(s) : r.task \in owners}
  <2>1. ToSet(s) = {s[i] : i \in 1..N}
    BY SetOfSeq DEF N
  <2> QED
    BY <2>1
<1> QED
  BY <1>7, <1>11, <1>12

\* build_tree: spans that are opened under an earlier one are all within as many
\* levels of a root as their numbers say.
LEMMA AllAreShown ==
    ASSUME NEW nodes \in SUBSET Records, NEW N \in Nat,
           \A r \in nodes : r.name.no <= N
    PROVE  Shown(nodes, N) = nodes
<1> DEFINE Under(S) == {r \in nodes : ParentIn(r, nodes) \cap S # {}}
           F(f) == [n \in 0..N |-> IF n = 0 THEN Roots(nodes)
                                   ELSE f[n - 1] \cup Under(f[n - 1])]
           step == [p \in (1..N) \X SUBSET nodes |-> p[2] \cup Under(p[2])]
           A == SUBSET nodes
           none == Roots(nodes)
<1>1. none \in A /\ \A S \in A : Under(S) \in A
  BY DEF Roots
<1>2. step \in [(1..N) \X A -> A]
  <2> HIDE DEF Under
  <2> QED
    BY <1>1
<1>3. PICK g : Solves(g, N, A, none, step)
  <2> HIDE DEF none, A, step
  <2> QED
    BY <1>1, <1>2, Recursion
<1>4. g = F(g)
  <2> HIDE DEF none, Under
  <2>1. /\ g \in [0..N -> A] /\ g[0] = none
        /\ \A i \in 1..N : g[i] = step[<<i, g[i - 1]>>]
    BY <1>3 DEF Solves
  <2>2. ASSUME NEW i \in 1..N PROVE g[i] = g[i - 1] \cup Under(g[i - 1])
    <3>1. i - 1 \in 0..N /\ g[i - 1] \in A
      BY <2>1
    <3> HIDE DEF A
    <3> QED
      BY <2>1, <3>1 DEF A
  <2> HIDE DEF step, A
  <2>3. ASSUME NEW i \in 0..N PROVE g[i] = F(g)[i]
    BY <2>1, <2>2 DEF none
  <2> QED
    BY <2>1, <2>3
<1> DEFINE f == CHOOSE h : h = F(h)
<1>5. f = F(f)
  <2> HIDE DEF F
  <2> QED
    BY <1>4
<1>6. Shown(nodes, N) = f[N]
  BY DEF Shown
<1>7. /\ f[0] = none
      /\ \A i \in 1..N : f[i] = f[i - 1] \cup Under(f[i - 1])
  <2> HIDE DEF f, Under
  <2> DEFINE h == F(f)
  <2>1. h[0] = none /\ \A i \in 1..N : h[i] = f[i - 1] \cup Under(f[i - 1])
    OBVIOUS
  <2>2. f = h
    BY <1>5
  <2> HIDE DEF h, none
  <2> QED
    BY <2>1, <2>2
<1> HIDE DEF f
<1> DEFINE G == {n \in 0..N : /\ f[n] \in SUBSET nodes /\ none \subseteq f[n]
                              /\ \A r \in nodes : r.name.no <= n + 1 => r \in f[n]}
<1>8. \A r \in nodes : /\ r.name.no \in Nat /\ r.name.no >= 1 /\ r.parent \in Nat
                       /\ r.parent < r.name.no
  BY DEF Records, Names
<1>9. 0 \in G
  <2>1. ASSUME NEW r \in nodes, r.name.no <= 1 PROVE r \in none
    <3>1. r.parent = 0
      BY <1>8, <2>1
    <3>2. ASSUME NEW p \in ParentIn(r, nodes) PROVE FALSE
      <4>1. p \in nodes /\ p.name.no = 0
        BY <3>1 DEF ParentIn, SpanName
      <4> QED
        BY <1>8, <4>1
    <3> QED
      BY <3>2 DEF Roots
  <2> HIDE DEF none
  <2> QED
    BY <1>1, <1>7, <2>1
<1>10. ASSUME NEW i \in 1..N, i - 1 \in G PROVE i \in G
  <2>1. /\ f[i - 1] \in SUBSET nodes /\ none \subseteq f[i - 1]
        /\ \A r \in nodes : r.name.no <= (i - 1) + 1 => r \in f[i - 1]
    BY <1>10
  <2>2. f[i] = f[i - 1] \cup Under(f[i - 1])
    BY <1>7
  <2>3. ASSUME NEW r \in nodes, r.name.no <= i + 1 PROVE r \in f[i]
    <3>1. CASE ParentIn(r, nodes) = {}
      <4>1. r \in none
        BY <3>1 DEF Roots
      <4> HIDE DEF none
      <4> QED
        BY <2>1, <2>2, <4>1
    <3>2. CASE ParentIn(r, nodes) # {}
      <4>1. PICK p \in nodes : p \in ParentIn(r, nodes) /\ p.name.no = r.parent
        BY <3>2 DEF ParentIn, SpanName
      <4>2. p.name.no <= (i - 1) + 1
        <5> DEFINE a == p.name.no
                   b == r.name.no
                   c == r.parent
        <5>1. a = c /\ c < b /\ b <= i + 1 /\ b \in Nat /\ c \in Nat /\ i \in Nat
          BY <1>8, <2>3, <4>1
        <5> HIDE DEF a, b, c
        <5>2. a <= (i - 1) + 1
          BY <5>1
        <5> QED
          BY <5>2 DEF a
      <4>3. p \in f[i - 1]
        BY <2>1, <4>1, <4>2
      <4> QED
        BY <2>2, <4>1, <4>3
    <3> QED
      BY <3>1, <3>2
  <2>4. f[i] \in SUBSET nodes /\ none \subseteq f[i]
    <3> HIDE DEF none
    <3>1. Under(f[i - 1]) \in SUBSET nodes
      OBVIOUS
    <3> HIDE DEF Under
    <3> QED
      BY <2>1, <2>2, <3>1
  <2> HIDE DEF none, Under
  <2> QED
    BY <2>3, <2>4
<1>11. N \in G
  <2> HIDE DEF G
  <2>1. 0..N \subseteq G
    BY <1>9, <1>10, IntervalInduction
  <2> QED
    BY <2>1
<1> QED
  <2>1. f[N] \in SUBSET nodes /\ \A r \in nodes : r.name.no <= N + 1 => r \in f[N]
    BY <1>11
  <2>2. \A r \in nodes : r.name.no <= N + 1
    BY <1>8
  <2> QED
    BY <1>6, <2>1, <2>2

-----------------------------------------------------------------------------
(* The inductive invariant of the spans.                                   *)

InGraph == {"graph", "checking"}
Flushing == {"writing", "committed"}
SpanRun == [pc : InGraph \cup {"rest", "flush"} \cup Flushing, n : Nat,
            open : Seq([parent : Nat, live : BOOLEAN]), used : Nat, batch : Seq(Records)]

\* A run: spans are opened under earlier ones, its root is open until the end, and it
\* has a batch only while that is written and counted.
RunShape(r) ==
    /\ r \in SpanRun
    /\ Len(r.open) <= MaxSpans + 1
    /\ \A i \in 1..Len(r.open) : r.open[i].parent < i
    /\ r.pc \in InGraph => Len(r.open) >= 1 /\ r.open[1].live
    /\ r.pc \notin Flushing => r.batch = <<>>

\* A closed span s of the task is not one that its run r may still close.
ClosedIn(s, r) ==
    /\ s.run <= r.n
    /\ s.run = r.n /\ r.pc \in InGraph => s.no \in 1..Len(r.open) /\ ~r.open[s.no].live

ShapeInv ==
    /\ DOMAIN traced = Tasks /\ \A t \in Tasks : RunShape(traced[t])
    /\ buffer \in Seq(Records) /\ Apart(buffer)
    /\ spanCounts \in [Tasks -> Nat]
    /\ rows \in SUBSET Records
    /\ closed \in SUBSET Names /\ lost \in SUBSET Names /\ IsFiniteSet(closed)

\* The places of a closed span exclude each other.
PlaceInv ==
    /\ closed = Stored \cup InFlight \cup InBuffer \cup lost
    /\ Stored \cap InFlight = {}
    /\ (Stored \cup InFlight) \cap InBuffer = {}
    /\ (Stored \cup InFlight \cup InBuffer) \cap lost = {}
    /\ \A s \in closed : ClosedIn(s, traced[s.opener])
    /\ \A t \in Tasks : \A r \in Batch(t) : r.task = t
    /\ \A t \in Tasks : traced[t].pc \in Flushing =>
         \A r \in ToSet(buffer) : r.task # t

\* The rows that the counter of the task knows of: not those of a batch that was
\* just committed.
Landed(t) == IF traced[t].pc = "committed" THEN ToSet(traced[t].batch) ELSE {}
Countable(t) == {r \in RowsOf(t) : r.name \notin uncounted}
Known(t) == Countable(t) \ Landed(t)

\* The count of a task is at least what is stored of it and known, and with the
\* batch that is written at most the limit.
LimitInv ==
    \A t \in Tasks :
        /\ IsFiniteSet(RowsOf(t))
        /\ Cardinality(Known(t)) <= spanCounts[t]
        /\ Limit # 0 => spanCounts[t] <= Limit
        /\ traced[t].pc \in Flushing =>
             /\ traced[t].used = spanCounts[t]
             /\ Limit # 0 => spanCounts[t] + Len(traced[t].batch) <= Limit

SpanInv == ShapeInv /\ PlaceInv /\ LimitInv

\* Finite sets without a common element.
LEMMA DisjointSizes ==
    ASSUME NEW S, NEW T, IsFiniteSet(S), IsFiniteSet(T), S \cap T = {}
    PROVE  Cardinality(S \cup T) = Cardinality(S) + Cardinality(T)
<1>1. Cardinality(S) \in Nat /\ Cardinality(T) \in Nat /\ Cardinality({}) = 0
  BY FS_CardinalityType, FS_EmptySet
<1>2. Cardinality(S \cup T) = Cardinality(S) + Cardinality(T) - Cardinality(S \cap T)
  BY FS_Union
<1>3. Cardinality(S \cap T) = 0
  BY <1>1
<1> QED
  BY <1>1, <1>2, <1>3

\* The constants are numbers.
LEMMA SpanConstants ==
    MaxPending \in Nat /\ MaxPending >= 1 /\ Limit \in Nat /\ MaxSpans \in Nat
  BY SpansAssumption DEF SpansAssumption

\* Nothing has run.
LEMMA SpanInvInit == SpansInit => SpanInv
<1> SUFFICES ASSUME SpansInit PROVE SpanInv
  OBVIOUS
<1> DEFINE r0 == [pc |-> "rest", n |-> 0, open |-> <<>>, used |-> 0, batch |-> <<>>]
<1>1. /\ DOMAIN traced = Tasks /\ \A t \in Tasks : traced[t] = r0
      /\ buffer = <<>> /\ rows = {} /\ closed = {} /\ lost = {}
      /\ spanCounts = [t \in Tasks |-> 0] /\ uncounted = {}
  BY DEF SpansInit
<1>2. RunShape(r0) /\ r0.pc = "rest" /\ r0.batch = <<>>
  <2>1. <<>> \in Seq([parent : Nat, live : BOOLEAN]) /\ <<>> \in Seq(Records) /\ Len(<<>>) = 0
    OBVIOUS
  <2>2. r0 \in SpanRun
    BY <2>1 DEF SpanRun
  <2> QED
    BY <2>1, <2>2, SpanConstants DEF RunShape, InGraph, Flushing
<1> HIDE DEF r0
<1>3. ToSet(<<>>) = {}
  BY DEF ToSet
<1>4. ShapeInv
  <2>1. buffer \in Seq(Records) /\ Apart(buffer)
    BY <1>1 DEF Apart
  <2>2. IsFiniteSet(closed)
    BY <1>1, FS_EmptySet
  <2> QED
    BY <1>1, <1>2, <2>1, <2>2 DEF ShapeInv
<1>5. /\ Stored = {} /\ InBuffer = {} /\ InFlight = {}
      /\ \A t \in Tasks : Batch(t) = {}
  <2>1. ASSUME NEW t \in Tasks PROVE Batch(t) = {}
    BY <1>1, <1>2 DEF Batch
  <2>2. ToSet(buffer) = {}
    BY <1>1, <1>3
  <2> QED
    BY <1>1, <2>1, <2>2 DEF Stored, InBuffer, InFlight, NamesOf
<1>6. PlaceInv
  BY <1>1, <1>2, <1>5 DEF PlaceInv, Flushing
<1>7. LimitInv
  <2>1. \A t \in Tasks : /\ RowsOf(t) = {} /\ Known(t) = {} /\ spanCounts[t] = 0
                         /\ traced[t].pc = "rest"
    BY <1>1, <1>2 DEF RowsOf, Known, Countable
  <2>2. IsFiniteSet({}) /\ Cardinality({}) = 0
    BY FS_EmptySet
  <2>3. \A t \in Tasks : IsFiniteSet(RowsOf(t)) /\ Cardinality(Known(t)) = 0
    BY <2>1, <2>2
  <2> QED
    BY <2>1, <2>3, SpanConstants DEF LimitInv, Flushing
<1> QED
  BY <1>4, <1>6, <1>7 DEF SpanInv

\* Where the batches stay, the same spans are in flight.
LEMMA SameFlight ==
    ASSUME \A u \in Tasks : Batch(u)' = Batch(u)
    PROVE  InFlight' = InFlight
<1>1. ASSUME NEW u \in Tasks PROVE NamesOf(Batch(u)') = NamesOf(Batch(u))
  OBVIOUS
<1> QED
  BY <1>1 DEF InFlight

\* Where rows stay and no flush begins or ends, the same rows are known.
LEMMA SameLimits ==
    ASSUME LimitInv, UNCHANGED <<spanCounts, rows, uncounted>>,
           \A u \in Tasks : \/ traced'[u] = traced[u]
                            \/ traced'[u].pc \notin Flushing /\ traced[u].pc \notin Flushing
    PROVE  LimitInv'
<1>1. ASSUME NEW u \in Tasks PROVE RowsOf(u)' = RowsOf(u) /\ Known(u)' = Known(u)
  BY DEF RowsOf, Known, Countable, Landed, Flushing
<1>2. ASSUME NEW u \in Tasks, traced'[u].pc \in Flushing PROVE traced'[u] = traced[u]
  BY <1>2
<1> QED
  BY <1>1, <1>2 DEF LimitInv

\* A step of one run that closes nothing and moves no record.
LEMMA RunOnly ==
    ASSUME SpanInv, NEW t \in Tasks, NEW r, RunShape(r), r.pc \notin Flushing,
           traced[t].pc \notin Flushing, traced' = [traced EXCEPT ![t] = r],
           UNCHANGED <<buffer, spanCounts, rows, closed, lost, uncounted>>,
           \A s \in closed : s.opener = t /\ ClosedIn(s, traced[t]) => ClosedIn(s, r)
    PROVE  SpanInv'
<1>1. ShapeInv /\ PlaceInv /\ LimitInv /\ DOMAIN traced = Tasks
  BY DEF SpanInv, ShapeInv
<1>2. traced'[t] = r /\ \A u \in Tasks : u # t => traced'[u] = traced[u]
  BY <1>1
<1>3. \A u \in Tasks : Batch(u)' = Batch(u)
  BY <1>2 DEF Batch, Flushing
<1>4. ShapeInv'
  BY <1>1, <1>2 DEF ShapeInv
<1>5. PlaceInv'
  <2>1. /\ InFlight' = InFlight /\ Stored' = Stored /\ InBuffer' = InBuffer
        /\ ToSet(buffer)' = ToSet(buffer)
    BY <1>3, SameFlight DEF Stored, InBuffer
  <2>2. ASSUME NEW s \in closed PROVE ClosedIn(s, traced'[s.opener])
    <3>1. s.opener \in Tasks
      BY <1>1 DEF ShapeInv, Names
    <3> QED
      BY <1>1, <1>2, <3>1 DEF PlaceInv
  <2>3. \A u \in Tasks : traced'[u].pc \in Flushing => traced[u].pc \in Flushing
    BY <1>2
  <2> QED
    BY <1>1, <1>3, <2>1, <2>2, <2>3 DEF PlaceInv
<1>6. LimitInv'
  BY <1>1, <1>2, SameLimits
<1> QED
  BY <1>4, <1>5, <1>6 DEF SpanInv

\* What the invariant says of one run.
LEMMA RunFacts ==
    ASSUME SpanInv, NEW t \in Tasks
    PROVE  /\ RunShape(traced[t]) /\ traced[t] \in SpanRun /\ DOMAIN traced = Tasks
           /\ traced[t].open \in Seq([parent : Nat, live : BOOLEAN])
           /\ Len(traced[t].open) \in Nat /\ DOMAIN traced[t].open = 1..Len(traced[t].open)
<1>1. RunShape(traced[t]) /\ traced[t] \in SpanRun /\ DOMAIN traced = Tasks
  BY DEF SpanInv, ShapeInv, RunShape
<1>2. traced[t].open \in Seq([parent : Nat, live : BOOLEAN])
  BY <1>1 DEF SpanRun
<1> QED
  BY <1>1, <1>2

\* The root is opened in a run of a new number.
LEMMA BeginRunKeeps ==
    ASSUME SpanInv, NEW t \in Tasks, BeginRun(t)
    PROVE  SpanInv'
<1> DEFINE e == traced[t]
           k == e.n + 1
           o == <<[parent |-> 0, live |-> TRUE]>>
           r == [e EXCEPT !.pc = "graph", !.n = k, !.open = o]
<1>1. /\ traced' = [traced EXCEPT ![t] = r] /\ e.pc = "rest"
      /\ UNCHANGED <<buffer, spanCounts, rows, closed, lost, uncounted>>
  BY DEF BeginRun, NoParent
<1>2. /\ o \in Seq([parent : Nat, live : BOOLEAN]) /\ Len(o) = 1
      /\ o[1].parent = 0 /\ o[1].live
  OBVIOUS
<1>3. RunShape(e) /\ e \in SpanRun /\ e.n \in Nat /\ e.batch = <<>>
  BY <1>1, RunFacts DEF RunShape, SpanRun, Flushing
<1>4. k \in Nat /\ k > e.n
  BY <1>3
<1> HIDE DEF e, k, o
<1>5. /\ r \in SpanRun /\ r.pc = "graph" /\ r.n = k /\ r.open = o /\ r.batch = e.batch
  BY <1>2, <1>3, <1>4 DEF SpanRun, InGraph, Flushing
<1> HIDE DEF r
<1>6. RunShape(r)
  <2>0. Len(r.open) = 1 /\ r.open[1] = o[1]
    <3>1. r.open = o
      BY <1>5
    <3>2. Len(o) = 1
      BY <1>2
    <3> QED
      BY <3>1, <3>2
  <2>1. ASSUME NEW i \in 1..Len(r.open) PROVE r.open[i].parent < i
    <3>1. i = 1
      BY <2>0
    <3> QED
      BY <1>2, <2>0, <3>1
  <2>2. r.open[1].live
    BY <1>2, <1>5
  <2>3. Len(r.open) <= MaxSpans + 1 /\ Len(r.open) >= 1
    BY <2>0, SpanConstants
  <2> QED
    BY <1>3, <1>5, <2>1, <2>2, <2>3 DEF RunShape
<1>7. ASSUME NEW s \in closed, s.opener = t, ClosedIn(s, e) PROVE ClosedIn(s, r)
  <2>1. s.run \in Nat /\ s.run <= e.n
    BY <1>7 DEF SpanInv, ShapeInv, Names, ClosedIn
  <2>2. s.run <= r.n /\ s.run # r.n
    <3> DEFINE a == s.run
               b == e.n
    <3>1. a \in Nat /\ b \in Nat /\ a <= b /\ k > b /\ k \in Nat /\ r.n = k
      BY <1>3, <1>4, <1>5, <2>1
    <3> HIDE DEF a, b
    <3>2. a <= k /\ a # k
      BY <3>1
    <3> QED
      BY <3>1, <3>2 DEF a
  <2> QED
    BY <2>2 DEF ClosedIn
<1> QED
  BY <1>1, <1>5, <1>6, <1>7, RunOnly DEF e, Flushing

\* A span is opened under an open one.
LEMMA OpenSpanKeeps ==
    ASSUME SpanInv, NEW t \in Tasks, NEW p, OpenSpan(t, p)
    PROVE  SpanInv'
<1> DEFINE e == traced[t]
           x == [parent |-> p, live |-> TRUE]
           o == Append(e.open, x)
           r == [e EXCEPT !.open = o]
<1>1. /\ traced' = [traced EXCEPT ![t] = r] /\ e.pc = "graph"
      /\ p \in 1..Len(e.open) /\ Len(e.open) <= MaxSpans
      /\ UNCHANGED <<buffer, spanCounts, rows, closed, lost, uncounted>>
  BY RunFacts DEF OpenSpan, Running, IsOpen
<1>2. /\ RunShape(e) /\ e \in SpanRun /\ e.open \in Seq([parent : Nat, live : BOOLEAN])
      /\ Len(e.open) \in Nat
  BY RunFacts
<1>3. x \in [parent : Nat, live : BOOLEAN] /\ x.parent = p
  BY <1>1, <1>2
<1>4. /\ o \in Seq([parent : Nat, live : BOOLEAN]) /\ Len(o) = Len(e.open) + 1
      /\ \A i \in 1..Len(e.open) : o[i] = e.open[i]
      /\ o[Len(e.open) + 1] = x
  <2> HIDE DEF e, x
  <2> QED
    BY <1>2, <1>3, AppendIs
<1> HIDE DEF e, x, o
<1>5. /\ r \in SpanRun /\ r.pc = e.pc /\ r.n = e.n /\ r.open = o /\ r.batch = e.batch
  BY <1>2, <1>4 DEF SpanRun
<1> HIDE DEF r
<1> DEFINE a == e.open
           m == Len(a)
<1>8. /\ m \in Nat /\ Len(o) = m + 1 /\ p \in 1..m
      /\ \A i \in 1..m : o[i] = a[i] /\ a[i].parent < i
      /\ o[m + 1].parent = p
  BY <1>1, <1>2, <1>3, <1>4 DEF RunShape
<1> HIDE DEF a, m
<1>6. RunShape(r)
  <2>1. ASSUME NEW i \in 1..Len(o) PROVE o[i].parent < i
    <3>1. CASE i \in 1..m
      BY <1>8, <3>1
    <3>2. CASE i = m + 1
      <4>1. o[i].parent = p /\ p < i
        BY <1>8, <3>2
      <4> QED
        BY <4>1
    <3> QED
      BY <1>8, <3>1, <3>2
  <2>2. Len(o) <= MaxSpans + 1 /\ Len(o) >= 1
    BY <1>1, <1>2, <1>4, SpanConstants
  <2>3. o[1].live
    <3>1. e.open[1].live /\ 1 \in 1..Len(e.open)
      BY <1>1, <1>2 DEF RunShape, InGraph, Flushing
    <3>2. o[1] = e.open[1]
      BY <1>4, <3>1
    <3> QED
      BY <3>1, <3>2
  <2>4. r.batch = <<>>
    BY <1>1, <1>2, <1>5 DEF RunShape, Flushing
  <2> QED
    BY <1>5, <2>1, <2>2, <2>3, <2>4 DEF RunShape
<1>7. ASSUME NEW s \in closed, s.opener = t, ClosedIn(s, e) PROVE ClosedIn(s, r)
  <2>1. 1..m \subseteq 1..Len(o) /\ \A i \in 1..m : o[i] = a[i]
    BY <1>8
  <2> QED
    BY <1>1, <1>5, <1>7, <2>1 DEF ClosedIn, InGraph, a, m
<1> QED
  BY <1>1, <1>5, <1>6, <1>7, RunOnly DEF e, Flushing

\* ainvoke returns: the root stays open while the pause is looked at.
LEMMA GraphReturnsKeeps ==
    ASSUME SpanInv, NEW t \in Tasks, GraphReturns(t)
    PROVE  SpanInv'
<1> DEFINE e == traced[t]
           r == [e EXCEPT !.pc = "checking"]
<1>1. /\ traced' = [traced EXCEPT ![t] = r] /\ e.pc = "graph"
      /\ UNCHANGED <<buffer, spanCounts, rows, closed, lost, uncounted>>
  BY DEF GraphReturns, Running
<1>2. RunShape(e) /\ e \in SpanRun
  BY RunFacts
<1> HIDE DEF e
<1>3. /\ r \in SpanRun /\ r.pc = "checking" /\ r.n = e.n /\ r.open = e.open /\ r.batch = e.batch
  BY <1>2 DEF SpanRun, InGraph, Flushing
<1> HIDE DEF r
<1>4. RunShape(r)
  BY <1>1, <1>2, <1>3 DEF RunShape, InGraph, Flushing
<1>5. ASSUME NEW s \in closed, s.opener = t, ClosedIn(s, e) PROVE ClosedIn(s, r)
  BY <1>1, <1>3, <1>5 DEF ClosedIn, InGraph
<1> QED
  BY <1>1, <1>3, <1>4, <1>5, RunOnly DEF e, Flushing

\* The pause check breaks off: the root is never closed.
LEMMA CheckFailsKeeps ==
    ASSUME SpanInv, NEW t \in Tasks, CheckFails(t)
    PROVE  SpanInv'
<1> DEFINE e == traced[t]
           r == [e EXCEPT !.pc = "rest", !.open = <<>>]
<1>1. /\ traced' = [traced EXCEPT ![t] = r] /\ e.pc = "checking"
      /\ UNCHANGED <<buffer, spanCounts, rows, closed, lost, uncounted>>
  BY DEF CheckFails
<1>2. /\ RunShape(e) /\ e \in SpanRun /\ <<>> \in Seq([parent : Nat, live : BOOLEAN])
      /\ Len(<<>>) = 0
  BY RunFacts
<1> HIDE DEF e
<1>3. /\ r \in SpanRun /\ r.pc = "rest" /\ r.n = e.n /\ Len(r.open) = 0 /\ r.batch = e.batch
  BY <1>2 DEF SpanRun
<1> HIDE DEF r
<1>4. RunShape(r)
  BY <1>1, <1>2, <1>3, SpanConstants DEF RunShape, InGraph, Flushing
<1>5. ASSUME NEW s \in closed, s.opener = t, ClosedIn(s, e) PROVE ClosedIn(s, r)
  BY <1>3, <1>5 DEF ClosedIn, InGraph
<1> QED
  BY <1>1, <1>3, <1>4, <1>5, RunOnly DEF e, Flushing

\* pop(0) of _SpanBuffer: the oldest record and the others.
LEMMA PopIs ==
    ASSUME NEW q \in Seq(Records), Apart(q), Len(q) >= 1
    PROVE  /\ Head(q) \in Records /\ Tail(q) \in Seq(Records) /\ Apart(Tail(q))
           /\ ToSet(q) = ToSet(Tail(q)) \cup {Head(q)}
           /\ \A y \in ToSet(Tail(q)) : y.name # Head(q).name
<1> DEFINE w == Tail(q)
           m == Len(q)
<1>1. /\ m \in Nat /\ m >= 1 /\ \A i \in 1..m : q[i] \in Records
      /\ Head(q) = q[1] /\ w \in Seq(Records) /\ Len(w) = m - 1
      /\ \A i \in 1..Len(w) : w[i] = q[i + 1]
  <2>1. q # <<>>
    OBVIOUS
  <2> QED
    BY <2>1
<1>2. /\ ToSet(q) = {q[i] : i \in 1..m} /\ ToSet(w) = {w[i] : i \in 1..Len(w)}
  BY <1>1, SetOfSeq
<1>3. \A i, j \in 1..m : i # j => q[i].name # q[j].name
  BY DEF Apart
<1> HIDE DEF w, m
<1>4. \A i \in 1..Len(w) : i + 1 \in 1..m /\ i + 1 # 1
  BY <1>1
<1>5. Apart(w)
  <2>1. ASSUME NEW i \in 1..Len(w), NEW j \in 1..Len(w), i # j PROVE w[i].name # w[j].name
    <3>1. i + 1 # j + 1 /\ i + 1 \in 1..m /\ j + 1 \in 1..m
      BY <1>4, <2>1
    <3>2. w[i] = q[i + 1] /\ w[j] = q[j + 1]
      BY <1>1
    <3> QED
      BY <1>3, <3>1, <3>2
  <2> QED
    BY <2>1 DEF Apart
<1>6. ASSUME NEW y \in ToSet(w) PROVE y.name # q[1].name /\ y \in ToSet(q)
  <2>1. PICK i \in 1..Len(w) : y = w[i]
    BY <1>2
  <2>2. y = q[i + 1] /\ i + 1 \in 1..m /\ i + 1 # 1 /\ 1 \in 1..m
    BY <1>1, <1>4, <2>1
  <2> QED
    BY <1>2, <1>3, <2>2
<1>7. ASSUME NEW y \in ToSet(q) PROVE y \in ToSet(w) \cup {q[1]}
  <2>1. PICK i \in 1..m : y = q[i]
    BY <1>2
  <2>2. CASE i = 1
    BY <2>1, <2>2
  <2>3. CASE i # 1
    <3>1. i - 1 \in 1..Len(w) /\ (i - 1) + 1 = i
      BY <1>1, <2>3
    <3>2. y = w[i - 1]
      BY <1>1, <2>1, <3>1
    <3> QED
      BY <1>2, <3>1, <3>2
  <2> QED
    BY <2>2, <2>3
<1>8. q[1] \in ToSet(q) /\ q[1] \in Records
  BY <1>1, <1>2
<1>9. ToSet(q) = ToSet(w) \cup {q[1]}
  BY <1>6, <1>7, <1>8
<1> QED
  BY <1>1, <1>5, <1>6, <1>8, <1>9 DEF w

\* A closed span enters one place, and what it drives out goes to another.
LEMMA EntersOnePlace ==
    ASSUME NEW C, NEW S, NEW F, NEW B, NEW L, NEW Q, NEW O, NEW n,
           C = S \cup F \cup B \cup L, S \cap F = {}, (S \cup F) \cap B = {},
           (S \cup F \cup B) \cap L = {}, B = Q \cup O, Q \cap O = {}, n \notin C
    PROVE  /\ C \cup {n} = S \cup F \cup (Q \cup {n}) \cup (L \cup O)
           /\ (S \cup F) \cap (Q \cup {n}) = {}
           /\ (S \cup F \cup (Q \cup {n})) \cap (L \cup O) = {}
  OBVIOUS

\* _SpanBuffer.add of the record of a span that was open.
LEMMA AddKeeps ==
    ASSUME SpanInv, NEW t \in Tasks, NEW r, RunShape(r),
           r.pc \notin Flushing, traced[t].pc \notin Flushing,
           traced' = [traced EXCEPT ![t] = r], UNCHANGED <<spanCounts, rows, uncounted>>,
           NEW x \in Records, x.task = t, x.name \notin closed, Add(x),
           \A s \in closed : s.opener = t /\ ClosedIn(s, traced[t]) => ClosedIn(s, r),
           ClosedIn(x.name, r)
    PROVE  SpanInv'
<1>1. ShapeInv /\ PlaceInv /\ LimitInv /\ DOMAIN traced = Tasks
  BY DEF SpanInv, ShapeInv
<1>2. traced'[t] = r /\ \A u \in Tasks : u # t => traced'[u] = traced[u]
  BY <1>1
<1>3. \A u \in Tasks : Batch(u)' = Batch(u)
  BY <1>2 DEF Batch, Flushing
<1>4. x.name \in Names /\ x.name.opener = t
  BY DEF Records
<1>5. PICK q, O : /\ buffer' = Append(q, x) /\ lost' = lost \cup O
                  /\ q \in Seq(Records) /\ Apart(q)
                  /\ ToSet(q) \subseteq ToSet(buffer)
                  /\ NamesOf(ToSet(buffer)) = NamesOf(ToSet(q)) \cup O
                  /\ NamesOf(ToSet(q)) \cap O = {} /\ O \subseteq Names
  <2>0. buffer \in Seq(Records) /\ Apart(buffer) /\ Len(buffer) \in Nat
    BY <1>1 DEF ShapeInv
  <2>1. CASE Len(buffer) >= MaxPending
    <3>1. /\ Head(buffer) \in Records /\ Tail(buffer) \in Seq(Records) /\ Apart(Tail(buffer))
          /\ ToSet(buffer) = ToSet(Tail(buffer)) \cup {Head(buffer)}
          /\ \A y \in ToSet(Tail(buffer)) : y.name # Head(buffer).name
      <4>1. Len(buffer) >= 1
        BY <2>0, <2>1, SpanConstants
      <4> QED
        BY <2>0, <4>1, PopIs
    <3> DEFINE w == Tail(buffer)
               h == Head(buffer)
    <3>2. buffer' = Append(w, x) /\ lost' = lost \cup {h.name}
      BY <2>1 DEF Add
    <3>3. h.name \in Names
      BY <3>1 DEF Records
    <3>4. /\ w \in Seq(Records) /\ Apart(w) /\ ToSet(buffer) = ToSet(w) \cup {h}
          /\ \A y \in ToSet(w) : y.name # h.name
      BY <3>1
    <3> HIDE DEF w, h
    <3>5. /\ ToSet(w) \subseteq ToSet(buffer)
          /\ NamesOf(ToSet(buffer)) = NamesOf(ToSet(w)) \cup {h.name}
          /\ NamesOf(ToSet(w)) \cap {h.name} = {} /\ {h.name} \subseteq Names
      BY <3>3, <3>4 DEF NamesOf
    <3> QED
      BY <3>2, <3>4, <3>5
  <2>2. CASE ~(Len(buffer) >= MaxPending)
    <3>1. buffer' = Append(buffer, x) /\ lost' = lost \cup {}
      BY <2>2 DEF Add
    <3> DEFINE none == {}
    <3>2. /\ NamesOf(ToSet(buffer)) = NamesOf(ToSet(buffer)) \cup none
          /\ NamesOf(ToSet(buffer)) \cap none = {} /\ none \subseteq Names
          /\ lost' = lost \cup none
      BY <3>1
    <3> HIDE DEF none
    <3> QED
      BY <2>0, <3>1, <3>2
  <2> QED
    BY <2>1, <2>2
<1>6. closed' = closed \cup {x.name}
  BY DEF Add
<1>7. /\ buffer' \in Seq(Records) /\ ToSet(buffer') = ToSet(q) \cup {x}
  BY <1>5, AppendIs
<1>8. \A y \in ToSet(buffer) : y.name # x.name
  BY <1>1 DEF PlaceInv, InBuffer, NamesOf
<1>9. Apart(buffer')
  BY <1>5, <1>8, AppendApart
<1>10. ShapeInv'
  <2>0. closed \in SUBSET Names /\ lost \in SUBSET Names /\ IsFiniteSet(closed)
    BY <1>1 DEF ShapeInv
  <2>1. closed' \in SUBSET Names /\ lost' \in SUBSET Names /\ IsFiniteSet(closed')
    <3>1. IsFiniteSet(closed \cup {x.name})
      BY <2>0, FS_AddElement
    <3> QED
      BY <1>4, <1>5, <1>6, <2>0, <3>1
  <2> QED
    BY <1>1, <1>2, <1>7, <1>9, <2>1 DEF ShapeInv
<1>11. PlaceInv'
  <2>1. InFlight' = InFlight /\ Stored' = Stored
    BY <1>3, SameFlight DEF Stored
  <2>2. /\ InBuffer = NamesOf(ToSet(buffer))
        /\ InBuffer' = NamesOf(ToSet(q)) \cup {x.name}
    BY <1>7 DEF InBuffer, NamesOf
  <2>3. /\ closed' = Stored' \cup InFlight' \cup InBuffer' \cup lost'
        /\ (Stored' \cup InFlight') \cap InBuffer' = {}
        /\ (Stored' \cup InFlight' \cup InBuffer') \cap lost' = {}
        /\ Stored' \cap InFlight' = {}
    <3> DEFINE S == Stored
               F == InFlight
               B == InBuffer
               Q == NamesOf(ToSet(q))
    <3>1. /\ closed = S \cup F \cup B \cup lost /\ S \cap F = {} /\ (S \cup F) \cap B = {}
          /\ (S \cup F \cup B) \cap lost = {} /\ B = Q \cup O /\ Q \cap O = {}
      BY <1>1, <1>5, <2>2 DEF PlaceInv
    <3>2. Stored' = S /\ InFlight' = F /\ InBuffer' = Q \cup {x.name}
      BY <2>1, <2>2
    <3> HIDE DEF S, F, B, Q
    <3>3. /\ closed \cup {x.name} = S \cup F \cup (Q \cup {x.name}) \cup (lost \cup O)
          /\ (S \cup F) \cap (Q \cup {x.name}) = {}
          /\ (S \cup F \cup (Q \cup {x.name})) \cap (lost \cup O) = {}
      BY <3>1, EntersOnePlace
    <3> QED
      BY <1>5, <1>6, <3>1, <3>2, <3>3
  <2>4. ASSUME NEW s \in closed' PROVE ClosedIn(s, traced'[s.opener])
    <3>1. CASE s = x.name
      BY <1>2, <1>4, <3>1
    <3>2. CASE s \in closed
      <4>1. s.opener \in Tasks
        BY <1>1, <3>2 DEF ShapeInv, Names
      <4> QED
        BY <1>1, <1>2, <3>2, <4>1 DEF PlaceInv
    <3> QED
      BY <1>6, <3>1, <3>2
  <2>5. ASSUME NEW u \in Tasks, traced'[u].pc \in Flushing, NEW y \in ToSet(buffer')
        PROVE  y.task # u
    <3>1. u # t /\ traced[u].pc \in Flushing
      BY <1>2, <2>5
    <3>2. y \in ToSet(buffer) \/ y = x
      BY <1>5, <1>7
    <3> QED
      BY <1>1, <3>1, <3>2 DEF PlaceInv
  <2>6. \A u \in Tasks : \A y \in Batch(u)' : y.task = u
    BY <1>1, <1>3 DEF PlaceInv
  <2> QED
    BY <2>3, <2>4, <2>5, <2>6 DEF PlaceInv
<1>12. LimitInv'
  BY <1>1, <1>2, SameLimits
<1> QED
  BY <1>10, <1>11, <1>12 DEF SpanInv

\* end of SpanSession: an open span has not been closed before.
LEMMA RecordIs ==
    ASSUME SpanInv, NEW t \in Tasks, traced[t].pc \in InGraph,
           NEW i \in 1..Len(traced[t].open), traced[t].open[i].live
    PROVE  /\ Record(t, i) \in Records /\ Record(t, i).task = t
           /\ Record(t, i).name \notin closed
           /\ Record(t, i).name.run = traced[t].n
           /\ Record(t, i).name.no = i
<1> DEFINE e == traced[t]
           x == Record(t, i)
           p == e.open[i].parent
<1>1. /\ RunShape(e) /\ e \in SpanRun /\ e.open \in Seq([parent : Nat, live : BOOLEAN])
      /\ Len(e.open) \in Nat
  BY RunFacts
<1>2. e.open[i] \in [parent : Nat, live : BOOLEAN]
  BY <1>1, ElementOf
<1>3. p \in Nat /\ p < i /\ e.n \in Nat /\ Len(e.open) <= MaxSpans + 1
  BY <1>1, <1>2 DEF RunShape, SpanRun
<1>4. i \in 1..(MaxSpans + 1)
  <2> DEFINE m == Len(e.open)
  <2>1. m \in Nat /\ m <= MaxSpans + 1 /\ i \in 1..m
    BY <1>1, <1>3
  <2> HIDE DEF m
  <2> QED
    BY <2>1, SpanConstants
<1>5. /\ x = [name |-> [opener |-> t, run |-> e.n, no |-> i], parent |-> p, task |-> t]
  BY DEF Record, SpanName
<1>6. /\ x \in Records /\ x.task = t /\ x.name.opener = t /\ x.name.run = e.n
      /\ x.name.no = i
  <2> DEFINE k == e.n
             y == [opener |-> t, run |-> k, no |-> i]
  <2>1. k \in Nat
    BY <1>3
  <2> HIDE DEF x, p, k
  <2>2. y \in Names /\ y.opener = t /\ y.run = k /\ y.no = i
    BY <1>4, <2>1 DEF Names
  <2>3. x = [name |-> y, parent |-> p, task |-> t]
    BY <1>5 DEF k
  <2> HIDE DEF y
  <2>4. x \in Records /\ x.task = t /\ x.name = y
    BY <1>3, <2>2, <2>3 DEF Records
  <2> QED
    BY <2>2, <2>4 DEF k
<1> HIDE DEF x
<1>7. ASSUME x.name \in closed PROVE FALSE
  <2>1. ClosedIn(x.name, e)
    BY <1>6, <1>7 DEF SpanInv, PlaceInv
  <2> QED
    BY <1>6, <2>1 DEF ClosedIn
<1> QED
  BY <1>6, <1>7 DEF x

\* A span under the root is closed.
LEMMA CloseSpanKeeps ==
    ASSUME SpanInv, NEW t \in Tasks, NEW i, CloseSpan(t, i)
    PROVE  SpanInv'
<1> DEFINE e == traced[t]
           o == [e.open EXCEPT ![i].live = FALSE]
           r == [e EXCEPT !.open = o]
           x == Record(t, i)
<1>1. /\ traced' = [traced EXCEPT ![t] = r] /\ e.pc = "graph" /\ i # 1
      /\ i \in 1..Len(e.open) /\ e.open[i].live
      /\ Add(x) /\ UNCHANGED <<spanCounts, rows, uncounted>>
  BY RunFacts DEF CloseSpan, Running, LastOpen, IsOpen,
                  Root
<1>2. /\ RunShape(e) /\ e \in SpanRun /\ e.open \in Seq([parent : Nat, live : BOOLEAN])
      /\ Len(e.open) \in Nat /\ DOMAIN e.open = 1..Len(e.open)
  BY RunFacts
<1>3. /\ x \in Records /\ x.task = t /\ x.name \notin closed
      /\ x.name.run = e.n /\ x.name.no = i
  BY <1>1, RecordIs DEF InGraph
<1> HIDE DEF x
<1>4. /\ o \in Seq([parent : Nat, live : BOOLEAN]) /\ Len(o) = Len(e.open)
      /\ \A j \in 1..Len(e.open) : j # i => o[j] = e.open[j]
      /\ o[i].live = FALSE /\ o[i].parent = e.open[i].parent
  <2> DEFINE a == e.open
             b == [a[i] EXCEPT !.live = FALSE]
  <2>1. a \in Seq([parent : Nat, live : BOOLEAN]) /\ i \in 1..Len(a)
    BY <1>1, <1>2
  <2>2. o = [a EXCEPT ![i] = b]
    OBVIOUS
  <2> HIDE DEF a, o
  <2>3. b \in [parent : Nat, live : BOOLEAN] /\ b.live = FALSE /\ b.parent = a[i].parent
    <3> DEFINE z == a[i]
    <3>1. z \in [parent : Nat, live : BOOLEAN]
      BY <2>1, ElementOf
    <3> HIDE DEF z
    <3>2. /\ [z EXCEPT !.live = FALSE] \in [parent : Nat, live : BOOLEAN]
          /\ [z EXCEPT !.live = FALSE].live = FALSE
          /\ [z EXCEPT !.live = FALSE].parent = z.parent
      BY <3>1
    <3> QED
      BY <3>2 DEF z
  <2> HIDE DEF b
  <2>4. /\ o \in Seq([parent : Nat, live : BOOLEAN]) /\ Len(o) = Len(a)
        /\ \A j \in 1..Len(a) : j # i => o[j] = a[j]
        /\ o[i] = b
    BY <2>1, <2>2, <2>3
  <2> QED
    BY <2>3, <2>4 DEF a
<1> HIDE DEF e, o
<1>5. /\ r \in SpanRun /\ r.pc = e.pc /\ r.n = e.n /\ r.open = o /\ r.batch = e.batch
  BY <1>2, <1>4 DEF SpanRun
<1> HIDE DEF r
<1>6. RunShape(r)
  <2>1. ASSUME NEW j \in 1..Len(o) PROVE o[j].parent < j
    <3>1. j \in 1..Len(e.open) /\ o[j].parent = e.open[j].parent
      BY <1>4
    <3> QED
      BY <1>2, <3>1 DEF RunShape
  <2>2. o[1].live
    <3>1. 1 \in 1..Len(e.open) /\ e.open[1].live
      BY <1>1, <1>2 DEF RunShape, InGraph, Flushing
    <3>2. o[1] = e.open[1]
      BY <1>1, <1>4, <3>1
    <3> QED
      BY <3>1, <3>2
  <2>3. Len(o) <= MaxSpans + 1 /\ Len(o) >= 1
    BY <1>1, <1>2, <1>4 DEF RunShape, InGraph, Flushing
  <2>4. r.batch = <<>>
    BY <1>1, <1>2, <1>5 DEF RunShape, Flushing
  <2> QED
    BY <1>5, <2>1, <2>2, <2>3, <2>4 DEF RunShape
<1>7. ASSUME NEW s \in closed, s.opener = t, ClosedIn(s, e) PROVE ClosedIn(s, r)
  <2>1. s.run <= r.n
    BY <1>5, <1>7 DEF ClosedIn
  <2>2. ASSUME s.run = r.n PROVE s.no \in 1..Len(o) /\ ~o[s.no].live
    <3>1. s.no \in 1..Len(e.open) /\ ~e.open[s.no].live
      BY <1>1, <1>5, <1>7, <2>2 DEF ClosedIn, InGraph
    <3>2. s.no # i
      BY <1>1, <3>1
    <3>3. o[s.no] = e.open[s.no]
      BY <1>4, <3>1, <3>2
    <3> QED
      BY <1>4, <3>1, <3>3
  <2> QED
    BY <1>5, <2>1, <2>2 DEF ClosedIn
<1>8. ClosedIn(x.name, r)
  <2>1. e.n \in Nat
    BY <1>2 DEF SpanRun
  <2> QED
    BY <1>1, <1>3, <1>4, <1>5, <2>1 DEF ClosedIn
<1> QED
  BY <1>1, <1>3, <1>5, <1>6, <1>7, <1>8, AddKeeps DEF e, Flushing

\* The root is closed at the end of the run.
LEMMA CloseRootKeeps ==
    ASSUME SpanInv, NEW t \in Tasks, CheckedOrRaised(t)
    PROVE  SpanInv'
<1> DEFINE e == traced[t]
           r == [e EXCEPT !.pc = "flush", !.open = <<>>]
           x == Record(t, 1)
<1>1. /\ traced' = [traced EXCEPT ![t] = r] /\ e.pc \in InGraph
      /\ Add(x) /\ UNCHANGED <<spanCounts, rows, uncounted>>
  BY DEF CheckedOrRaised, CloseRoot, Running, Root, InGraph
<1>2. /\ RunShape(e) /\ e \in SpanRun /\ <<>> \in Seq([parent : Nat, live : BOOLEAN])
      /\ Len(<<>>) = 0 /\ Len(e.open) \in Nat
  BY RunFacts
<1>3. 1 \in 1..Len(e.open) /\ e.open[1].live
  BY <1>1, <1>2 DEF RunShape
<1>4. x \in Records /\ x.task = t /\ x.name \notin closed /\ x.name.run = e.n
  BY <1>1, <1>3, RecordIs
<1> HIDE DEF e, x
<1>5. /\ r \in SpanRun /\ r.pc = "flush" /\ r.n = e.n /\ Len(r.open) = 0 /\ r.batch = e.batch
      /\ e.n \in Nat
  BY <1>2 DEF SpanRun
<1> HIDE DEF r
<1>6. RunShape(r)
  BY <1>1, <1>2, <1>5, SpanConstants DEF RunShape, InGraph, Flushing
<1>7. ASSUME NEW s \in closed, s.opener = t, ClosedIn(s, e) PROVE ClosedIn(s, r)
  BY <1>5, <1>7 DEF ClosedIn, InGraph
<1>8. ClosedIn(x.name, r)
  BY <1>4, <1>5 DEF ClosedIn, InGraph
<1>9. e.pc \notin Flushing
  BY <1>1 DEF InGraph, Flushing
<1> QED
  BY <1>1, <1>4, <1>5, <1>6, <1>7, <1>8, <1>9, AddKeeps DEF e, Flushing

\* A sequence has no more elements than places.
LEMMA SeqSetSize ==
    ASSUME NEW X, NEW q \in Seq(X)
    PROVE  IsFiniteSet(ToSet(q)) /\ Cardinality(ToSet(q)) <= Len(q)
<1> DEFINE m == Len(q)
           T == ToSet(q)
           f == [i \in 1..m |-> q[i]]
<1>1. T = {q[i] : i \in 1..m} /\ m \in Nat
  BY SetOfSeq
<1> HIDE DEF T, m
<1>2. f \in Surjection(1..m, T)
  BY <1>1 DEF Surjection
<1>3. IsFiniteSet(1..m) /\ Cardinality(1..m) = m
  BY <1>1, FS_Interval
<1> HIDE DEF f
<1>4. IsFiniteSet(T) /\ Cardinality(T) <= Cardinality(1..m)
  BY <1>2, <1>3, FS_Surjection
<1> QED
  BY <1>3, <1>4 DEF T, m

\* flush_spans: the limit leaves the first records of the batch, as many as there is
\* room for.
LEMMA KeptIs ==
    ASSUME SpanInv, NEW t \in Tasks, NEW q \in Seq(Records)
    PROVE  /\ Kept(t, q) \in Seq(Records)
           /\ ToSet(Kept(t, q)) \subseteq ToSet(q)
           /\ Limit # 0 => spanCounts[t] + Len(Kept(t, q)) <= Limit
<1> DEFINE c == spanCounts[t]
           room == IF c > Limit THEN 0 ELSE Limit - c
           w == SubSeq(q, 1, room)
<1>1. c \in Nat /\ Limit \in Nat /\ Len(q) \in Nat /\ (Limit # 0 => c <= Limit)
  BY SpanConstants DEF SpanInv, ShapeInv, LimitInv
<1>2. room \in Nat /\ (Limit # 0 => c + room = Limit)
  BY <1>1
<1>3. CASE Limit # 0 /\ Len(q) > room
  <2>1. Kept(t, q) = w
    BY <1>3 DEF Kept
  <2> HIDE DEF room
  <2>2. w \in Seq(Records) /\ Len(w) = room /\ \A i \in 1..room : w[i] = q[i]
    BY <1>1, <1>2, <1>3
  <2> HIDE DEF w
  <2>3. ToSet(w) \subseteq ToSet(q)
    <3>1. ToSet(w) = {w[i] : i \in 1..room} /\ ToSet(q) = {q[i] : i \in 1..Len(q)}
      BY <2>2, SetOfSeq
    <3>2. 1..room \subseteq 1..Len(q)
      BY <1>1, <1>2, <1>3
    <3> QED
      BY <2>2, <3>1, <3>2
  <2> HIDE DEF c
  <2>4. c + Len(w) <= Limit
    BY <1>1, <1>2, <1>3, <2>2
  <2> QED
    BY <2>1, <2>2, <2>3, <2>4 DEF c
<1>4. CASE ~(Limit # 0 /\ Len(q) > room)
  <2>1. Kept(t, q) = q
    BY <1>4 DEF Kept
  <2> HIDE DEF room
  <2>2. Limit # 0 => c + Len(q) <= Limit
    <3> HIDE DEF c
    <3> QED
      BY <1>1, <1>2, <1>4
  <2> QED
    BY <2>1, <2>2
<1> QED
  BY <1>3, <1>4

\* What the other tasks have in flight.
OtherFlight(t) == UNION {NamesOf(Batch(u)) : u \in Tasks \ {t}}

\* The batch of one task and those of the others.
LEMMA FlightSplits ==
    ASSUME NEW t \in Tasks
    PROVE  /\ InFlight = NamesOf(Batch(t)) \cup OtherFlight(t)
           /\ InFlight' = NamesOf(Batch(t))' \cup OtherFlight(t)'
<1>1. InFlight = NamesOf(Batch(t)) \cup OtherFlight(t)
  BY DEF InFlight, OtherFlight, NamesOf, Batch
<1>2. InFlight' = NamesOf(Batch(t))' \cup OtherFlight(t)'
  BY DEF InFlight, OtherFlight, NamesOf, Batch
<1> QED
  BY <1>1, <1>2

\* The others' batches stay.
LEMMA OthersFly ==
    ASSUME NEW t \in Tasks, \A u \in Tasks : u # t => traced'[u] = traced[u]
    PROVE  /\ OtherFlight(t)' = OtherFlight(t)
           /\ \A u \in Tasks : u # t => Batch(u)' = Batch(u)
<1>1. ASSUME NEW u \in Tasks, u # t PROVE Batch(u)' = Batch(u)
  BY <1>1 DEF Batch
<1> QED
  BY <1>1 DEF OtherFlight

\* A batch is of its task, and no span of it is in another one's.
LEMMA BatchIsApart ==
    ASSUME SpanInv, NEW t \in Tasks
    PROVE  /\ traced[t].batch \in Seq(Records) /\ Batch(t) \subseteq Records
           /\ \A r \in Batch(t) : r.task = t
           /\ NamesOf(Batch(t)) \cap OtherFlight(t) = {}
<1>1. ASSUME NEW u \in Tasks
      PROVE  traced[u].batch \in Seq(Records) /\ Batch(u) \subseteq Records
  <2>1. traced[u].batch \in Seq(Records)
    BY DEF SpanInv, ShapeInv, RunShape, SpanRun
  <2> QED
    BY <2>1, SetOfSeq DEF Batch
<1>2. ASSUME NEW u \in Tasks, NEW s \in NamesOf(Batch(u)) PROVE s.opener = u
  <2>1. PICK r \in Batch(u) : s = r.name
    BY DEF NamesOf
  <2>2. r.task = u /\ r \in Records
    BY <1>1 DEF SpanInv, PlaceInv
  <2> QED
    BY <2>1, <2>2 DEF Records
<1>3. NamesOf(Batch(t)) \cap OtherFlight(t) = {}
  BY <1>2 DEF OtherFlight
<1> QED
  BY <1>1, <1>3 DEF SpanInv, PlaceInv

\* drain_for takes spans out of the buffer: some are written, the others dropped.
LEMMA LeavesTheBuffer ==
    ASSUME NEW C, NEW S, NEW F, NEW B, NEW L, NEW Q, NEW K, NEW D,
           C = S \cup F \cup B \cup L, S \cap F = {}, (S \cup F) \cap B = {},
           (S \cup F \cup B) \cap L = {}, B = Q \cup K \cup D,
           Q \cap K = {}, Q \cap D = {}, K \cap D = {}
    PROVE  /\ C = S \cup (F \cup K) \cup Q \cup (L \cup D)
           /\ S \cap (F \cup K) = {}
           /\ (S \cup (F \cup K)) \cap Q = {}
           /\ (S \cup (F \cup K) \cup Q) \cap (L \cup D) = {}
  OBVIOUS

\* Records of the buffer with one name are one record.
LEMMA NamesAreUnique ==
    ASSUME NEW q \in Seq(Records), Apart(q)
    PROVE  \A y, z \in ToSet(q) : y.name = z.name => y = z
<1> SUFFICES ASSUME NEW y \in ToSet(q), NEW z \in ToSet(q), y.name = z.name
             PROVE  y = z
  OBVIOUS
<1>1. PICK i \in 1..Len(q), j \in 1..Len(q) : y = q[i] /\ z = q[j]
  BY SetOfSeq
<1> QED
  BY <1>1 DEF Apart

\* flush_spans takes the batch of its task out of the buffer.
LEMMA FlushKeeps ==
    ASSUME SpanInv, NEW t \in Tasks, Flush(t)
    PROVE  SpanInv'
<1> DEFINE e == traced[t]
           mine == OfTasks(buffer, {t})
           others == OfTasks(buffer, Tasks \ {t})
           kept == Kept(t, mine)
           p == IF kept = <<>> THEN "rest" ELSE "writing"
           r == [e EXCEPT !.pc = p, !.batch = kept, !.used = spanCounts[t]]
<1>1. ShapeInv /\ PlaceInv /\ LimitInv /\ DOMAIN traced = Tasks
  BY DEF SpanInv, ShapeInv
<1>2. /\ e.pc = "flush" /\ buffer' = others /\ traced' = [traced EXCEPT ![t] = r]
      /\ lost' = lost \cup NamesOf(ToSet(mine) \ ToSet(kept))
      /\ UNCHANGED <<spanCounts, rows, closed, uncounted>>
  BY DEF Flush, Take
<1>3. buffer \in Seq(Records) /\ Apart(buffer) /\ ToSet(buffer) \subseteq Records
  BY <1>1, SetOfSeq DEF ShapeInv
<1>4. /\ mine \in Seq(Records)
      /\ ToSet(mine) = {y \in ToSet(buffer) : y.task \in {t}}
      /\ others \in Seq(Records) /\ Apart(others)
      /\ ToSet(others) = {y \in ToSet(buffer) : y.task \in Tasks \ {t}}
  BY <1>3, OfTasksIs
<1> HIDE DEF mine, others
<1>5. /\ kept \in Seq(Records) /\ ToSet(kept) \subseteq ToSet(mine)
      /\ Limit # 0 => spanCounts[t] + Len(kept) <= Limit
  BY <1>4, KeptIs
<1> HIDE DEF kept
<1>6. /\ RunShape(e) /\ e \in SpanRun /\ spanCounts[t] \in Nat /\ e.batch = <<>>
      /\ p \in {"rest", "writing"}
  BY <1>1, <1>2, RunFacts DEF RunShape, ShapeInv, Flushing
<1>7. /\ r \in SpanRun /\ r.pc = p /\ r.n = e.n /\ r.open = e.open /\ r.batch = kept
      /\ r.used = spanCounts[t]
  <2> DEFINE c == spanCounts[t]
  <2>1. c \in Nat /\ r = [e EXCEPT !.pc = p, !.batch = kept, !.used = c]
    BY <1>6
  <2> HIDE DEF e, p, c, r
  <2>2. /\ r \in SpanRun /\ r.pc = p /\ r.n = e.n /\ r.open = e.open /\ r.batch = kept
        /\ r.used = c
    BY <1>5, <1>6, <2>1 DEF SpanRun, Flushing
  <2> QED
    BY <2>2 DEF c
<1>8. RunShape(r) /\ r.pc \notin InGraph
  <2>1. p \notin Flushing => kept = <<>>
    BY DEF Flushing
  <2> HIDE DEF e, p, r
  <2> QED
    BY <1>6, <1>7, <2>1 DEF RunShape, InGraph, Flushing
<1>9. traced'[t] = r /\ \A u \in Tasks : u # t => traced'[u] = traced[u]
  BY <1>1, <1>2
<1> HIDE DEF r, p
<1>10. ShapeInv'
  <2>1. lost' \in SUBSET Names
    BY <1>1, <1>2, <1>3, <1>4 DEF ShapeInv, NamesOf, Records
  <2>2. DOMAIN traced' = Tasks /\ \A u \in Tasks : RunShape(traced'[u])
    BY <1>1, <1>2, <1>8, <1>9 DEF ShapeInv
  <2> QED
    BY <1>1, <1>2, <1>4, <2>1, <2>2 DEF ShapeInv
<1>11. PlaceInv'
  <2> DEFINE S == Stored
             F == InFlight
             B == InBuffer
             Q == NamesOf(ToSet(others))
             K == NamesOf(ToSet(kept))
             D == NamesOf(ToSet(mine) \ ToSet(kept))
  <2>1. /\ closed = S \cup F \cup B \cup lost /\ S \cap F = {} /\ (S \cup F) \cap B = {}
        /\ (S \cup F \cup B) \cap lost = {}
    BY <1>1 DEF PlaceInv
  <2>2. B = Q \cup K \cup D
    <3>1. ToSet(buffer) = ToSet(others) \cup ToSet(kept)
                                    \cup (ToSet(mine) \ ToSet(kept))
      BY <1>3, <1>4, <1>5 DEF Records
    <3> QED
      BY <3>1 DEF InBuffer, NamesOf
  <2>3. Q \cap K = {} /\ Q \cap D = {} /\ K \cap D = {}
    <3>1. /\ ToSet(others) \cap ToSet(mine) = {}
          /\ ToSet(others) \subseteq ToSet(buffer)
          /\ ToSet(mine) \subseteq ToSet(buffer)
      BY <1>4
    <3>2. \A y, z \in ToSet(buffer) : y.name = z.name => y = z
      BY <1>3, NamesAreUnique
    <3> QED
      BY <1>5, <3>1, <3>2 DEF NamesOf
  <2>4. /\ Stored' = S /\ InBuffer' = Q /\ lost' = lost \cup D
    BY <1>2 DEF Stored, InBuffer
  <2>5. Batch(t)' = ToSet(kept) /\ Batch(t) = {}
    <3>1. p = "writing" \/ (p = "rest" /\ kept = <<>>)
      BY DEF p
    <3>2. kept = <<>> => ToSet(kept) = {}
      BY DEF ToSet
    <3> QED
      BY <1>2, <1>7, <1>9, <3>1, <3>2 DEF Batch
  <2>6. InFlight' = F \cup K
    <3>1. NamesOf(Batch(t)') = K /\ NamesOf(Batch(t)) = {}
      BY <2>5 DEF NamesOf
    <3>2. OtherFlight(t)' = OtherFlight(t)
      BY <1>9, OthersFly
    <3>3. F = NamesOf(Batch(t)) \cup OtherFlight(t)
      BY FlightSplits
    <3>4. InFlight' = NamesOf(Batch(t)') \cup OtherFlight(t)'
      BY FlightSplits
    <3> HIDE DEF F, K
    <3> QED
      BY <3>1, <3>2, <3>3, <3>4
  <2>7. /\ closed = S \cup (F \cup K) \cup Q \cup (lost \cup D)
        /\ S \cap (F \cup K) = {} /\ (S \cup (F \cup K)) \cap Q = {}
        /\ (S \cup (F \cup K) \cup Q) \cap (lost \cup D) = {}
    <3> HIDE DEF S, F, B, Q, K, D
    <3> QED
      BY <2>1, <2>2, <2>3, LeavesTheBuffer
  <2>8. ASSUME NEW s \in closed PROVE ClosedIn(s, traced'[s.opener])
    <3>1. s.opener \in Tasks /\ ClosedIn(s, traced[s.opener])
      BY <1>1 DEF ShapeInv, PlaceInv, Names
    <3>2. CASE s.opener = t
      BY <1>7, <1>8, <1>9, <3>1, <3>2 DEF ClosedIn
    <3>3. CASE s.opener # t
      BY <1>9, <3>1, <3>3
    <3> QED
      BY <3>2, <3>3
  <2>9. ASSUME NEW u \in Tasks, NEW y \in Batch(u)' PROVE y.task = u
    <3>1. CASE u = t
      BY <1>4, <1>5, <2>5, <2>9, <3>1
    <3>2. CASE u # t
      BY <1>1, <1>9, <2>9, <3>2, OthersFly DEF PlaceInv
    <3> QED
      BY <3>1, <3>2
  <2>10. ASSUME NEW u \in Tasks, traced'[u].pc \in Flushing, NEW y \in ToSet(others)
         PROVE  y.task # u
    <3>1. CASE u = t
      BY <1>4, <3>1
    <3>2. CASE u # t
      BY <1>1, <1>4, <1>9, <2>10, <3>2 DEF PlaceInv
    <3> QED
      BY <3>1, <3>2
  <2>11. /\ closed' = Stored' \cup InFlight' \cup InBuffer' \cup lost'
         /\ Stored' \cap InFlight' = {}
         /\ (Stored' \cup InFlight') \cap InBuffer' = {}
         /\ (Stored' \cup InFlight' \cup InBuffer') \cap lost' = {}
    <3> HIDE DEF S, F, B, Q, K, D
    <3> QED
      BY <1>2, <2>4, <2>6, <2>7
  <2> HIDE DEF S, F, B, Q, K, D
  <2> QED
    BY <1>2, <2>8, <2>9, <2>10, <2>11 DEF PlaceInv
<1>12. LimitInv'
  <2>1. p # "committed"
    BY DEF p
  <2>2. \A u \in Tasks : RowsOf(u)' = RowsOf(u) /\ Known(u)' = Known(u)
    BY <1>2, <1>7, <1>9, <2>1 DEF RowsOf, Known, Countable, Landed
  <2>3. ASSUME NEW u \in Tasks, traced'[u].pc \in Flushing
        PROVE  /\ traced'[u].used = spanCounts[u]
               /\ Limit # 0 => spanCounts[u] + Len(traced'[u].batch) <= Limit
    <3>1. CASE u = t
      BY <1>5, <1>7, <1>9, <3>1
    <3>2. CASE u # t
      BY <1>1, <1>9, <2>3, <3>2 DEF LimitInv
    <3> QED
      BY <3>1, <3>2
  <2> QED
    BY <1>1, <1>2, <2>2, <2>3 DEF LimitInv
<1> QED
  BY <1>10, <1>11, <1>12 DEF SpanInv

\* flush_spans without a sink: what is in the buffer is dropped, whosever it is.
LEMMA DrainAllKeeps ==
    ASSUME SpanInv, NEW t \in Tasks, DrainAll(t)
    PROVE  SpanInv'
<1> DEFINE e == traced[t]
           r == [e EXCEPT !.pc = "rest"]
<1>1. ShapeInv /\ PlaceInv /\ LimitInv /\ DOMAIN traced = Tasks
  BY DEF SpanInv, ShapeInv
<1>2. /\ e.pc = "flush" /\ buffer' = <<>> /\ traced' = [traced EXCEPT ![t] = r]
      /\ lost' = lost \cup InBuffer
      /\ UNCHANGED <<spanCounts, rows, closed, uncounted>>
  BY DEF DrainAll, InBuffer
<1>3. RunShape(e) /\ e \in SpanRun
  BY RunFacts
<1>4. traced'[t] = r /\ \A u \in Tasks : u # t => traced'[u] = traced[u]
  BY <1>1, <1>2
<1> HIDE DEF e
<1>5. r \in SpanRun /\ r.pc = "rest" /\ r.n = e.n /\ r.open = e.open /\ r.batch = e.batch
  BY <1>3 DEF SpanRun
<1> HIDE DEF r
<1>6. RunShape(r)
  BY <1>2, <1>3, <1>5 DEF RunShape, InGraph, Flushing
<1>7. \A u \in Tasks : Batch(u)' = Batch(u)
  BY <1>2, <1>4, <1>5 DEF Batch, e
<1>8. /\ ToSet(buffer') = {} /\ InBuffer' = {} /\ Stored' = Stored /\ InFlight' = InFlight
  <2>1. ToSet(<<>>) = {}
    BY DEF ToSet
  <2> QED
    BY <1>2, <1>7, <2>1, SameFlight DEF InBuffer, Stored, NamesOf
<1>9. ShapeInv'
  <2>1. <<>> \in Seq(Records) /\ Apart(<<>>)
    BY DEF Apart
  <2>2. lost' \in SUBSET Names
    BY <1>1, <1>2 DEF ShapeInv, PlaceInv
  <2>3. DOMAIN traced' = Tasks /\ \A u \in Tasks : RunShape(traced'[u])
    BY <1>1, <1>2, <1>4, <1>6 DEF ShapeInv
  <2> QED
    BY <1>1, <1>2, <2>1, <2>2, <2>3 DEF ShapeInv
<1>10. PlaceInv'
  <2>1. /\ closed' = Stored' \cup InFlight' \cup InBuffer' \cup lost'
        /\ Stored' \cap InFlight' = {}
        /\ (Stored' \cup InFlight') \cap InBuffer' = {}
        /\ (Stored' \cup InFlight' \cup InBuffer') \cap lost' = {}
    BY <1>1, <1>2, <1>8 DEF PlaceInv
  <2>2. ASSUME NEW s \in closed PROVE ClosedIn(s, traced'[s.opener])
    <3>1. s.opener \in Tasks /\ ClosedIn(s, traced[s.opener])
      BY <1>1 DEF ShapeInv, PlaceInv, Names
    <3>2. CASE s.opener = t
      BY <1>4, <1>5, <3>1, <3>2 DEF ClosedIn, InGraph, e
    <3>3. CASE s.opener # t
      BY <1>4, <3>1, <3>3
    <3> QED
      BY <3>2, <3>3
  <2> QED
    BY <1>1, <1>2, <1>7, <1>8, <2>1, <2>2 DEF PlaceInv
<1>11. LimitInv'
  BY <1>1, <1>2, <1>4, <1>5, SameLimits DEF Flushing, e
<1> QED
  BY <1>9, <1>10, <1>11 DEF SpanInv

\* The end of flush_spans, whether the batch was written or not.
LEMMA EndFlushIs ==
    ASSUME SpanInv, NEW t \in Tasks, traced[t].pc \in Flushing,
           EndFlush(t)
    PROVE  /\ DOMAIN traced' = Tasks /\ \A u \in Tasks : RunShape(traced'[u])
           /\ traced'[t].pc = "rest" /\ \A u \in Tasks : u # t => traced'[u] = traced[u]
           /\ \A s \in closed : ClosedIn(s, traced'[s.opener])
           /\ \A u \in Tasks : \A y \in Batch(u)' : y.task = u
           /\ InFlight' = OtherFlight(t)
           /\ InFlight = NamesOf(Batch(t)) \cup OtherFlight(t)
           /\ NamesOf(Batch(t)) \cap OtherFlight(t) = {}
<1> DEFINE e == traced[t]
           r == [e EXCEPT !.pc = "rest", !.batch = <<>>, !.used = 0]
<1>1. ShapeInv /\ PlaceInv /\ DOMAIN traced = Tasks
  BY DEF SpanInv, ShapeInv
<1>2. traced' = [traced EXCEPT ![t] = r]
  BY DEF EndFlush
<1>3. RunShape(e) /\ e \in SpanRun /\ <<>> \in Seq(Records)
  BY RunFacts
<1>4. traced'[t] = r /\ \A u \in Tasks : u # t => traced'[u] = traced[u]
  BY <1>1, <1>2
<1> HIDE DEF e
<1>5. /\ r \in SpanRun /\ r.pc = "rest" /\ r.n = e.n /\ r.open = e.open /\ r.batch = <<>>
  BY <1>3 DEF SpanRun
<1> HIDE DEF r
<1>6. RunShape(r)
  BY <1>3, <1>5 DEF RunShape, InGraph, Flushing
<1>7. DOMAIN traced' = Tasks /\ \A u \in Tasks : RunShape(traced'[u])
  BY <1>1, <1>2, <1>4, <1>6 DEF ShapeInv
<1>8. ASSUME NEW s \in closed PROVE ClosedIn(s, traced'[s.opener])
  <2>1. s.opener \in Tasks /\ ClosedIn(s, traced[s.opener])
    BY <1>1 DEF ShapeInv, PlaceInv, Names
  <2>2. CASE s.opener = t
    BY <1>4, <1>5, <2>1, <2>2 DEF ClosedIn, InGraph, Flushing, e
  <2>3. CASE s.opener # t
    BY <1>4, <2>1, <2>3
  <2> QED
    BY <2>2, <2>3
<1>9. Batch(t)' = {}
  BY <1>4, <1>5 DEF Batch
<1>10. ASSUME NEW u \in Tasks, NEW y \in Batch(u)' PROVE y.task = u
  BY <1>1, <1>4, <1>9, <1>10, OthersFly DEF PlaceInv
<1>11. InFlight' = OtherFlight(t)
  <2>1. NamesOf(Batch(t)') = {}
    BY <1>9 DEF NamesOf
  <2>2. OtherFlight(t)' = OtherFlight(t)
    BY <1>4, OthersFly
  <2>3. InFlight' = NamesOf(Batch(t)') \cup OtherFlight(t)'
    BY FlightSplits
  <2> QED
    BY <2>1, <2>2, <2>3
<1> QED
  BY <1>4, <1>5, <1>7, <1>8, <1>10, <1>11, FlightSplits, BatchIsApart

\* A batch goes from its flight to one of the other places.
LEMMA LandsInOnePlace ==
    ASSUME NEW C, NEW S, NEW F, NEW B, NEW L, NEW K, NEW O,
           C = S \cup F \cup B \cup L, S \cap F = {}, (S \cup F) \cap B = {},
           (S \cup F \cup B) \cap L = {}, F = K \cup O, K \cap O = {}
    PROVE  /\ C = (S \cup K) \cup O \cup B \cup L
           /\ (S \cup K) \cap O = {} /\ ((S \cup K) \cup O) \cap B = {}
           /\ ((S \cup K) \cup O \cup B) \cap L = {}
           /\ C = S \cup O \cup B \cup (L \cup K)
           /\ S \cap O = {} /\ (S \cup O) \cap B = {}
           /\ (S \cup O \cup B) \cap (L \cup K) = {}
  OBVIOUS

\* The elements of a batch beside what is counted already.
LEMMA AtMostTogether ==
    ASSUME NEW X, NEW Z, NEW q \in Seq(Records), NEW m \in Nat,
           IsFiniteSet(X), Cardinality(X) <= m, Z \subseteq X \cup ToSet(q)
    PROVE  IsFiniteSet(Z) /\ Cardinality(Z) <= m + Len(q)
<1> DEFINE Y == ToSet(q)
           n == Len(q)
<1>1. IsFiniteSet(Y) /\ Cardinality(Y) <= n /\ n \in Nat
  BY SeqSetSize
<1> HIDE DEF Y, n
<1>2. /\ IsFiniteSet(X \cup Y) /\ IsFiniteSet(X \cap Y)
      /\ Cardinality(X \cup Y) = Cardinality(X) + Cardinality(Y) - Cardinality(X \cap Y)
  <2>1. X \cap Y \in SUBSET X
    OBVIOUS
  <2>2. IsFiniteSet(X \cap Y)
    BY <2>1, FS_Subset
  <2> QED
    BY <1>1, <2>2, FS_Union
<1>3. /\ Cardinality(X) \in Nat /\ Cardinality(Y) \in Nat /\ Cardinality(X \cap Y) \in Nat
      /\ Cardinality(X \cup Y) \in Nat
  BY <1>1, <1>2, FS_CardinalityType
<1>4. Cardinality(X \cup Y) <= m + n
  BY <1>1, <1>2, <1>3
<1>5. Z \in SUBSET (X \cup Y)
  BY DEF Y
<1>6. IsFiniteSet(Z) /\ Cardinality(Z) <= Cardinality(X \cup Y) /\ Cardinality(Z) \in Nat
  BY <1>2, <1>5, FS_Subset, FS_CardinalityType
<1>7. Cardinality(Z) <= m + n
  BY <1>1, <1>3, <1>4, <1>6
<1> QED
  BY <1>6, <1>7 DEF n

\* What is known is finite, and fewer rows are no more.
LEMMA FewerKnown ==
    ASSUME LimitInv, ShapeInv, NEW t \in Tasks, NEW Z, Z \subseteq Known(t)
    PROVE  Cardinality(Z) <= spanCounts[t] /\ IsFiniteSet(Known(t)) /\ spanCounts[t] \in Nat
<1>1. /\ IsFiniteSet(RowsOf(t)) /\ Cardinality(Known(t)) <= spanCounts[t]
      /\ spanCounts[t] \in Nat
  BY DEF LimitInv, ShapeInv
<1>2. Known(t) \in SUBSET RowsOf(t)
  BY DEF Known, Countable
<1>3. IsFiniteSet(Known(t))
  BY <1>1, <1>2, FS_Subset
<1>4. Z \in SUBSET Known(t)
  OBVIOUS
<1>5. /\ IsFiniteSet(Z) /\ Cardinality(Z) <= Cardinality(Known(t))
      /\ Cardinality(Z) \in Nat /\ Cardinality(Known(t)) \in Nat
  BY <1>3, <1>4, FS_Subset, FS_CardinalityType
<1> QED
  BY <1>1, <1>3, <1>5

\* record_spans commits the batch; the count does not know of it yet.
LEMMA CommitKeeps ==
    ASSUME SpanInv, NEW t \in Tasks, Commit(t)
    PROVE  SpanInv'
<1> DEFINE e == traced[t]
           r == [e EXCEPT !.pc = "committed"]
           K == NamesOf(Batch(t))
           O == OtherFlight(t)
<1>1. ShapeInv /\ PlaceInv /\ LimitInv /\ DOMAIN traced = Tasks
  BY DEF SpanInv, ShapeInv
<1>2. /\ e.pc = "writing" /\ rows' = rows \cup Batch(t) /\ Batch(t) = ToSet(e.batch)
      /\ traced' = [traced EXCEPT ![t] = r]
      /\ UNCHANGED <<buffer, spanCounts, closed, lost, uncounted>>
  BY DEF Commit, Batch
<1>3. RunShape(e) /\ e \in SpanRun
  BY RunFacts
<1>4. traced'[t] = r /\ \A u \in Tasks : u # t => traced'[u] = traced[u]
  BY <1>1, <1>2
<1> HIDE DEF e
<1>5. /\ r \in SpanRun /\ r.pc = "committed" /\ r.n = e.n /\ r.open = e.open
      /\ r.batch = e.batch /\ r.used = e.used
  BY <1>3 DEF SpanRun, Flushing
<1> HIDE DEF r
<1>6. RunShape(r)
  BY <1>2, <1>3, <1>5 DEF RunShape, InGraph, Flushing
<1>7. /\ Batch(t) \subseteq Records /\ \A y \in Batch(t) : y.task = t
      /\ K \cap O = {} /\ InFlight = K \cup O
  BY BatchIsApart, FlightSplits
<1>8. Batch(t)' = {} /\ InFlight' = O
  <2>1. Batch(t)' = {}
    BY <1>4, <1>5 DEF Batch
  <2>2. NamesOf(Batch(t)') = {}
    BY <2>1 DEF NamesOf
  <2>3. OtherFlight(t)' = OtherFlight(t)
    BY <1>4, OthersFly
  <2>4. InFlight' = NamesOf(Batch(t)') \cup OtherFlight(t)'
    BY FlightSplits
  <2> QED
    BY <2>1, <2>2, <2>3, <2>4
<1>9. ShapeInv'
  <2>1. DOMAIN traced' = Tasks /\ \A u \in Tasks : RunShape(traced'[u])
    BY <1>1, <1>2, <1>4, <1>6 DEF ShapeInv
  <2> QED
    BY <1>1, <1>2, <1>7, <2>1 DEF ShapeInv
<1>10. PlaceInv'
  <2> DEFINE S == Stored
             F == InFlight
             B == InBuffer
  <2>1. Stored' = S \cup K /\ InBuffer' = B
    BY <1>2 DEF Stored, InBuffer, NamesOf
  <2>2. /\ closed = S \cup F \cup B \cup lost /\ S \cap F = {} /\ (S \cup F) \cap B = {}
        /\ (S \cup F \cup B) \cap lost = {} /\ F = K \cup O /\ K \cap O = {}
    BY <1>1, <1>7 DEF PlaceInv
  <2>3. /\ closed = (S \cup K) \cup O \cup B \cup lost
        /\ (S \cup K) \cap O = {} /\ ((S \cup K) \cup O) \cap B = {}
        /\ ((S \cup K) \cup O \cup B) \cap lost = {}
    <3> HIDE DEF S, F, B, K, O
    <3> QED
      BY <2>2, LandsInOnePlace
  <2>4. /\ closed' = Stored' \cup InFlight' \cup InBuffer' \cup lost'
        /\ Stored' \cap InFlight' = {}
        /\ (Stored' \cup InFlight') \cap InBuffer' = {}
        /\ (Stored' \cup InFlight' \cup InBuffer') \cap lost' = {}
    <3> HIDE DEF S, F, B, K, O
    <3> QED
      BY <1>2, <1>8, <2>1, <2>3
  <2>5. ASSUME NEW u \in Tasks, traced'[u].pc \in Flushing PROVE traced[u].pc \in Flushing
    BY <1>2, <1>4, <2>5 DEF Flushing, e
  <2>6. ASSUME NEW s \in closed PROVE ClosedIn(s, traced'[s.opener])
    <3>1. s.opener \in Tasks /\ ClosedIn(s, traced[s.opener])
      BY <1>1 DEF ShapeInv, PlaceInv, Names
    <3>2. CASE s.opener = t
      BY <1>4, <1>5, <3>1, <3>2 DEF ClosedIn, InGraph, e
    <3>3. CASE s.opener # t
      BY <1>4, <3>1, <3>3
    <3> QED
      BY <3>2, <3>3
  <2>7. ASSUME NEW u \in Tasks, NEW y \in Batch(u)' PROVE y.task = u
    BY <1>1, <1>4, <1>8, <2>7, OthersFly DEF PlaceInv
  <2>8. \A u \in Tasks : traced'[u].pc \in Flushing => \A y \in ToSet(buffer') : y.task # u
    BY <1>1, <1>2, <2>5 DEF PlaceInv
  <2> HIDE DEF S, F, B, K, O
  <2> QED
    BY <1>2, <2>4, <2>6, <2>7, <2>8 DEF PlaceInv
<1>11. LimitInv'
  <2>1. ASSUME NEW u \in Tasks, u # t
        PROVE  RowsOf(u)' = RowsOf(u) /\ Known(u)' = Known(u) /\ traced'[u] = traced[u]
    BY <1>2, <1>4, <1>7, <2>1 DEF RowsOf, Known, Countable, Landed
  <2>2. RowsOf(t)' = RowsOf(t) \cup Batch(t)
    BY <1>2, <1>7 DEF RowsOf
  <2>3. Known(t)' \subseteq Known(t)
    <3>1. Landed(t)' = Batch(t) /\ Landed(t) = {}
      BY <1>2, <1>4, <1>5 DEF Landed, e
    <3> QED
      BY <1>2, <2>2, <3>1 DEF Known, Countable
  <2>4. Cardinality(Known(t)') <= spanCounts[t]
    BY <1>1, <2>3, FewerKnown
  <2>5. IsFiniteSet(RowsOf(t)')
    <3>1. e.batch \in Seq(Records) /\ IsFiniteSet(RowsOf(t))
      BY <1>1, <1>3 DEF SpanRun, LimitInv
    <3>2. IsFiniteSet(Batch(t))
      BY <1>2, <3>1, SeqSetSize
    <3> QED
      BY <2>2, <3>1, <3>2, FS_Union
  <2>6. /\ traced'[t].used = spanCounts[t]
        /\ Limit # 0 => spanCounts[t] + Len(traced'[t].batch) <= Limit
    BY <1>1, <1>2, <1>4, <1>5 DEF LimitInv, Flushing, e
  <2> QED
    BY <1>1, <1>2, <2>1, <2>4, <2>5, <2>6 DEF LimitInv
<1> QED
  BY <1>9, <1>10, <1>11 DEF SpanInv

\* After the commit nothing of the batch is in flight.
LEMMA FlushedIs ==
    ASSUME SpanInv, NEW t \in Tasks, traced[t].pc = "committed", EndFlush(t),
           UNCHANGED <<buffer, rows, closed, lost>>, spanCounts' \in [Tasks -> Nat]
    PROVE  /\ ShapeInv' /\ PlaceInv' /\ traced'[t].pc = "rest"
           /\ \A u \in Tasks : u # t => traced'[u] = traced[u]
<1>1. ShapeInv /\ PlaceInv
  BY DEF SpanInv
<1>2. /\ DOMAIN traced' = Tasks /\ \A u \in Tasks : RunShape(traced'[u])
      /\ traced'[t].pc = "rest" /\ \A u \in Tasks : u # t => traced'[u] = traced[u]
      /\ \A s \in closed : ClosedIn(s, traced'[s.opener])
      /\ \A u \in Tasks : \A y \in Batch(u)' : y.task = u
      /\ InFlight' = OtherFlight(t) /\ InFlight = NamesOf(Batch(t)) \cup OtherFlight(t)
  BY EndFlushIs DEF Flushing
<1>3. InFlight' = InFlight /\ Stored' = Stored /\ InBuffer' = InBuffer
  <2>1. NamesOf(Batch(t)) = {}
    BY DEF Batch, NamesOf
  <2> QED
    BY <1>2, <2>1 DEF Stored, InBuffer
<1>4. ShapeInv'
  BY <1>1, <1>2 DEF ShapeInv
<1>5. \A u \in Tasks : traced'[u].pc \in Flushing => \A y \in ToSet(buffer') : y.task # u
  BY <1>1, <1>2 DEF PlaceInv, Flushing
<1>6. PlaceInv'
  BY <1>1, <1>2, <1>3, <1>5 DEF PlaceInv
<1> QED
  BY <1>2, <1>4, <1>6

\* The count goes up by the length of the batch.
LEMMA CountedKeeps ==
    ASSUME SpanInv, NEW t \in Tasks, Counted(t)
    PROVE  SpanInv'
<1> DEFINE b == traced[t].batch
           c == traced[t].used + Len(b)
           m == spanCounts[t]
<1>1. ShapeInv /\ PlaceInv /\ LimitInv
  BY DEF SpanInv
<1>2. /\ traced[t].pc = "committed" /\ spanCounts' = [spanCounts EXCEPT ![t] = c]
      /\ EndFlush(t) /\ UNCHANGED <<buffer, rows, closed, lost, uncounted>>
  BY DEF Counted, NewCount
<1>3. b \in Seq(Records) /\ Len(b) \in Nat
  <2>1. b \in Seq(Records)
    BY RunFacts DEF SpanRun
  <2> QED
    BY <2>1
<1>4. /\ traced[t].used = m /\ m \in Nat /\ (Limit # 0 => m + Len(b) <= Limit)
      /\ spanCounts \in [Tasks -> Nat]
  BY <1>1, <1>2 DEF LimitInv, ShapeInv, Flushing
<1>5. Landed(t) = ToSet(b)
  BY <1>2 DEF Landed
<1>6. c = m + Len(b) /\ c \in Nat
  BY <1>3, <1>4
<1> HIDE DEF b, c, m
<1>7. /\ spanCounts' \in [Tasks -> Nat] /\ spanCounts'[t] = c
      /\ \A u \in Tasks : u # t => spanCounts'[u] = spanCounts[u]
  BY <1>2, <1>4, <1>6
<1>8. /\ ShapeInv' /\ PlaceInv' /\ traced'[t].pc = "rest"
      /\ \A u \in Tasks : u # t => traced'[u] = traced[u]
  BY <1>2, <1>7, FlushedIs
<1>9. LimitInv'
  <2>1. ASSUME NEW u \in Tasks, u # t
        PROVE  RowsOf(u)' = RowsOf(u) /\ Known(u)' = Known(u) /\ traced'[u] = traced[u]
    BY <1>2, <1>8, <2>1 DEF RowsOf, Known, Countable, Landed
  <2>2. RowsOf(t)' = RowsOf(t)
    BY <1>2 DEF RowsOf
  <2>3. Known(t)' \subseteq Known(t) \cup ToSet(b)
    BY <1>2, <1>5, <2>2 DEF Known, Countable
  <2>4. IsFiniteSet(Known(t)) /\ Cardinality(Known(t)) <= m
    BY <1>1, FewerKnown DEF m
  <2>5. Cardinality(Known(t)') <= c
    BY <1>3, <1>4, <1>6, <2>3, <2>4, AtMostTogether
  <2>6. Limit # 0 => c <= Limit
    BY <1>4, <1>6
  <2> QED
    BY <1>1, <1>7, <1>8, <2>1, <2>2, <2>5, <2>6 DEF LimitInv, Flushing
<1> QED
  BY <1>8, <1>9 DEF SpanInv

\* The commit is not acknowledged: its rows are never counted.
LEMMA CommitUnacknowledgedKeeps ==
    ASSUME SpanInv, NEW t \in Tasks, CommitUnacknowledged(t)
    PROVE  SpanInv'
<1>1. ShapeInv /\ PlaceInv /\ LimitInv
  BY DEF SpanInv
<1>2. /\ traced[t].pc = "committed"
      /\ uncounted' = uncounted \cup NamesOf(ToSet(traced[t].batch))
      /\ EndFlush(t) /\ UNCHANGED <<buffer, spanCounts, rows, closed, lost>>
  BY DEF CommitUnacknowledged
<1>3. /\ ShapeInv' /\ PlaceInv' /\ traced'[t].pc = "rest"
      /\ \A u \in Tasks : u # t => traced'[u] = traced[u]
  BY <1>1, <1>2, FlushedIs DEF ShapeInv
<1>4. ASSUME NEW u \in Tasks
      PROVE  /\ RowsOf(u)' = RowsOf(u) /\ Cardinality(Known(u)') <= spanCounts[u]
  <2>1. RowsOf(u)' = RowsOf(u)
    BY <1>2 DEF RowsOf
  <2>2. Known(u)' \subseteq Known(u)
    <3>1. CASE u = t
      <4>1. Landed(u) = ToSet(traced[u].batch)
        BY <1>2, <3>1 DEF Landed
      <4> QED
        BY <1>2, <2>1, <3>1, <4>1 DEF Known, Countable, NamesOf
    <3>2. CASE u # t
      <4>1. Landed(u)' = Landed(u)
        BY <1>3, <3>2 DEF Landed
      <4> QED
        BY <1>2, <2>1, <4>1 DEF Known, Countable
    <3> QED
      BY <3>1, <3>2
  <2> QED
    BY <1>1, <2>1, <2>2, FewerKnown
<1>5. LimitInv'
  <2>1. ASSUME NEW u \in Tasks, traced'[u].pc \in Flushing PROVE traced'[u] = traced[u]
    BY <1>3, <2>1 DEF Flushing
  <2> QED
    BY <1>1, <1>2, <1>4, <2>1 DEF LimitInv
<1> QED
  BY <1>3, <1>5 DEF SpanInv

\* A new process: nothing is buffered, in flight or counted.
LEMMA RestartKeeps ==
    ASSUME SpanInv, RestartProcess
    PROVE  SpanInv'
<1>1. ShapeInv /\ PlaceInv /\ LimitInv
  BY DEF SpanInv
<1>2. /\ buffer' = <<>> /\ spanCounts' = [t \in Tasks |-> 0]
      /\ lost' = lost \cup InBuffer \cup InFlight /\ uncounted' = Stored
      /\ UNCHANGED <<rows, closed>>
      /\ DOMAIN traced' = Tasks
  BY DEF RestartProcess
<1>3. ASSUME NEW t \in Tasks
      PROVE  /\ RunShape(traced'[t]) /\ traced'[t].pc = "rest" /\ traced'[t].n = traced[t].n
             /\ Batch(t)' = {}
  <2> DEFINE k == traced[t].n
             r == [pc |-> "rest", n |-> k, open |-> <<>>, used |-> 0, batch |-> <<>>]
  <2>1. traced'[t] = r
    BY DEF RestartProcess
  <2>2. k \in Nat
    BY RunFacts DEF SpanRun
  <2>3. <<>> \in Seq([parent : Nat, live : BOOLEAN]) /\ <<>> \in Seq(Records) /\ Len(<<>>) = 0
    OBVIOUS
  <2> HIDE DEF k
  <2>4. r \in SpanRun
    BY <2>2, <2>3 DEF SpanRun
  <2>5. RunShape(r)
    BY <2>3, <2>4, SpanConstants DEF RunShape, InGraph, Flushing
  <2> QED
    BY <2>1, <2>5 DEF Batch, k
<1>4. ToSet(buffer') = {} /\ InBuffer' = {} /\ InFlight' = {} /\ Stored' = Stored
  <2>1. ToSet(<<>>) = {}
    BY DEF ToSet
  <2> QED
    BY <1>2, <1>3, <2>1 DEF InBuffer, InFlight, Stored, NamesOf
<1>5. ShapeInv'
  <2>1. <<>> \in Seq(Records) /\ Apart(<<>>)
    BY DEF Apart
  <2>2. lost' \in SUBSET Names
    BY <1>1, <1>2 DEF ShapeInv, PlaceInv
  <2>3. spanCounts' \in [Tasks -> Nat]
    BY <1>2
  <2> QED
    BY <1>1, <1>2, <1>3, <2>1, <2>2, <2>3 DEF ShapeInv
<1>6. PlaceInv'
  <2>1. /\ closed' = Stored' \cup InFlight' \cup InBuffer' \cup lost'
        /\ Stored' \cap InFlight' = {}
        /\ (Stored' \cup InFlight') \cap InBuffer' = {}
        /\ (Stored' \cup InFlight' \cup InBuffer') \cap lost' = {}
    BY <1>1, <1>2, <1>4 DEF PlaceInv
  <2>2. ASSUME NEW s \in closed' PROVE ClosedIn(s, traced'[s.opener])
    <3>1. s.opener \in Tasks /\ ClosedIn(s, traced[s.opener])
      BY <1>1, <1>2 DEF ShapeInv, PlaceInv, Names
    <3> QED
      BY <1>3, <3>1 DEF ClosedIn, InGraph
  <2> QED
    BY <1>3, <1>4, <2>1, <2>2 DEF PlaceInv
<1>7. LimitInv'
  <2>1. ASSUME NEW t \in Tasks
        PROVE  /\ RowsOf(t)' = RowsOf(t) /\ Known(t)' = {} /\ spanCounts'[t] = 0
               /\ traced'[t].pc \notin Flushing
    BY <1>2, <1>3 DEF RowsOf, Known, Countable, Stored, NamesOf, Flushing
  <2>2. Cardinality({}) = 0 /\ Limit \in Nat
    BY FS_EmptySet, SpanConstants
  <2>3. ASSUME NEW t \in Tasks
        PROVE  /\ IsFiniteSet(RowsOf(t)') /\ Cardinality(Known(t)') <= spanCounts'[t]
               /\ Limit # 0 => spanCounts'[t] <= Limit
    <3>1. IsFiniteSet(RowsOf(t)')
      BY <1>1, <2>1 DEF LimitInv
    <3>2. Cardinality(Known(t)') = 0 /\ spanCounts'[t] = 0
      BY <2>1, <2>2
    <3> QED
      BY <2>2, <3>1, <3>2
  <2> QED
    BY <2>1, <2>3 DEF LimitInv
<1> QED
  BY <1>5, <1>6, <1>7 DEF SpanInv

\* The batch is dropped, and the count stays.
LEMMA WriteFailsKeeps ==
    ASSUME SpanInv, NEW t \in Tasks, WriteFails(t)
    PROVE  SpanInv'
<1> DEFINE K == NamesOf(Batch(t))
           O == OtherFlight(t)
<1>1. ShapeInv /\ PlaceInv /\ LimitInv
  BY DEF SpanInv
<1>2. /\ traced[t].pc = "writing" /\ lost' = lost \cup K
      /\ EndFlush(t) /\ UNCHANGED <<buffer, spanCounts, rows, closed, uncounted>>
  BY DEF WriteFails, Batch
<1>3. /\ DOMAIN traced' = Tasks /\ \A u \in Tasks : RunShape(traced'[u])
      /\ traced'[t].pc = "rest" /\ \A u \in Tasks : u # t => traced'[u] = traced[u]
      /\ \A s \in closed : ClosedIn(s, traced'[s.opener])
      /\ \A u \in Tasks : \A y \in Batch(u)' : y.task = u
      /\ InFlight' = O /\ InFlight = K \cup O /\ K \cap O = {}
  BY <1>2, EndFlushIs DEF Flushing
<1>4. ShapeInv'
  <2>1. K \subseteq Names
    BY BatchIsApart DEF NamesOf, Records
  <2> QED
    BY <1>1, <1>2, <1>3, <2>1 DEF ShapeInv
<1>5. PlaceInv'
  <2> DEFINE S == Stored
             F == InFlight
             B == InBuffer
  <2>1. Stored' = S /\ InBuffer' = B
    BY <1>2 DEF Stored, InBuffer
  <2>2. /\ closed = S \cup F \cup B \cup lost /\ S \cap F = {} /\ (S \cup F) \cap B = {}
        /\ (S \cup F \cup B) \cap lost = {} /\ F = K \cup O /\ K \cap O = {}
    BY <1>1, <1>3 DEF PlaceInv
  <2>3. /\ closed = S \cup O \cup B \cup (lost \cup K)
        /\ S \cap O = {} /\ (S \cup O) \cap B = {}
        /\ (S \cup O \cup B) \cap (lost \cup K) = {}
    <3> HIDE DEF S, F, B, K, O
    <3> QED
      BY <2>2, LandsInOnePlace
  <2>4. /\ closed' = Stored' \cup InFlight' \cup InBuffer' \cup lost'
        /\ Stored' \cap InFlight' = {}
        /\ (Stored' \cup InFlight') \cap InBuffer' = {}
        /\ (Stored' \cup InFlight' \cup InBuffer') \cap lost' = {}
    <3> HIDE DEF S, F, B, K, O
    <3> QED
      BY <1>2, <1>3, <2>1, <2>3
  <2>5. \A u \in Tasks : traced'[u].pc \in Flushing =>
          \A y \in ToSet(buffer') : y.task # u
    BY <1>1, <1>2, <1>3 DEF PlaceInv, Flushing
  <2> HIDE DEF S, F, B, K, O
  <2> QED
    BY <1>2, <1>3, <2>4, <2>5 DEF PlaceInv
<1>6. LimitInv'
  <2>1. \A u \in Tasks : RowsOf(u)' = RowsOf(u) /\ Known(u)' = Known(u)
    BY <1>2, <1>3 DEF RowsOf, Known, Countable, Landed
  <2>2. ASSUME NEW u \in Tasks, traced'[u].pc \in Flushing PROVE traced'[u] = traced[u]
    BY <1>3, <2>2 DEF Flushing
  <2> QED
    BY <1>1, <1>2, <2>1, <2>2 DEF LimitInv
<1> QED
  BY <1>4, <1>5, <1>6 DEF SpanInv

\* Every step keeps the invariant.
LEMMA SpanInvStep ==
    ASSUME SpanInv, [SpansNext]_spansVars
    PROVE  SpanInv'
<1>1. ASSUME NEW t \in Tasks,
             \/ BeginRun(t) \/ GraphReturns(t) \/ CheckedOrRaised(t)
             \/ CheckFails(t) \/ Flush(t) \/ DrainAll(t) \/ Commit(t) \/ Counted(t)
             \/ CommitUnacknowledged(t) \/ WriteFails(t)
      PROVE  SpanInv'
  BY <1>1, BeginRunKeeps, GraphReturnsKeeps, CloseRootKeeps, CheckFailsKeeps, FlushKeeps,
     DrainAllKeeps, CommitKeeps, CountedKeeps, CommitUnacknowledgedKeeps, WriteFailsKeeps
<1>2. ASSUME NEW t \in Tasks, NEW i, OpenSpan(t, i) \/ CloseSpan(t, i)
      PROVE  SpanInv'
  BY <1>2, OpenSpanKeeps, CloseSpanKeeps
<1>3. CASE UNCHANGED spansVars
  <2>1. UNCHANGED <<traced, buffer, spanCounts, rows, closed, lost, uncounted>>
    BY <1>3 DEF spansVars
  <2>2. \A u \in Tasks : Batch(u)' = Batch(u)
    BY <2>1 DEF Batch
  <2>3. InFlight' = InFlight /\ Stored' = Stored /\ InBuffer' = InBuffer
    BY <2>1, <2>2, SameFlight DEF Stored, InBuffer
  <2>4. LimitInv'
    BY <2>1, SameLimits DEF SpanInv
  <2> QED
    BY <2>1, <2>2, <2>3, <2>4 DEF SpanInv, ShapeInv, PlaceInv
<1>4. CASE RestartProcess
  BY <1>4, RestartKeeps
<1> QED
  BY <1>1, <1>2, <1>3, <1>4 DEF SpansNext

\* The shape of the runs, the places of the spans and the limit are invariant.
LEMMA SpanInvHolds == SpansSpec => []SpanInv
<1>1. SpanInv /\ [SpansNext]_spansVars => SpanInv'
  BY SpanInvStep
<1> QED
  BY SpanInvInit, <1>1, PTL DEF SpansSpec

-----------------------------------------------------------------------------
(* The theorems on spans.                                                  *)

\* add, drain, drain_for and flush_spans: every closed span is stored, in flight, buffered
\* or dropped (at the bound, at the limit, with a failed batch, by an engine without a
\* sink, with the process), and in one of these places only; a stored one is booked on
\* its opener, and a flush to the sink leaves nothing of its task in the buffer.
THEOREM EverySpanHasOnePlace ==
    SpansSpec => []SpansAccountedFor
<1>1. ASSUME SpanInv PROVE SpansAccountedFor
  <2> DEFINE S == Stored
             F == InFlight
             B == InBuffer
  <2>1. /\ closed = S \cup F \cup B \cup lost /\ S \cap F = {} /\ (S \cup F) \cap B = {}
        /\ (S \cup F \cup B) \cap lost = {} /\ IsFiniteSet(closed)
    BY <1>1 DEF SpanInv, PlaceInv, ShapeInv
  <2>2. Cardinality(closed) = Cardinality(S) + Cardinality(F) + Cardinality(B) + Cardinality(lost)
    <3> HIDE DEF S, F, B
    <3>1. /\ IsFiniteSet(S) /\ IsFiniteSet(F) /\ IsFiniteSet(B) /\ IsFiniteSet(lost)
          /\ IsFiniteSet(S \cup F) /\ IsFiniteSet(S \cup F \cup B)
      <4>1. /\ S \in SUBSET closed /\ F \in SUBSET closed /\ B \in SUBSET closed
            /\ lost \in SUBSET closed /\ S \cup F \in SUBSET closed
            /\ S \cup F \cup B \in SUBSET closed
        BY <2>1
      <4> QED
        BY <2>1, <4>1, FS_Subset
    <3>2. Cardinality(S \cup F) = Cardinality(S) + Cardinality(F)
      BY <2>1, <3>1, DisjointSizes
    <3>3. Cardinality(S \cup F \cup B) = Cardinality(S \cup F) + Cardinality(B)
      BY <2>1, <3>1, DisjointSizes
    <3>4. Cardinality(closed) = Cardinality(S \cup F \cup B) + Cardinality(lost)
      BY <2>1, <3>1, DisjointSizes
    <3> QED
      BY <3>2, <3>3, <3>4
  <2>3. \A r \in rows : r.task = r.name.opener
    BY <1>1 DEF SpanInv, ShapeInv, Records
  <2>4. ASSUME NEW t \in Tasks, traced[t].pc \in Flushing, NEW s \in B PROVE s.opener # t
    <3>1. PICK r \in ToSet(buffer) : s = r.name
      BY <2>4 DEF InBuffer, NamesOf
    <3>2. r \in Records
      BY <1>1, <3>1, SetOfSeq DEF SpanInv, ShapeInv
    <3>3. r.task # t
      BY <1>1, <2>4, <3>1 DEF SpanInv, PlaceInv
    <3> QED
      BY <3>1, <3>2, <3>3 DEF Records
  <2> QED
    BY <2>1, <2>2, <2>3, <2>4 DEF SpansAccountedFor, Flushing
<1> QED
  BY <1>1, SpanInvHolds, PTL

\* flush_spans: however many runs a task has in the life of one engine and whichever
\* batches fail, at most spans_max_per_task of its spans are stored, but for batches
\* whose commit was not acknowledged; a restart, which forgets the count, starts anew.
THEOREM SpansAreLimited ==
    SpansSpec => []SpanLimit
<1>1. ASSUME SpanInv PROVE SpanLimit
  <2> SUFFICES ASSUME Limit # 0, NEW t \in Tasks
               PROVE  Cardinality(Countable(t)) <= Limit
    BY DEF SpanLimit, Countable
  <2>1. /\ spanCounts[t] <= Limit /\ spanCounts[t] \in Nat /\ Limit \in Nat
        /\ IsFiniteSet(Known(t)) /\ Cardinality(Known(t)) <= spanCounts[t]
    BY <1>1, SpanConstants, FewerKnown DEF SpanInv, LimitInv, ShapeInv
  <2>2. CASE traced[t].pc = "committed"
    <3> DEFINE b == traced[t].batch
               m == spanCounts[t]
    <3>1. b \in Seq(Records) /\ Len(b) \in Nat
      <4>1. b \in Seq(Records)
        BY <1>1, RunFacts DEF SpanRun
      <4> QED
        BY <4>1
    <3>2. m + Len(b) <= Limit
      BY <1>1, <2>2 DEF SpanInv, LimitInv, Flushing
    <3>3. Countable(t) \subseteq Known(t) \cup ToSet(b)
      BY <2>2 DEF Known, Landed
    <3>4. m \in Nat /\ Cardinality(Known(t)) <= m
      BY <2>1
    <3> HIDE DEF b, m
    <3>5. IsFiniteSet(Countable(t)) /\ Cardinality(Countable(t)) <= m + Len(b)
      BY <2>1, <3>1, <3>3, <3>4, AtMostTogether
    <3>6. Cardinality(Countable(t)) \in Nat
      BY <3>5, FS_CardinalityType
    <3> QED
      BY <2>1, <3>1, <3>2, <3>4, <3>5, <3>6
  <2>3. CASE traced[t].pc # "committed"
    <3>1. Countable(t) = Known(t)
      BY <2>3 DEF Known, Landed
    <3>2. Cardinality(Known(t)) \in Nat
      BY <2>1, FS_CardinalityType
    <3> QED
      BY <2>1, <3>1, <3>2
  <2> QED
    BY <2>2, <2>3
<1> QED
  BY <1>1, SpanInvHolds, PTL

\* build_tree: the tree shows every stored span of the task, whichever of the spans
\* above it were dropped.
THEOREM TreeIsComplete ==
    SpansSpec => []TreeShowsAll
<1>1. ASSUME SpanInv PROVE TreeShowsAll
  <2> SUFFICES ASSUME NEW t \in Tasks
               PROVE  Shown(RowsOf(t), MaxSpans + 1) = RowsOf(t)
    BY DEF TreeShowsAll
  <2>1. RowsOf(t) \in SUBSET Records
    BY <1>1 DEF SpanInv, ShapeInv, RowsOf
  <2>2. \A r \in Records : r.name.no <= MaxSpans + 1
    BY SpanConstants DEF Records, Names
  <2>3. MaxSpans + 1 \in Nat
    BY SpanConstants
  <2> QED
    BY <2>1, <2>2, <2>3, AllAreShown
<1> QED
  BY <1>1, SpanInvHolds, PTL
=============================================================================
