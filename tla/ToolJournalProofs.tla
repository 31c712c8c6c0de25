------------------------- MODULE ToolJournalProofs -------------------------
(***************************************************************************)
(* Proofs about ToolJournal, for any sets of workers, calls and keys, any  *)
(* number of kills, deletions and slots.                                   *)
(*                                                                         *)
(*  - ClaimInv: without the row nobody has claimed since the last          *)
(*    deletion, so the next claim is accounted for;                        *)
(*  - WayInv: how a call came to where it is;                              *)
(*  - GenuineInv: what is in the row, and what waits to be written there,  *)
(*    is what an execution ended with;                                     *)
(*  - OwnerInv: as long as a key has been neither taken over nor deleted,  *)
(*    the row was inserted by its owner, who is the only one to execute;   *)
(*    the row is complete only when the owner is done, and says the same.  *)
(***************************************************************************)
EXTENDS ToolJournal, TLAPS

ClaimInv ==
    \A k \in Keys :
        started[k] <= takeovers[k] + purges + (IF journal[k] = "absent" THEN 0 ELSE 1)

Before == {"waiting", "claiming", "conflict", "polling", "takingOver"}
Completing == {"recording", "inserting", "updating"}

WayInv ==
    \A w \in Workers, c \in Calls :
        /\ call[w][c].pc \in Before => call[w][c].way = "none"
        /\ call[w][c].pc \in Completing \cup {"executing"}
             => call[w][c].way \in {"claim", "takeover"}
        /\ call[w][c].pc = "done" => call[w][c].way # "none"
        /\ call[w][c].pc \in Completing => call[w][c].obs \in Results
        /\ call[w][c].way = "takeover" => takeovers[KeyOf[c]] > 0

GenuineRow(k) == Complete(k) => \E obs \in outcomes[k] : journal[k] = Stored(obs)

GenuineCall(w, c) ==
    /\ call[w][c].pc \in Completing => call[w][c].obs \in outcomes[KeyOf[c]]
    /\ call[w][c].way = "replay" =>
         \E obs \in outcomes[KeyOf[c]] : call[w][c].obs = Stored(obs)

GenuineInv ==
    /\ \A k \in Keys : GenuineRow(k)
    /\ \A w \in Workers, c \in Calls : GenuineCall(w, c)

Undisturbed(k) == takeovers[k] = 0 /\ purges = 0

\* What a call with key k knows of the row, while k is undisturbed.
OwnerCall(k, w, c) ==
    /\ call[w][c].way = "claim" =>
         /\ journal[k] # "absent"
         /\ Complete(k) => call[w][c].pc = "done" /\ journal[k] = Stored(call[w][c].obs)
    /\ call[w][c].way = "replay" => Complete(k) /\ call[w][c].obs = journal[k]
    /\ call[w][c].pc # "inserting"

OneOwner(k) ==
    \A v, w \in Workers, c, d \in Calls :
        /\ KeyOf[c] = k /\ call[v][c].way = "claim"
        /\ KeyOf[d] = k /\ call[w][d].way = "claim"
        => v = w /\ c = d

OwnerOf(k) ==
    Undisturbed(k) =>
        /\ OneOwner(k)
        /\ \A w \in Workers, c \in Calls : KeyOf[c] = k => OwnerCall(k, w, c)

OwnerInv == \A k \in Keys : OwnerOf(k)

IInv == TypeOK /\ ClaimInv /\ WayInv /\ GenuineInv /\ OwnerInv

-----------------------------------------------------------------------------
(* What the steps of a call do.                                            *)

CallType == call \in [Workers -> [Calls -> RunOne]]

\* The other calls stay where they are.
Others(w, c) ==
    \A v \in Workers, d \in Calls : v # w \/ d # c => call'[v][d] = call[v][d]

\* A call is set to a new record.
LEMMA SetDoes ==
    ASSUME CallType, NEW w \in Workers, NEW c \in Calls, NEW r \in RunOne,
           call' = [call EXCEPT ![w][c] = r]
    PROVE  CallType' /\ call'[w][c] = r /\ Others(w, c)
  BY DEF CallType, Others

\* Goto
LEMMA GotoDoes ==
    ASSUME CallType, NEW w \in Workers, NEW c \in Calls, NEW x \in PCs, Goto(w, c, x)
    PROVE  /\ CallType' /\ Others(w, c)
           /\ call'[w][c].pc = x
           /\ call'[w][c].way = call[w][c].way
           /\ call'[w][c].obs = call[w][c].obs
<1> DEFINE r == [call[w][c] EXCEPT !.pc = x]
<1>1. call[w][c] \in RunOne
  BY DEF CallType
<1>2. /\ r \in RunOne
      /\ r.pc = x /\ r.way = call[w][c].way /\ r.obs = call[w][c].obs
  BY <1>1 DEF RunOne
<1>3. call' = [call EXCEPT ![w][c] = r]
  BY DEF Goto
<1> HIDE DEF r
<1> QED
  BY <1>2, <1>3, SetDoes

\* Observe
LEMMA ObserveDoes ==
    ASSUME CallType, NEW w \in Workers, NEW c \in Calls, NEW x \in Ways,
           NEW o \in Results, Observe(w, c, x, o)
    PROVE  /\ CallType' /\ Others(w, c)
           /\ call'[w][c].pc = "done"
           /\ call'[w][c].way = x
           /\ call'[w][c].obs = o
<1> DEFINE r == [pc |-> "done", way |-> x, obs |-> o]
<1>1. r \in RunOne /\ r.pc = "done" /\ r.way = x /\ r.obs = o
  BY DEF RunOne, PCs
<1>2. call' = [call EXCEPT ![w][c] = r]
  BY DEF Observe
<1> HIDE DEF r
<1> QED
  BY <1>1, <1>2, SetDoes

\* StartTool
LEMMA StartDoes ==
    ASSUME CallType, NEW w \in Workers, NEW c \in Calls, NEW x \in Ways, StartTool(w, c, x)
    PROVE  /\ CallType' /\ Others(w, c)
           /\ call'[w][c].pc = "executing"
           /\ call'[w][c].way = x
<1> DEFINE r == [call[w][c] EXCEPT !.pc = "executing", !.way = x]
<1>1. call[w][c] \in RunOne
  BY DEF CallType
<1>2. r \in RunOne /\ r.pc = "executing" /\ r.way = x
  BY <1>1 DEF RunOne, PCs
<1>3. call' = [call EXCEPT ![w][c] = r]
  BY DEF StartTool
<1> HIDE DEF r
<1> QED
  BY <1>2, <1>3, SetDoes

Records(w, c, o) == call' = [call EXCEPT ![w][c].pc = "recording", ![w][c].obs = o]

\* ExecuteCall
LEMMA RecordDoes ==
    ASSUME CallType, NEW w \in Workers, NEW c \in Calls, NEW o \in Results,
           Records(w, c, o)
    PROVE  /\ CallType' /\ Others(w, c)
           /\ call'[w][c].pc = "recording"
           /\ call'[w][c].way = call[w][c].way
           /\ call'[w][c].obs = o
<1> DEFINE r == [call[w][c] EXCEPT !.pc = "recording", !.obs = o]
<1>1. call[w][c] \in RunOne
  BY DEF CallType
<1>2. /\ r \in RunOne /\ r.pc = "recording"
      /\ r.way = call[w][c].way /\ r.obs = o
  BY <1>1 DEF RunOne, PCs
<1>3. call' = [call EXCEPT ![w][c] = r]
  BY DEF Records
<1> HIDE DEF r
<1> QED
  BY <1>2, <1>3, SetDoes

Reset(w) == call' = [call EXCEPT ![w] = [c \in Calls |-> NotStarted]]

Afresh(w) ==
    \A v \in Workers, d \in Calls :
        IF v = w THEN call'[v][d].pc = "waiting" /\ call'[v][d].way = "none"
                 ELSE call'[v][d] = call[v][d]

\* BeginRound and Crash
LEMMA ResetDoes ==
    ASSUME CallType, NEW w \in Workers, Reset(w)
    PROVE  CallType' /\ Afresh(w)
<1>1. NotStarted \in RunOne /\ NotStarted.pc = "waiting" /\ NotStarted.way = "none"
  BY DEF NotStarted, RunOne, PCs, Ways
<1> QED
  BY <1>1 DEF CallType, Reset, Afresh

\* The fields of a call have their types.
LEMMA FieldTypes ==
    ASSUME CallType, NEW w \in Workers, NEW c \in Calls
    PROVE  call[w][c].pc \in PCs /\ call[w][c].way \in Ways /\ "plain" \in Results
  BY DEF CallType, RunOne, Results

\* What the row can hold of an observation is a result without code.
LEMMA StoredIsResult ==
    \A o \in Results : Stored(o) \in Results /\ Stored(Stored(o)) = Stored(o)
  BY DEF Stored, Results

-----------------------------------------------------------------------------
(* Types.                                                                  *)

RestType ==
    /\ journal \in [Keys -> Rows]
    /\ worker \in [Workers -> {"idle", "round", "ended"}]
    /\ crashes \in 0..MaxCrashes
    /\ purges \in 0..MaxPurges
    /\ started \in [Keys -> Nat]
    /\ takeovers \in [Keys -> Nat]
    /\ outcomes \in [Keys -> SUBSET Results]

\* The bounds and keys have their types.
LEMMA ConstantTypes ==
    MaxCrashes \in Nat /\ MaxPurges \in Nat /\ \A c \in Calls : KeyOf[c] \in Keys
  BY JournalAssumption DEF JournalAssumption

\* A call that is writing its completion has a result (from WayInv).
ObsType == \A w \in Workers, c \in Calls :
              call[w][c].pc \in Completing => call[w][c].obs \in Results

\* Every step keeps the types of the tables and counters.
LEMMA RestStep == RestType /\ ObsType /\ [Next]_vars => RestType'
<1> SUFFICES ASSUME RestType, ObsType, [Next]_vars PROVE RestType'
  OBVIOUS
<1> USE ConstantTypes DEF RestType, ObsType, Rows, history
<1>1. ASSUME NEW w \in Workers, NEW c \in Calls, Acquire(w, c) PROVE RestType'
  BY <1>1 DEF Acquire
<1>2. ASSUME NEW w \in Workers, NEW c \in Calls, TryClaim(w, c) PROVE RestType'
  BY <1>2 DEF TryClaim, StartTool
<1>3. ASSUME NEW w \in Workers, NEW c \in Calls, ReadConflict(w, c) PROVE RestType'
  BY <1>3 DEF ReadConflict
<1>4. ASSUME NEW w \in Workers, NEW c \in Calls, PollHits(w, c) PROVE RestType'
  BY <1>4 DEF PollHits
<1>5. ASSUME NEW w \in Workers, NEW c \in Calls, GiveUp(w, c) PROVE RestType'
  BY <1>5 DEF GiveUp
<1>6. ASSUME NEW w \in Workers, NEW c \in Calls, TakeOver(w, c) PROVE RestType'
  BY <1>6 DEF TakeOver, StartTool
<1>7. ASSUME NEW w \in Workers, NEW c \in Calls, ExecuteCall(w, c) PROVE RestType'
  BY <1>7 DEF ExecuteCall
<1>8. ASSUME NEW w \in Workers, NEW c \in Calls, ExecuteCallRaises(w, c) PROVE RestType'
  BY <1>8 DEF ExecuteCallRaises
<1>9. ASSUME NEW w \in Workers, NEW c \in Calls, ReadForCompletion(w, c) PROVE RestType'
  BY <1>9 DEF ReadForCompletion
<1>10. ASSUME NEW w \in Workers, NEW c \in Calls, InsertCompletion(w, c) PROVE RestType'
  BY <1>10, StoredIsResult DEF InsertCompletion, Completing
<1>11. ASSUME NEW w \in Workers, NEW c \in Calls, UpdateCompletion(w, c) PROVE RestType'
  BY <1>11, StoredIsResult DEF UpdateCompletion, Completing
<1>12. ASSUME NEW w \in Workers, BeginRound(w) PROVE RestType'
  BY <1>12 DEF BeginRound
<1>13. ASSUME NEW w \in Workers, EndRound(w) PROVE RestType'
  BY <1>13 DEF EndRound
<1>14. ASSUME NEW w \in Workers, Crash(w) PROVE RestType'
  BY <1>14 DEF Crash
<1>15. ASSUME PurgeJournal PROVE RestType'
  BY <1>15 DEF PurgeJournal
<1>16. CASE UNCHANGED vars
  BY <1>16 DEF vars, history
<1> QED
  BY <1>1, <1>2, <1>3, <1>4, <1>5, <1>6, <1>7, <1>8, <1>9,
     <1>10, <1>11, <1>12, <1>13, <1>14, <1>15, <1>16
  DEF Next, RunOneStep

\* Every step keeps the types of the calls.
LEMMA CallStep == CallType /\ RestType /\ [Next]_vars => CallType'
<1> SUFFICES ASSUME CallType, RestType, [Next]_vars PROVE CallType'
  OBVIOUS
<1> USE ConstantTypes DEF CallType, PCs, Ways
<1>1. ASSUME NEW w \in Workers, NEW c \in Calls, Acquire(w, c) PROVE CallType'
  BY <1>1, GotoDoes DEF Acquire
<1>2. ASSUME NEW w \in Workers, NEW c \in Calls, TryClaim(w, c) PROVE CallType'
  BY <1>2, GotoDoes, StartDoes DEF TryClaim
<1>3. ASSUME NEW w \in Workers, NEW c \in Calls, ReadConflict(w, c) PROVE CallType'
  BY <1>3, GotoDoes, ObserveDoes DEF ReadConflict, Complete
<1>4. ASSUME NEW w \in Workers, NEW c \in Calls, PollHits(w, c) PROVE CallType'
  BY <1>4, ObserveDoes DEF PollHits, Complete
<1>5. ASSUME NEW w \in Workers, NEW c \in Calls, GiveUp(w, c) PROVE CallType'
  BY <1>5, GotoDoes DEF GiveUp
<1>6. ASSUME NEW w \in Workers, NEW c \in Calls, TakeOver(w, c) PROVE CallType'
  BY <1>6, StartDoes DEF TakeOver
<1>7. ASSUME NEW w \in Workers, NEW c \in Calls, ExecuteCall(w, c) PROVE CallType'
  BY <1>7, RecordDoes DEF ExecuteCall, Records
<1>8. ASSUME NEW w \in Workers, NEW c \in Calls, ExecuteCallRaises(w, c) PROVE CallType'
  BY <1>8, ObserveDoes, FieldTypes DEF ExecuteCallRaises
<1>9. ASSUME NEW w \in Workers, NEW c \in Calls, ReadForCompletion(w, c) PROVE CallType'
  BY <1>9, GotoDoes DEF ReadForCompletion
<1>10. ASSUME NEW w \in Workers, NEW c \in Calls, InsertCompletion(w, c) PROVE CallType'
  BY <1>10, GotoDoes DEF InsertCompletion
<1>11. ASSUME NEW w \in Workers, NEW c \in Calls, UpdateCompletion(w, c) PROVE CallType'
  BY <1>11, GotoDoes, ObserveDoes, FieldTypes DEF UpdateCompletion
<1>12. ASSUME NEW w \in Workers, BeginRound(w) PROVE CallType'
  BY <1>12, ResetDoes DEF BeginRound, Reset
<1>13. ASSUME NEW w \in Workers, EndRound(w) PROVE CallType'
  BY <1>13 DEF EndRound
<1>14. ASSUME NEW w \in Workers, Crash(w) PROVE CallType'
  BY <1>14, ResetDoes DEF Crash, Reset
<1>15. ASSUME PurgeJournal PROVE CallType'
  BY <1>15 DEF PurgeJournal
<1>16. CASE UNCHANGED vars
  BY <1>16 DEF vars, history
<1> QED
  BY <1>1, <1>2, <1>3, <1>4, <1>5, <1>6, <1>7, <1>8, <1>9,
     <1>10, <1>11, <1>12, <1>13, <1>14, <1>15, <1>16
  DEF Next, RunOneStep

\* TypeOK in two parts
LEMMA TypeParts == TypeOK <=> CallType /\ RestType
  BY DEF TypeOK, CallType, RestType

-----------------------------------------------------------------------------
(* The invariant.                                                          *)

\* Every step keeps the account of the starts.
LEMMA ClaimStep == RestType /\ ObsType /\ ClaimInv /\ [Next]_vars => ClaimInv'
<1> SUFFICES ASSUME RestType, ObsType, ClaimInv, [Next]_vars PROVE ClaimInv'
  OBVIOUS
<1> USE ConstantTypes DEF ClaimInv, RestType, Rows, history
<1>1. ASSUME NEW w \in Workers, NEW c \in Calls, Acquire(w, c) PROVE ClaimInv'
  BY <1>1 DEF Acquire
<1>2. ASSUME NEW w \in Workers, NEW c \in Calls, TryClaim(w, c) PROVE ClaimInv'
  BY <1>2 DEF TryClaim, StartTool
<1>3. ASSUME NEW w \in Workers, NEW c \in Calls, ReadConflict(w, c) PROVE ClaimInv'
  BY <1>3 DEF ReadConflict
<1>4. ASSUME NEW w \in Workers, NEW c \in Calls, PollHits(w, c) PROVE ClaimInv'
  BY <1>4 DEF PollHits
<1>5. ASSUME NEW w \in Workers, NEW c \in Calls, GiveUp(w, c) PROVE ClaimInv'
  BY <1>5 DEF GiveUp
<1>6. ASSUME NEW w \in Workers, NEW c \in Calls, TakeOver(w, c) PROVE ClaimInv'
  BY <1>6 DEF TakeOver, StartTool
<1>7. ASSUME NEW w \in Workers, NEW c \in Calls, ExecuteCall(w, c) PROVE ClaimInv'
  BY <1>7 DEF ExecuteCall
<1>8. ASSUME NEW w \in Workers, NEW c \in Calls, ExecuteCallRaises(w, c) PROVE ClaimInv'
  BY <1>8 DEF ExecuteCallRaises
<1>9. ASSUME NEW w \in Workers, NEW c \in Calls, ReadForCompletion(w, c) PROVE ClaimInv'
  BY <1>9 DEF ReadForCompletion
<1>10. ASSUME NEW w \in Workers, NEW c \in Calls, InsertCompletion(w, c) PROVE ClaimInv'
  BY <1>10 DEF InsertCompletion, Stored
<1>11. ASSUME NEW w \in Workers, NEW c \in Calls, UpdateCompletion(w, c) PROVE ClaimInv'
  BY <1>11, StoredIsResult DEF UpdateCompletion, ObsType, Completing, Results
<1>12. ASSUME NEW w \in Workers, BeginRound(w) PROVE ClaimInv'
  BY <1>12 DEF BeginRound
<1>13. ASSUME NEW w \in Workers, EndRound(w) PROVE ClaimInv'
  BY <1>13 DEF EndRound
<1>14. ASSUME NEW w \in Workers, Crash(w) PROVE ClaimInv'
  BY <1>14 DEF Crash
<1>15. ASSUME PurgeJournal PROVE ClaimInv'
  BY <1>15 DEF PurgeJournal
<1>16. CASE UNCHANGED vars
  BY <1>16 DEF vars, history
<1> QED
  BY <1>1, <1>2, <1>3, <1>4, <1>5, <1>6, <1>7, <1>8, <1>9,
     <1>10, <1>11, <1>12, <1>13, <1>14, <1>15, <1>16
  DEF Next, RunOneStep

\* Every step keeps the ways in which calls came to where they are.
LEMMA WayStep == CallType /\ RestType /\ WayInv /\ [Next]_vars => WayInv'
<1> SUFFICES ASSUME CallType, RestType, WayInv, [Next]_vars PROVE WayInv'
  OBVIOUS
<1> USE ConstantTypes, FieldTypes DEF WayInv, RestType, Before, Completing, Others, PCs, Ways, history
<1>1. ASSUME NEW w \in Workers, NEW c \in Calls, Acquire(w, c) PROVE WayInv'
  BY <1>1, GotoDoes DEF Acquire
<1>2. ASSUME NEW w \in Workers, NEW c \in Calls, TryClaim(w, c) PROVE WayInv'
  BY <1>2, GotoDoes, StartDoes DEF TryClaim
<1>3. ASSUME NEW w \in Workers, NEW c \in Calls, ReadConflict(w, c) PROVE WayInv'
  BY <1>3, GotoDoes, ObserveDoes DEF ReadConflict, Complete
<1>4. ASSUME NEW w \in Workers, NEW c \in Calls, PollHits(w, c) PROVE WayInv'
  BY <1>4, ObserveDoes DEF PollHits, Complete
<1>5. ASSUME NEW w \in Workers, NEW c \in Calls, GiveUp(w, c) PROVE WayInv'
  BY <1>5, GotoDoes DEF GiveUp
<1>6. ASSUME NEW w \in Workers, NEW c \in Calls, TakeOver(w, c) PROVE WayInv'
  BY <1>6, StartDoes DEF TakeOver
<1>7. ASSUME NEW w \in Workers, NEW c \in Calls, ExecuteCall(w, c) PROVE WayInv'
  <2>1. PICK o \in Results : Records(w, c, o)
    BY <1>7 DEF ExecuteCall, Records
  <2>2. /\ Others(w, c) /\ call'[w][c].pc = "recording"
        /\ call'[w][c].way = call[w][c].way /\ call'[w][c].obs = o
    BY <2>1, RecordDoes
  <2>3. call[w][c].pc = "executing" /\ UNCHANGED takeovers
    BY <1>7 DEF ExecuteCall
  <2> QED
    BY <2>2, <2>3
<1>8. ASSUME NEW w \in Workers, NEW c \in Calls, ExecuteCallRaises(w, c) PROVE WayInv'
  BY <1>8, ObserveDoes DEF ExecuteCallRaises
<1>9. ASSUME NEW w \in Workers, NEW c \in Calls, ReadForCompletion(w, c) PROVE WayInv'
  BY <1>9, GotoDoes DEF ReadForCompletion
<1>10. ASSUME NEW w \in Workers, NEW c \in Calls, InsertCompletion(w, c) PROVE WayInv'
  BY <1>10, GotoDoes DEF InsertCompletion
<1>11. ASSUME NEW w \in Workers, NEW c \in Calls, UpdateCompletion(w, c) PROVE WayInv'
  BY <1>11, GotoDoes, ObserveDoes DEF UpdateCompletion
<1>12. ASSUME NEW w \in Workers, BeginRound(w) PROVE WayInv'
  <2>1. Reset(w) /\ UNCHANGED takeovers
    BY <1>12 DEF BeginRound, Reset
  <2>2. Afresh(w)
    BY <2>1, ResetDoes
  <2> SUFFICES ASSUME NEW v \in Workers, NEW d \in Calls
               PROVE  WayInv!(v, d)'
    OBVIOUS
  <2>3. CASE v = w
    BY <2>2, <2>3 DEF Afresh
  <2>4. CASE v # w
    BY <2>1, <2>2, <2>4 DEF Afresh
  <2> QED
    BY <2>3, <2>4
<1>13. ASSUME NEW w \in Workers, EndRound(w) PROVE WayInv'
  BY <1>13 DEF EndRound
<1>14. ASSUME NEW w \in Workers, Crash(w) PROVE WayInv'
  <2>1. Reset(w) /\ UNCHANGED takeovers
    BY <1>14 DEF Crash, Reset
  <2>2. Afresh(w)
    BY <2>1, ResetDoes
  <2> SUFFICES ASSUME NEW v \in Workers, NEW d \in Calls
               PROVE  WayInv!(v, d)'
    OBVIOUS
  <2>3. CASE v = w
    BY <2>2, <2>3 DEF Afresh
  <2>4. CASE v # w
    BY <2>1, <2>2, <2>4 DEF Afresh
  <2> QED
    BY <2>3, <2>4
<1>15. ASSUME PurgeJournal PROVE WayInv'
  BY <1>15 DEF PurgeJournal
<1>16. CASE UNCHANGED vars
  BY <1>16 DEF vars, history
<1> QED
  BY <1>1, <1>2, <1>3, <1>4, <1>5, <1>6, <1>7, <1>8, <1>9,
     <1>10, <1>11, <1>12, <1>13, <1>14, <1>15, <1>16
  DEF Next, RunOneStep

-----------------------------------------------------------------------------
(* What is recorded is genuine.                                            *)

\* No outcome is forgotten.
Remembers == \A k \in Keys : outcomes[k] \subseteq outcomes'[k]

\* A step of one call leaves the others genuine.
LEMMA OneCallGenuine ==
    ASSUME GenuineInv, NEW w \in Workers, NEW c \in Calls, Others(w, c), Remembers,
           GenuineCall(w, c)'
    PROVE  \A v \in Workers, d \in Calls : GenuineCall(v, d)'
<1> SUFFICES ASSUME NEW v \in Workers, NEW d \in Calls, v # w \/ d # c
             PROVE  GenuineCall(v, d)'
  OBVIOUS
<1>1. call'[v][d] = call[v][d] /\ GenuineCall(v, d) /\ KeyOf[d] \in Keys
  BY ConstantTypes DEF Others, GenuineInv
<1> QED
  BY <1>1 DEF GenuineCall, Remembers

\* Where the journal is not written the rows stay genuine.
LEMMA SameRowsGenuine ==
    ASSUME GenuineInv, Remembers, UNCHANGED journal
    PROVE  \A k \in Keys : GenuineRow(k)'
  BY DEF GenuineInv, GenuineRow, Complete, Remembers

\* A call that runs no more than before, and replays nothing, is genuine.
LEMMA IdleGenuine ==
    ASSUME NEW w \in Workers, NEW c \in Calls,
           call'[w][c].pc \notin Completing, call'[w][c].way # "replay"
    PROVE  GenuineCall(w, c)'
  BY DEF GenuineCall

\* A call that replays a complete row is genuine.
LEMMA ReplayGenuine ==
    ASSUME GenuineInv, NEW w \in Workers, NEW c \in Calls, Complete(KeyOf[c]),
           call'[w][c].pc = "done", call'[w][c].obs = journal[KeyOf[c]], UNCHANGED outcomes
    PROVE  GenuineCall(w, c)'
<1>1. PICK o \in outcomes[KeyOf[c]] : journal[KeyOf[c]] = Stored(o)
  BY ConstantTypes DEF GenuineInv, GenuineRow
<1> QED
  BY <1>1 DEF GenuineCall, Completing

\* A call that moves on with its observation stays genuine.
LEMMA MovingGenuine ==
    ASSUME GenuineInv, NEW w \in Workers, NEW c \in Calls,
           call[w][c].pc \in Completing, call'[w][c].obs = call[w][c].obs,
           call'[w][c].way = call[w][c].way, UNCHANGED outcomes
    PROVE  GenuineCall(w, c)'
  BY DEF GenuineInv, GenuineCall

\* Every step keeps what is recorded genuine.
LEMMA GenuineStep == CallType /\ RestType /\ WayInv /\ GenuineInv /\ [Next]_vars => GenuineInv'
<1> SUFFICES ASSUME CallType, RestType, WayInv, GenuineInv, [Next]_vars PROVE GenuineInv'
  OBVIOUS
<1>0. ASSUME NEW w \in Workers, NEW c \in Calls, Others(w, c), Remembers,
             \A k \in Keys : GenuineRow(k)', GenuineCall(w, c)'
      PROVE  GenuineInv'
  BY <1>0, OneCallGenuine DEF GenuineInv
<1> USE ConstantTypes, FieldTypes DEF PCs, Ways
<1>1. ASSUME NEW w \in Workers, NEW c \in Calls, Acquire(w, c) PROVE GenuineInv'
  <2>1. Remembers /\ \A k \in Keys : GenuineRow(k)'
    BY <1>1, SameRowsGenuine DEF Acquire, Remembers, history
  <2>2. Others(w, c) /\ call'[w][c].pc = "claiming" /\ call'[w][c].way = "none"
    BY <1>1, GotoDoes DEF Acquire, WayInv, Before
  <2> QED
    BY <1>0, <2>1, <2>2, IdleGenuine DEF Completing
<1>2. ASSUME NEW w \in Workers, NEW c \in Calls, TryClaim(w, c) PROVE GenuineInv'
  <2>1. Remembers /\ \A k \in Keys : GenuineRow(k)'
    BY <1>2 DEF TryClaim, Remembers, RestType, GenuineInv, GenuineRow, Complete, Results
  <2>2. /\ Others(w, c) /\ call'[w][c].pc \in {"executing", "conflict"}
        /\ call'[w][c].way \in {"claim", "none"}
    BY <1>2, GotoDoes, StartDoes DEF TryClaim, WayInv, Before
  <2> QED
    BY <1>0, <2>1, <2>2, IdleGenuine DEF Completing
<1>3. ASSUME NEW w \in Workers, NEW c \in Calls, ReadConflict(w, c) PROVE GenuineInv'
  <2>1. Remembers /\ \A k \in Keys : GenuineRow(k)'
    BY <1>3, SameRowsGenuine DEF ReadConflict, Remembers, history
  <2>2. CASE Complete(KeyOf[c])
    <3>1. Observe(w, c, "replay", journal[KeyOf[c]]) /\ UNCHANGED outcomes
      BY <1>3, <2>2 DEF ReadConflict, history
    <3>2. /\ Others(w, c)
          /\ call'[w][c].pc = "done" /\ call'[w][c].obs = journal[KeyOf[c]]
      BY <2>2, <3>1, ObserveDoes DEF Complete
    <3> QED
      BY <1>0, <2>1, <2>2, <3>1, <3>2, ReplayGenuine
  <2>3. CASE ~Complete(KeyOf[c])
    <3>1. Others(w, c) /\ call'[w][c].pc = "polling" /\ call'[w][c].way = "none"
      BY <1>3, <2>3, GotoDoes DEF ReadConflict, WayInv, Before
    <3> QED
      BY <1>0, <2>1, <3>1, IdleGenuine DEF Completing
  <2> QED
    BY <2>2, <2>3
<1>4. ASSUME NEW w \in Workers, NEW c \in Calls, PollHits(w, c) PROVE GenuineInv'
  <2>1. Remembers /\ \A k \in Keys : GenuineRow(k)'
    BY <1>4, SameRowsGenuine DEF PollHits, Remembers, history
  <2>2. Complete(KeyOf[c]) /\ UNCHANGED outcomes
    BY <1>4 DEF PollHits, history
  <2>3. /\ Others(w, c)
        /\ call'[w][c].pc = "done" /\ call'[w][c].obs = journal[KeyOf[c]]
    BY <1>4, ObserveDoes DEF PollHits, Complete
  <2> QED
    BY <1>0, <2>1, <2>2, <2>3, ReplayGenuine
<1>5. ASSUME NEW w \in Workers, NEW c \in Calls, GiveUp(w, c) PROVE GenuineInv'
  <2>1. Remembers /\ \A k \in Keys : GenuineRow(k)'
    BY <1>5, SameRowsGenuine DEF GiveUp, Remembers, history
  <2>2. Others(w, c) /\ call'[w][c].pc = "takingOver" /\ call'[w][c].way = "none"
    BY <1>5, GotoDoes DEF GiveUp, WayInv, Before
  <2> QED
    BY <1>0, <2>1, <2>2, IdleGenuine DEF Completing
<1>6. ASSUME NEW w \in Workers, NEW c \in Calls, TakeOver(w, c) PROVE GenuineInv'
  <2>1. Remembers /\ \A k \in Keys : GenuineRow(k)'
    BY <1>6, SameRowsGenuine DEF TakeOver, Remembers, history
  <2>2. Others(w, c) /\ call'[w][c].pc = "executing" /\ call'[w][c].way = "takeover"
    BY <1>6, StartDoes DEF TakeOver
  <2> QED
    BY <1>0, <2>1, <2>2, IdleGenuine DEF Completing
<1>7. ASSUME NEW w \in Workers, NEW c \in Calls, ExecuteCall(w, c) PROVE GenuineInv'
  <2>1. PICK o \in Results :
          Records(w, c, o) /\ outcomes' = [outcomes EXCEPT ![KeyOf[c]] = @ \cup {o}]
    BY <1>7 DEF ExecuteCall, Records
  <2>2. /\ Others(w, c) /\ call'[w][c].pc = "recording"
        /\ call'[w][c].way = call[w][c].way /\ call'[w][c].obs = o
    BY <2>1, RecordDoes
  <2>3. Remembers /\ o \in outcomes'[KeyOf[c]]
    BY <2>1 DEF Remembers, RestType
  <2>4. \A k \in Keys : GenuineRow(k)'
    BY <1>7, <2>3, SameRowsGenuine DEF ExecuteCall
  <2>5. call[w][c].way # "replay"
    BY <1>7 DEF ExecuteCall, WayInv
  <2>6. GenuineCall(w, c)'
    BY <2>2, <2>3, <2>5 DEF GenuineCall
  <2> QED
    BY <1>0, <2>2, <2>3, <2>4, <2>6
<1>8. ASSUME NEW w \in Workers, NEW c \in Calls, ExecuteCallRaises(w, c) PROVE GenuineInv'
  <2>1. Remembers /\ \A k \in Keys : GenuineRow(k)'
    BY <1>8, SameRowsGenuine DEF ExecuteCallRaises, Remembers, history
  <2>2. Others(w, c) /\ call'[w][c].pc = "done" /\ call'[w][c].way = call[w][c].way
    BY <1>8, ObserveDoes DEF ExecuteCallRaises
  <2>3. call[w][c].way # "replay"
    BY <1>8 DEF ExecuteCallRaises, WayInv
  <2> QED
    BY <1>0, <2>1, <2>2, <2>3, IdleGenuine DEF Completing
<1>9. ASSUME NEW w \in Workers, NEW c \in Calls, ReadForCompletion(w, c) PROVE GenuineInv'
  <2>1. Remembers /\ \A k \in Keys : GenuineRow(k)'
    BY <1>9, SameRowsGenuine DEF ReadForCompletion, Remembers, history
  <2>2. /\ Others(w, c) /\ call[w][c].pc \in Completing /\ UNCHANGED outcomes
        /\ call'[w][c].obs = call[w][c].obs /\ call'[w][c].way = call[w][c].way
    BY <1>9, GotoDoes DEF ReadForCompletion, Completing, history
  <2> QED
    BY <1>0, <2>1, <2>2, MovingGenuine
<1>10. ASSUME NEW w \in Workers, NEW c \in Calls, InsertCompletion(w, c) PROVE GenuineInv'
  <2>1. /\ Others(w, c) /\ call[w][c].pc \in Completing /\ UNCHANGED outcomes
        /\ call'[w][c].obs = call[w][c].obs /\ call'[w][c].way = call[w][c].way
    BY <1>10, GotoDoes DEF InsertCompletion, Completing, history
  <2>2. call[w][c].obs \in outcomes[KeyOf[c]]
    BY <2>1 DEF GenuineInv, GenuineCall
  <2>3. \A k \in Keys : journal'[k] \in {journal[k], Stored(call[w][c].obs)}
                        /\ (k # KeyOf[c] => journal'[k] = journal[k])
    BY <1>10 DEF InsertCompletion, RestType
  <2>4. \A k \in Keys : GenuineRow(k)'
    BY <2>1, <2>2, <2>3 DEF GenuineInv, GenuineRow, Complete
  <2> QED
    BY <1>0, <2>1, <2>4, MovingGenuine DEF Remembers
<1>11. ASSUME NEW w \in Workers, NEW c \in Calls, UpdateCompletion(w, c) PROVE GenuineInv'
  <2>1. call[w][c].pc \in Completing /\ Remembers /\ UNCHANGED outcomes
    BY <1>11 DEF UpdateCompletion, Completing, Remembers, history
  <2>2. CASE journal[KeyOf[c]] # "absent"
    <3>1. /\ Others(w, c)
          /\ call'[w][c].obs = call[w][c].obs /\ call'[w][c].way = call[w][c].way
      BY <1>11, <2>2, GotoDoes DEF UpdateCompletion
    <3>2. call[w][c].obs \in outcomes[KeyOf[c]]
      BY <2>1 DEF GenuineInv, GenuineCall
    <3>3. \A k \in Keys : journal'[k] \in {journal[k], Stored(call[w][c].obs)}
                          /\ (k # KeyOf[c] => journal'[k] = journal[k])
      BY <1>11, <2>2 DEF UpdateCompletion, RestType
    <3>4. \A k \in Keys : GenuineRow(k)'
      BY <2>1, <3>2, <3>3 DEF GenuineInv, GenuineRow, Complete
    <3> QED
      BY <1>0, <2>1, <3>1, <3>4, MovingGenuine
  <2>3. CASE journal[KeyOf[c]] = "absent"
    <3>1. Others(w, c) /\ call'[w][c].pc = "done" /\ call'[w][c].way = call[w][c].way
      BY <1>11, <2>3, ObserveDoes DEF UpdateCompletion
    <3>2. call[w][c].way # "replay"
      BY <2>1 DEF WayInv
    <3>3. \A k \in Keys : GenuineRow(k)'
      BY <1>11, <2>1, <2>3, SameRowsGenuine DEF UpdateCompletion
    <3> QED
      BY <1>0, <2>1, <3>1, <3>2, <3>3, IdleGenuine DEF Completing
  <2> QED
    BY <2>2, <2>3
<1>12. ASSUME NEW w \in Workers, BeginRound(w) PROVE GenuineInv'
  <2>1. Remembers /\ \A k \in Keys : GenuineRow(k)'
    BY <1>12, SameRowsGenuine DEF BeginRound, Remembers, history
  <2>2. Afresh(w) /\ UNCHANGED outcomes
    BY <1>12, ResetDoes DEF BeginRound, Reset, history
  <2>3. ASSUME NEW v \in Workers, NEW d \in Calls PROVE GenuineCall(v, d)'
    <3>1. CASE v = w
      BY <2>2, <3>1, IdleGenuine DEF Afresh, Completing
    <3>2. CASE v # w
      BY <2>2, <3>2 DEF Afresh, GenuineInv, GenuineCall
    <3> QED
      BY <3>1, <3>2
  <2> QED
    BY <2>1, <2>3 DEF GenuineInv
<1>13. ASSUME NEW w \in Workers, EndRound(w) PROVE GenuineInv'
  BY <1>13 DEF EndRound, GenuineInv, GenuineRow, GenuineCall, Complete, history
<1>14. ASSUME NEW w \in Workers, Crash(w) PROVE GenuineInv'
  <2>1. Remembers /\ \A k \in Keys : GenuineRow(k)'
    BY <1>14, SameRowsGenuine DEF Crash, Remembers, history
  <2>2. Afresh(w) /\ UNCHANGED outcomes
    BY <1>14, ResetDoes DEF Crash, Reset, history
  <2>3. ASSUME NEW v \in Workers, NEW d \in Calls PROVE GenuineCall(v, d)'
    <3>1. CASE v = w
      BY <2>2, <3>1, IdleGenuine DEF Afresh, Completing
    <3>2. CASE v # w
      BY <2>2, <3>2 DEF Afresh, GenuineInv, GenuineCall
    <3> QED
      BY <3>1, <3>2
  <2> QED
    BY <2>1, <2>3 DEF GenuineInv
<1>15. ASSUME PurgeJournal PROVE GenuineInv'
  BY <1>15 DEF PurgeJournal, GenuineInv, GenuineRow, GenuineCall, Complete, Results, history
<1>16. CASE UNCHANGED vars
  BY <1>16 DEF vars, GenuineInv, GenuineRow, GenuineCall, Complete
<1> QED
  BY <1>1, <1>2, <1>3, <1>4, <1>5, <1>6, <1>7, <1>8, <1>9,
     <1>10, <1>11, <1>12, <1>13, <1>14, <1>15, <1>16
  DEF Next, RunOneStep

-----------------------------------------------------------------------------
(* The owner of a key.                                                     *)

\* A step of a call leaves the other keys alone.
LEMMA OtherKeys ==
    ASSUME OwnerInv, NEW w \in Workers, NEW c \in Calls, Others(w, c),
           \A k \in Keys \ {KeyOf[c]} :
              journal'[k] = journal[k] /\ takeovers'[k] = takeovers[k],
           UNCHANGED purges, OwnerOf(KeyOf[c])'
    PROVE  OwnerInv'
<1> SUFFICES ASSUME NEW k \in Keys, k # KeyOf[c], Undisturbed(k)'
             PROVE  /\ OneOwner(k)'
                    /\ \A v \in Workers, d \in Calls : KeyOf[d] = k => OwnerCall(k, v, d)'
  BY DEF OwnerInv, OwnerOf
<1>1. \A v \in Workers, d \in Calls : KeyOf[d] = k => call'[v][d] = call[v][d]
  BY DEF Others
<1>2. /\ OneOwner(k)
      /\ \A v \in Workers, d \in Calls : KeyOf[d] = k => OwnerCall(k, v, d)
  BY DEF OwnerInv, OwnerOf, Undisturbed
<1>3. journal'[k] = journal[k]
  OBVIOUS
<1>4. OneOwner(k)'
  BY <1>1, <1>2 DEF OneOwner
<1> QED
  BY <1>1, <1>2, <1>3, <1>4 DEF OwnerCall, Complete

\* A call whose key is undisturbed knows the row as its owner does.
LEMMA OwnerKnows ==
    ASSUME OwnerInv, NEW w \in Workers, NEW c \in Calls, Undisturbed(KeyOf[c])
    PROVE  /\ OneOwner(KeyOf[c])
           /\ \A v \in Workers, d \in Calls : KeyOf[d] = KeyOf[c] => OwnerCall(KeyOf[c], v, d)
           /\ OwnerCall(KeyOf[c], w, c)
  BY ConstantTypes DEF OwnerInv, OwnerOf

\* A call that runs the tool has claimed it, or its key is disturbed.
LEMMA RunnerClaimed ==
    ASSUME WayInv, NEW w \in Workers, NEW c \in Calls, Undisturbed(KeyOf[c]),
           call[w][c].pc \in Completing \cup {"executing"}
    PROVE  call[w][c].way = "claim"
  BY DEF WayInv, Undisturbed

\* A call that neither claims nor replays, before and after a step that leaves
\* the tables alone, changes nothing for its key.
LEMMA QuietOwner ==
    ASSUME OwnerInv, NEW w \in Workers, NEW c \in Calls, Others(w, c),
           UNCHANGED <<journal, takeovers, purges>>,
           call[w][c].way = "none", call'[w][c].way = "none", call'[w][c].pc # "inserting"
    PROVE  OwnerInv'
<1>1. SUFFICES ASSUME Undisturbed(KeyOf[c])' PROVE OwnerOf(KeyOf[c])'
  BY OtherKeys DEF OwnerOf
<1>2. Undisturbed(KeyOf[c])
  BY <1>1 DEF Undisturbed
<1>3. OneOwner(KeyOf[c])'
  BY <1>2, OwnerKnows DEF OneOwner, Others
<1>4. ASSUME NEW v \in Workers, NEW d \in Calls, KeyOf[d] = KeyOf[c]
      PROVE  OwnerCall(KeyOf[c], v, d)'
  <2>1. CASE v = w /\ d = c
    BY <2>1 DEF OwnerCall
  <2>2. CASE v # w \/ d # c
    BY <1>2, <1>4, <2>2, OwnerKnows DEF OwnerCall, Others, Complete
  <2> QED
    BY <2>1, <2>2
<1> QED
  BY <1>3, <1>4 DEF OwnerOf

\* A call that looks at a complete row and replays it agrees with its owner.
LEMMA ReplayOwner ==
    ASSUME OwnerInv, NEW w \in Workers, NEW c \in Calls, Others(w, c),
           UNCHANGED <<journal, takeovers, purges>>, Complete(KeyOf[c]),
           call'[w][c].way = "replay", call'[w][c].pc = "done",
           call'[w][c].obs = journal[KeyOf[c]]
    PROVE  OwnerInv'
<1>1. SUFFICES ASSUME Undisturbed(KeyOf[c])' PROVE OwnerOf(KeyOf[c])'
  BY OtherKeys DEF OwnerOf
<1>2. Undisturbed(KeyOf[c])
  BY <1>1 DEF Undisturbed
<1>3. OneOwner(KeyOf[c])'
  BY <1>2, OwnerKnows DEF OneOwner, Others
<1>4. ASSUME NEW v \in Workers, NEW d \in Calls, KeyOf[d] = KeyOf[c]
      PROVE  OwnerCall(KeyOf[c], v, d)'
  <2>1. CASE v = w /\ d = c
    BY <2>1 DEF OwnerCall, Complete
  <2>2. CASE v # w \/ d # c
    BY <1>2, <1>4, <2>2, OwnerKnows DEF OwnerCall, Others, Complete
  <2> QED
    BY <2>1, <2>2
<1> QED
  BY <1>3, <1>4 DEF OwnerOf

\* The owner runs: the row is its placeholder and stays so.
LEMMA RunningOwner ==
    ASSUME WayInv, OwnerInv, NEW w \in Workers, NEW c \in Calls, Others(w, c),
           UNCHANGED <<journal, takeovers, purges>>,
           call[w][c].pc \in Completing \cup {"executing"},
           call'[w][c].way = call[w][c].way,
           Undisturbed(KeyOf[c]) => call'[w][c].pc # "inserting"
    PROVE  OwnerInv'
<1>1. SUFFICES ASSUME Undisturbed(KeyOf[c])' PROVE OwnerOf(KeyOf[c])'
  BY OtherKeys DEF OwnerOf
<1>2. Undisturbed(KeyOf[c])
  BY <1>1 DEF Undisturbed
<1>3. OneOwner(KeyOf[c])'
  BY <1>2, OwnerKnows DEF OneOwner, Others
<1>4. call[w][c].way = "claim" /\ ~Complete(KeyOf[c]) /\ journal[KeyOf[c]] # "absent"
  BY <1>2, RunnerClaimed, OwnerKnows DEF OwnerCall, Completing
<1>5. ASSUME NEW v \in Workers, NEW d \in Calls, KeyOf[d] = KeyOf[c]
      PROVE  OwnerCall(KeyOf[c], v, d)'
  <2>1. CASE v = w /\ d = c
    BY <1>2, <1>4, <2>1 DEF OwnerCall, Complete
  <2>2. CASE v # w \/ d # c
    BY <1>2, <1>5, <2>2, OwnerKnows DEF OwnerCall, Others, Complete
  <2> QED
    BY <2>1, <2>2
<1> QED
  BY <1>3, <1>5 DEF OwnerOf

\* Every step keeps the owners.
LEMMA OwnerStep ==
    CallType /\ RestType /\ WayInv /\ OwnerInv /\ [Next]_vars => OwnerInv'
<1> SUFFICES ASSUME CallType, RestType, WayInv, OwnerInv, [Next]_vars PROVE OwnerInv'
  OBVIOUS
<1> USE ConstantTypes, FieldTypes DEF PCs, Ways
<1>1. ASSUME NEW w \in Workers, NEW c \in Calls, Acquire(w, c) PROVE OwnerInv'
  <2>1. /\ Others(w, c) /\ UNCHANGED <<journal, takeovers, purges>>
        /\ call[w][c].way = "none" /\ call'[w][c].way = "none" /\ call'[w][c].pc # "inserting"
    BY <1>1, GotoDoes DEF Acquire, WayInv, Before, history
  <2> QED
    BY <2>1, QuietOwner
<1>2. ASSUME NEW w \in Workers, NEW c \in Calls, TryClaim(w, c) PROVE OwnerInv'
  <2>1. CASE journal[KeyOf[c]] = "absent"
    <3>1. /\ Others(w, c) /\ call'[w][c].pc = "executing" /\ call'[w][c].way = "claim"
          /\ UNCHANGED <<takeovers, purges>>
      BY <1>2, <2>1, StartDoes DEF TryClaim
    <3>2. /\ journal'[KeyOf[c]] = "in_flight"
          /\ \A k \in Keys \ {KeyOf[c]} : journal'[k] = journal[k]
      BY <1>2, <2>1 DEF TryClaim, RestType
    <3>3. SUFFICES ASSUME Undisturbed(KeyOf[c])' PROVE OwnerOf(KeyOf[c])'
      BY <3>1, <3>2, OtherKeys DEF OwnerOf
    <3>4. \A v \in Workers, d \in Calls :
            KeyOf[d] = KeyOf[c] => /\ call[v][d].way \notin {"claim", "replay"}
                                   /\ call[v][d].pc # "inserting"
      BY <2>1, <3>1, <3>3, OwnerKnows DEF Undisturbed, OwnerCall, Complete, Results
    <3>5. OneOwner(KeyOf[c])'
      BY <3>1, <3>4 DEF OneOwner, Others
    <3>6. ASSUME NEW v \in Workers, NEW d \in Calls, KeyOf[d] = KeyOf[c]
          PROVE  OwnerCall(KeyOf[c], v, d)'
      BY <3>1, <3>2, <3>4, <3>6 DEF OwnerCall, Complete, Results, Others
    <3> QED
      BY <3>5, <3>6 DEF OwnerOf
  <2>2. CASE journal[KeyOf[c]] # "absent"
    <3>1. /\ Others(w, c) /\ UNCHANGED <<journal, takeovers, purges>>
          /\ call[w][c].way = "none" /\ call'[w][c].way = "none"
          /\ call'[w][c].pc # "inserting"
      BY <1>2, <2>2, GotoDoes DEF TryClaim, WayInv, Before
    <3> QED
      BY <3>1, QuietOwner
  <2> QED
    BY <2>1, <2>2
<1>3. ASSUME NEW w \in Workers, NEW c \in Calls, ReadConflict(w, c) PROVE OwnerInv'
  <2>1. CASE Complete(KeyOf[c])
    <3>1. /\ Others(w, c) /\ UNCHANGED <<journal, takeovers, purges>>
          /\ call'[w][c].pc = "done" /\ call'[w][c].way = "replay"
          /\ call'[w][c].obs = journal[KeyOf[c]]
      BY <1>3, <2>1, ObserveDoes DEF ReadConflict, Complete, history
    <3> QED
      BY <2>1, <3>1, ReplayOwner
  <2>2. CASE ~Complete(KeyOf[c])
    <3>1. /\ Others(w, c) /\ UNCHANGED <<journal, takeovers, purges>>
          /\ call[w][c].way = "none" /\ call'[w][c].way = "none"
          /\ call'[w][c].pc # "inserting"
      BY <1>3, <2>2, GotoDoes DEF ReadConflict, WayInv, Before, history
    <3> QED
      BY <3>1, QuietOwner
  <2> QED
    BY <2>1, <2>2
<1>4. ASSUME NEW w \in Workers, NEW c \in Calls, PollHits(w, c) PROVE OwnerInv'
  <2>1. /\ Others(w, c) /\ UNCHANGED <<journal, takeovers, purges>>
        /\ call'[w][c].pc = "done" /\ call'[w][c].way = "replay"
        /\ call'[w][c].obs = journal[KeyOf[c]]
    BY <1>4, ObserveDoes DEF PollHits, Complete, history
  <2> QED
    BY <1>4, <2>1, ReplayOwner DEF PollHits
<1>5. ASSUME NEW w \in Workers, NEW c \in Calls, GiveUp(w, c) PROVE OwnerInv'
  <2>1. /\ Others(w, c) /\ UNCHANGED <<journal, takeovers, purges>>
        /\ call[w][c].way = "none" /\ call'[w][c].way = "none" /\ call'[w][c].pc # "inserting"
    BY <1>5, GotoDoes DEF GiveUp, WayInv, Before, history
  <2> QED
    BY <2>1, QuietOwner
<1>6. ASSUME NEW w \in Workers, NEW c \in Calls, TakeOver(w, c) PROVE OwnerInv'
  <2>1. Others(w, c) /\ UNCHANGED <<journal, purges>>
    BY <1>6, StartDoes DEF TakeOver
  <2>2. /\ takeovers'[KeyOf[c]] # 0
        /\ \A k \in Keys \ {KeyOf[c]} : takeovers'[k] = takeovers[k]
    BY <1>6 DEF TakeOver, RestType
  <2> QED
    BY <2>1, <2>2, OtherKeys DEF OwnerOf, Undisturbed
<1>7. ASSUME NEW w \in Workers, NEW c \in Calls, ExecuteCall(w, c) PROVE OwnerInv'
  <2>1. PICK o \in Results : Records(w, c, o)
    BY <1>7 DEF ExecuteCall, Records
  <2>2. /\ Others(w, c) /\ call'[w][c].pc = "recording" /\ call'[w][c].way = call[w][c].way
    BY <2>1, RecordDoes
  <2> QED
    BY <1>7, <2>2, RunningOwner DEF ExecuteCall
<1>8. ASSUME NEW w \in Workers, NEW c \in Calls, ExecuteCallRaises(w, c) PROVE OwnerInv'
  <2>1. /\ Others(w, c) /\ call'[w][c].pc = "done" /\ call'[w][c].way = call[w][c].way
    BY <1>8, ObserveDoes DEF ExecuteCallRaises
  <2> QED
    BY <1>8, <2>1, RunningOwner DEF ExecuteCallRaises, history
<1>9. ASSUME NEW w \in Workers, NEW c \in Calls, ReadForCompletion(w, c) PROVE OwnerInv'
  <2>1. Others(w, c) /\ call'[w][c].way = call[w][c].way
    BY <1>9, GotoDoes DEF ReadForCompletion
  <2>2. call[w][c].pc \in Completing /\ UNCHANGED <<journal, takeovers, purges>>
    BY <1>9 DEF ReadForCompletion, Completing, history
  <2>3. Undisturbed(KeyOf[c]) => journal[KeyOf[c]] # "absent"
    BY <2>2, RunnerClaimed, OwnerKnows DEF OwnerCall
  <2>4. journal[KeyOf[c]] # "absent" => call'[w][c].pc # "inserting"
    BY <1>9, GotoDoes DEF ReadForCompletion
  <2> QED
    BY <2>1, <2>2, <2>3, <2>4, RunningOwner
<1>10. ASSUME NEW w \in Workers, NEW c \in Calls, InsertCompletion(w, c) PROVE OwnerInv'
  <2>1. Others(w, c) /\ UNCHANGED <<takeovers, purges>>
    BY <1>10, GotoDoes DEF InsertCompletion, history
  <2>2. \A k \in Keys \ {KeyOf[c]} : journal'[k] = journal[k]
    BY <1>10 DEF InsertCompletion, RestType
  <2>3. ~Undisturbed(KeyOf[c])
    BY <1>10, OwnerKnows DEF InsertCompletion, OwnerCall
  <2> QED
    BY <2>1, <2>2, <2>3, OtherKeys DEF OwnerOf, Undisturbed
<1>11. ASSUME NEW w \in Workers, NEW c \in Calls, UpdateCompletion(w, c) PROVE OwnerInv'
  <2>1. CASE journal[KeyOf[c]] # "absent"
    <3>1. /\ Others(w, c) /\ call'[w][c].pc = "done" /\ UNCHANGED <<takeovers, purges>>
          /\ call'[w][c].way = call[w][c].way /\ call'[w][c].obs = call[w][c].obs
      BY <1>11, <2>1, GotoDoes DEF UpdateCompletion, history
    <3>2. /\ journal'[KeyOf[c]] = Stored(call[w][c].obs)
          /\ \A k \in Keys \ {KeyOf[c]} : journal'[k] = journal[k]
      BY <1>11, <2>1 DEF UpdateCompletion, RestType
    <3>3. call[w][c].pc = "updating" /\ call[w][c].pc \in Completing
      BY <1>11 DEF UpdateCompletion, Completing
    <3>4. SUFFICES ASSUME Undisturbed(KeyOf[c])' PROVE OwnerOf(KeyOf[c])'
      BY <3>1, <3>2, OtherKeys DEF OwnerOf
    <3>5. Undisturbed(KeyOf[c])
      BY <3>1, <3>4 DEF Undisturbed
    <3>6. call[w][c].way = "claim" /\ ~Complete(KeyOf[c])
      BY <3>3, <3>5, RunnerClaimed, OwnerKnows DEF OwnerCall
    <3>7. OneOwner(KeyOf[c])'
      BY <3>1, <3>5, OwnerKnows DEF OneOwner, Others
    <3>8. Stored(call[w][c].obs) \in Results
      BY <3>3, StoredIsResult DEF WayInv
    <3>9. ASSUME NEW v \in Workers, NEW d \in Calls, KeyOf[d] = KeyOf[c]
          PROVE  OwnerCall(KeyOf[c], v, d)'
      <4>1. CASE v = w /\ d = c
        BY <3>1, <3>2, <3>6, <3>8, <4>1 DEF OwnerCall, Complete, Results
      <4>2. CASE v # w \/ d # c
        <5>1. call[v][d].way # "claim"
          BY <3>5, <3>6, <3>9, <4>2, OwnerKnows DEF OneOwner
        <5>2. call[v][d].way # "replay" /\ call[v][d].pc # "inserting"
          BY <3>5, <3>6, <3>9, OwnerKnows DEF OwnerCall
        <5> QED
          BY <3>1, <4>2, <5>1, <5>2 DEF OwnerCall, Others
      <4> QED
        BY <4>1, <4>2
    <3> QED
      BY <3>7, <3>9 DEF OwnerOf
  <2>2. CASE journal[KeyOf[c]] = "absent"
    <3>1. /\ Others(w, c) /\ call'[w][c].pc = "done" /\ call'[w][c].way = call[w][c].way
          /\ UNCHANGED <<journal, takeovers, purges>>
      BY <1>11, <2>2, ObserveDoes DEF UpdateCompletion, history
    <3> QED
      BY <1>11, <3>1, RunningOwner DEF UpdateCompletion, Completing
  <2> QED
    BY <2>1, <2>2
<1>12. ASSUME NEW w \in Workers, BeginRound(w) PROVE OwnerInv'
  <2>1. Reset(w) /\ UNCHANGED <<journal, takeovers, purges>>
    BY <1>12 DEF BeginRound, Reset, history
  <2>2. Afresh(w)
    BY <2>1, ResetDoes
  <2> SUFFICES ASSUME NEW k \in Keys, Undisturbed(k)
               PROVE  /\ OneOwner(k)'
                      /\ \A v \in Workers, d \in Calls : KeyOf[d] = k => OwnerCall(k, v, d)'
    BY <2>1 DEF OwnerInv, OwnerOf, Undisturbed
  <2>3. OneOwner(k)'
    BY <2>2 DEF OwnerInv, OwnerOf, OneOwner, Afresh
  <2>4. ASSUME NEW v \in Workers, NEW d \in Calls, KeyOf[d] = k PROVE OwnerCall(k, v, d)'
    <3>1. CASE v = w
      BY <2>2, <3>1 DEF Afresh, OwnerCall
    <3>2. CASE v # w
      BY <2>1, <2>2, <2>4, <3>2 DEF Afresh, OwnerInv, OwnerOf, OwnerCall, Complete
    <3> QED
      BY <3>1, <3>2
  <2> QED
    BY <2>3, <2>4
<1>13. ASSUME NEW w \in Workers, EndRound(w) PROVE OwnerInv'
  BY <1>13 DEF EndRound, OwnerInv, OwnerOf, OneOwner, OwnerCall, Undisturbed, Complete, history
<1>14. ASSUME NEW w \in Workers, Crash(w) PROVE OwnerInv'
  <2>1. Reset(w) /\ UNCHANGED <<journal, takeovers, purges>>
    BY <1>14 DEF Crash, Reset, history
  <2>2. Afresh(w)
    BY <2>1, ResetDoes
  <2> SUFFICES ASSUME NEW k \in Keys, Undisturbed(k)
               PROVE  /\ OneOwner(k)'
                      /\ \A v \in Workers, d \in Calls : KeyOf[d] = k => OwnerCall(k, v, d)'
    BY <2>1 DEF OwnerInv, OwnerOf, Undisturbed
  <2>3. OneOwner(k)'
    BY <2>2 DEF OwnerInv, OwnerOf, OneOwner, Afresh
  <2>4. ASSUME NEW v \in Workers, NEW d \in Calls, KeyOf[d] = k PROVE OwnerCall(k, v, d)'
    <3>1. CASE v = w
      BY <2>2, <3>1 DEF Afresh, OwnerCall
    <3>2. CASE v # w
      BY <2>1, <2>2, <2>4, <3>2 DEF Afresh, OwnerInv, OwnerOf, OwnerCall, Complete
    <3> QED
      BY <3>1, <3>2
  <2> QED
    BY <2>3, <2>4
<1>15. ASSUME PurgeJournal PROVE OwnerInv'
  BY <1>15 DEF PurgeJournal, RestType, OwnerInv, OwnerOf, Undisturbed
<1>16. CASE UNCHANGED vars
  BY <1>16 DEF vars, OwnerInv, OwnerOf, OneOwner, OwnerCall, Undisturbed, Complete
<1> QED
  BY <1>1, <1>2, <1>3, <1>4, <1>5, <1>6, <1>7, <1>8, <1>9,
     <1>10, <1>11, <1>12, <1>13, <1>14, <1>15, <1>16
  DEF Next, RunOneStep

-----------------------------------------------------------------------------
(* The theorems.                                                           *)

\* The invariant holds at first.
LEMMA InitInv == Init => IInv
<1> SUFFICES ASSUME Init PROVE IInv
  OBVIOUS
<1>1. NotStarted \in RunOne /\ NotStarted.pc = "waiting" /\ NotStarted.way = "none"
  BY DEF NotStarted, RunOne, PCs, Ways
<1>2. \A w \in Workers, c \in Calls : call[w][c] = NotStarted
  BY DEF Init
<1>3. TypeOK
  BY <1>1, ConstantTypes DEF Init, TypeOK, Rows
<1>4. \A w \in Workers, c \in Calls : call[w][c].pc = "waiting" /\ call[w][c].way = "none"
  BY <1>1, <1>2
<1>5. ClaimInv
  BY DEF Init, ClaimInv
<1>6. WayInv
  BY <1>4 DEF WayInv, Completing
<1>7. GenuineInv
  BY <1>4 DEF Init, GenuineInv, GenuineRow, GenuineCall, Complete, Completing, Results
<1>8. OwnerInv
  BY <1>4 DEF OwnerInv, OwnerOf, OneOwner, OwnerCall
<1> QED
  BY <1>3, <1>5, <1>6, <1>7, <1>8 DEF IInv

\* Every step keeps the invariant.
LEMMA StepInv == IInv /\ [Next]_vars => IInv'
<1> SUFFICES ASSUME IInv, [Next]_vars PROVE IInv'
  OBVIOUS
<1>1. CallType /\ RestType
  BY TypeParts DEF IInv
<1>2. ObsType
  BY DEF IInv, WayInv, ObsType
<1>3. CallType' /\ RestType'
  BY <1>1, <1>2, CallStep, RestStep
<1>4. TypeOK'
  BY <1>3 DEF TypeOK, CallType, RestType
<1>5. ClaimInv' /\ WayInv'
  BY <1>1, <1>2, ClaimStep, WayStep DEF IInv
<1>6. GenuineInv' /\ OwnerInv'
  BY <1>1, GenuineStep, OwnerStep DEF IInv
<1> QED
  BY <1>4, <1>5, <1>6 DEF IInv

\* IInv is an invariant.
LEMMA Invariance == Spec => []IInv
<1>1. Init => IInv
  BY InitInv
<1>2. IInv /\ [Next]_vars => IInv'
  BY StepInv
<1> QED
  BY <1>1, <1>2, PTL DEF Spec

\* The variables of the round and the journal always have their types.
THEOREM TypeCorrect == Spec => []TypeOK
<1>1. IInv => TypeOK
  BY DEF IInv
<1> QED
  BY <1>1, Invariance, PTL

\* However many workers run the round, and wherever they are killed,
\* try_claim_tool_execution lets a tool start once per key, and once more only
\* for each claim taken over and each deletion of the journal.
THEOREM StartsAreClaimed == Spec => []StartsAccountedFor
<1>1. IInv => StartsAccountedFor
  <2> SUFFICES ASSUME IInv, NEW k \in Keys PROVE started[k] <= 1 + takeovers[k] + purges
    BY DEF StartsAccountedFor
  <2>1. started[k] \in Nat /\ takeovers[k] \in Nat /\ purges \in Nat
    BY ConstantTypes DEF IInv, TypeOK
  <2>2. started[k] <= takeovers[k] + purges + (IF journal[k] = "absent" THEN 0 ELSE 1)
    BY DEF IInv, ClaimInv
  <2> QED
    BY <2>1, <2>2
<1> QED
  BY <1>1, Invariance, PTL

\* What tool_executor_node replays from a row is the outcome of an execution
\* of that key, as far as the row can hold it.
THEOREM ReplaysAreGenuine == Spec => []ReplayIsGenuine
<1>1. IInv => ReplayIsGenuine
  BY DEF IInv, GenuineInv, GenuineCall, ReplayIsGenuine
<1> QED
  BY <1>1, Invariance, PTL

\* As long as no claim of a key is taken over and nothing is deleted, all
\* calls with that key, in all workers and after any number of kills, end with
\* the same observation, up to what the row keeps of it.
THEOREM ObserversDoAgree == Spec => []ObserversAgree
<1>1. IInv => ObserversAgree
  <2>1. SUFFICES ASSUME IInv, NEW v \in Workers, NEW w \in Workers,
                        NEW c \in Calls, NEW d \in Calls, KeyOf[c] = KeyOf[d],
                        takeovers[KeyOf[c]] + purges = 0,
                        call[v][c].pc = "done", call[w][d].pc = "done"
                 PROVE  Stored(call[v][c].obs) = Stored(call[w][d].obs)
    BY DEF ObserversAgree
  <2> DEFINE k == KeyOf[c]
  <2>2. k \in Keys /\ takeovers[k] \in Nat /\ purges \in Nat
    BY <2>1, ConstantTypes DEF IInv, TypeOK
  <2>3. Undisturbed(k)
    BY <2>1, <2>2 DEF Undisturbed
  <2>4. OneOwner(k) /\ OwnerCall(k, v, c) /\ OwnerCall(k, w, d)
    BY <2>1, <2>2, <2>3 DEF IInv, OwnerInv, OwnerOf
  <2>5. /\ call[v][c].way \in Ways \ {"none", "takeover"}
        /\ call[w][d].way \in Ways \ {"none", "takeover"}
    <3>1. CallType
      BY <2>1 DEF IInv, TypeOK, CallType
    <3> QED
      BY <2>1, <2>3, <3>1, FieldTypes DEF IInv, WayInv, Undisturbed
  <2>6. Complete(k) => Stored(journal[k]) = journal[k]
    <3>1. ASSUME Complete(k)
          PROVE  \E o \in Results : journal[k] = Stored(o)
      BY <2>1, <2>2, <3>1 DEF IInv, GenuineInv, GenuineRow, TypeOK
    <3> QED
      BY <3>1, StoredIsResult
  <2>7. CASE call[v][c].way = "claim" /\ call[w][d].way = "claim"
    BY <2>1, <2>4, <2>7 DEF OneOwner
  <2>8. CASE call[v][c].way = "replay" \/ call[w][d].way = "replay"
    <3>1. Complete(k)
      BY <2>4, <2>8 DEF OwnerCall
    <3>2. Stored(call[v][c].obs) = journal[k] /\ Stored(call[w][d].obs) = journal[k]
      BY <2>4, <2>5, <2>6, <3>1 DEF OwnerCall, Ways
    <3> QED
      BY <3>2
  <2> QED
    BY <2>5, <2>7, <2>8 DEF Ways
<1> QED
  BY <1>1, Invariance, PTL
=============================================================================
