-------------------------- MODULE AdmissionProofs --------------------------
(***************************************************************************)
(* Admission implements DailyQuota and keeps the token quota, for any      *)
(* finite set of requests, any tenants, limits and number of days.         *)
(*                                                                         *)
(* A request takes its place when it passes count_tasks_since for all      *)
(* tenants.  The count of that step bounds all places of the day.  The     *)
(* count of its own tenant was an earlier step, so TenantInv remembers it: *)
(* the requests past it are within the limit, because each that passed     *)
(* counted the others that had passed before, and none comes back.         *)
(*                                                                         *)
(* The token quota is a sum over the admitted tasks, so the facts about    *)
(* sums over finite sets that it needs come first.  TokenInv adds to the   *)
(* quota what a check knows between its two sums: the first one covers the *)
(* tasks that are over, and the second reserves for all others.  A task    *)
(* that used more than its reservation is charged with that only: the sum  *)
(* of a later check holds all it used, which is no less.                   *)
(***************************************************************************)
EXTENDS Admission, FiniteSetTheorems, TLAPS

Holding == {"sumUsed", "sumReserved", "passed", "admitted"}

\* r holds a place of day d.
Holds(r, d) == pc[r] \in Holding /\ CheckedFor(r, d)

\* The requests of tenant k that passed the count of the tenant for day d.
PastTenant(k, d) ==
    {r \in Reqs : /\ pc[r] \in Holding \cup {"countGlobal"}
                  /\ CheckedFor(r, d)
                  /\ TenantOf[r] = k}

HandlerType ==
    /\ today \in Days
    /\ pc \in [Reqs -> PCs]
    /\ since \in [Reqs -> Days]
    /\ row \in [Reqs -> {"absent", "active", "over"}]
    /\ created \in [Reqs -> Days]

TenantInv == \A k \in Tenants, d \in Days : Cardinality(PastTenant(k, d)) <= TenantLimit

-----------------------------------------------------------------------------
(* What the steps do to types and places.                                  *)

\* The constants of the proofs below.
LEMMA Constants ==
    /\ IsFiniteSet(Reqs)
    /\ TenantLimit \in Nat \ {0}
    /\ GlobalLimit \in Nat \ {0}
    /\ LastDay \in Nat
    /\ \A r \in Reqs : TenantOf[r] \in Tenants
  BY AdmissionAssumption DEF AdmissionAssumption

\* Every step has one of these forms: it changes no handler or row that matters,
\* only those of one request, or the day.
OnlyOf(r) ==
    /\ today' = today
    /\ \A q \in Reqs \ {r} : /\ pc'[q] = pc[q] /\ since'[q] = since[q]
                             /\ row'[q] = row[q] /\ created'[q] = created[q]

\* A step of a request or of its task touches no other handler and no other row.
LEMMA StepsAreLocal ==
    ASSUME HandlerType, NEW r \in Reqs,
           Handler(r) \/ TaskEnds(r) \/ TaskResumes(r) \/ TaskDeleted(r)
    PROVE  OnlyOf(r)
<1> USE DEF HandlerType, OnlyOf
<1>1. CASE InsertRow(r)
  BY <1>1 DEF InsertRow, Goto
<1>2. CASE BeginChecks(r)
  BY <1>2 DEF BeginChecks, Goto, rows
<1>3. CASE CountTenant(r)
  BY <1>3 DEF CountTenant, Check, Goto, rows
<1>4. CASE CountGlobal(r)
  BY <1>4 DEF CountGlobal, Check, Goto, rows
<1>5. CASE SumUsed(r)
  BY <1>5 DEF SumUsed, Goto, rows
<1>6. CASE SumReserved(r)
  BY <1>6 DEF SumReserved, Check, Goto, rows
<1>7. CASE RollBack(r)
  BY <1>7 DEF RollBack, DeleteRow, Goto
<1>8. CASE Submit(r)
  BY <1>8 DEF Submit, Goto, rows
<1>9. CASE HandlerDies(r)
  BY <1>9 DEF HandlerDies, Goto, rows
<1>10. CASE TaskEnds(r)
  BY <1>10 DEF TaskEnds, handlers
<1>11. CASE TaskResumes(r)
  BY <1>11 DEF TaskResumes, handlers
<1>12. CASE TaskDeleted(r)
  BY <1>12 DEF TaskDeleted, DeleteRow, handlers
<1> QED
  BY <1>1, <1>2, <1>3, <1>4, <1>5, <1>6, <1>7, <1>8, <1>9, <1>10, <1>11, <1>12 DEF Handler

\* How a step of r changes the place that r has or is about to get: it takes one
\* (CountGlobal), it comes past the count of its tenant (CountTenant), it stays
\* where it is, or it has none afterwards.
Stays(r) ==
    /\ pc[r] \in Holding <=> pc'[r] \in Holding
    /\ pc[r] = "countGlobal" <=> pc'[r] = "countGlobal"
    /\ \A d \in Days : CheckedFor(r, d)' <=> CheckedFor(r, d)

Outside(r) ==
    \/ pc'[r] \notin Holding \cup {"countGlobal"}
    \/ \A d \in Days : ~CheckedFor(r, d)'

PassesTenant(r) ==
    /\ pc[r] = "countTenant" /\ pc'[r] = "countGlobal"
    /\ Cardinality(CountedOfTenant(r)) <= TenantLimit
    /\ UNCHANGED <<since, row, created>>

PassesGlobal(r) ==
    /\ pc[r] = "countGlobal" /\ pc'[r] = "sumUsed"
    /\ Cardinality(Counted(r)) <= GlobalLimit
    /\ UNCHANGED <<since, row, created>>

\* Every step of a request or of its task has one of the four forms.
LEMMA FormsOfSteps ==
    ASSUME HandlerType, NEW r \in Reqs,
           Handler(r) \/ TaskEnds(r) \/ TaskResumes(r) \/ TaskDeleted(r)
    PROVE  Stays(r) \/ Outside(r) \/ PassesTenant(r) \/ PassesGlobal(r)
<1> USE DEF HandlerType
<1>1. CASE InsertRow(r)
  BY <1>1 DEF InsertRow, Goto, Outside, Holding
<1>2. CASE BeginChecks(r)
  BY <1>2 DEF BeginChecks, Goto, Outside, Holding
<1>3. CASE CountTenant(r)
  BY <1>3 DEF CountTenant, Check, Goto, rows, Outside, PassesTenant, Holding
<1>4. CASE CountGlobal(r)
  BY <1>4 DEF CountGlobal, Check, Goto, rows, Outside, PassesGlobal, Holding
<1>5. CASE SumUsed(r)
  BY <1>5 DEF SumUsed, Goto, rows, Stays, Holding, CheckedFor
<1>6. CASE SumReserved(r)
  BY <1>6 DEF SumReserved, Check, Goto, rows, Stays, Outside, Holding, CheckedFor
<1>7. CASE RollBack(r)
  BY <1>7 DEF RollBack, Goto, Outside, Holding
<1>8. CASE Submit(r)
  BY <1>8 DEF Submit, Goto, rows, Stays, Holding, CheckedFor
<1>9. CASE HandlerDies(r)
  BY <1>9 DEF HandlerDies, Goto, Outside, Holding
<1>10. CASE TaskEnds(r)
  BY <1>10 DEF TaskEnds, handlers, Stays, CheckedFor
<1>11. CASE TaskResumes(r)
  BY <1>11 DEF TaskResumes, handlers, Stays, CheckedFor
<1>12. CASE TaskDeleted(r)
  BY <1>12 DEF TaskDeleted, DeleteRow, Outside, CheckedFor
<1> QED
  BY <1>1, <1>2, <1>3, <1>4, <1>5, <1>6, <1>7, <1>8, <1>9, <1>10, <1>11, <1>12 DEF Handler

-----------------------------------------------------------------------------
(* Types.                                                                  *)

\* The initial state is well typed.
LEMMA TypeInit == Init => HandlerType
  BY Constants DEF Init, HandlerType, Days, PCs

\* Every step keeps the types of handlers and rows.
LEMMA TypeStep == HandlerType /\ [Next]_vars => HandlerType'
<1> SUFFICES ASSUME HandlerType, [Next]_vars PROVE HandlerType'
  OBVIOUS
<1> USE DEF HandlerType
<1>0. 0 \in Days
  BY Constants DEF Days
<1>1. ASSUME NEW r \in Reqs, InsertRow(r) PROVE HandlerType'
  BY <1>1 DEF InsertRow, Goto, PCs
<1>2. ASSUME NEW r \in Reqs, BeginChecks(r) PROVE HandlerType'
  BY <1>2 DEF BeginChecks, Goto, rows, PCs
<1>3. ASSUME NEW r \in Reqs, CountTenant(r) PROVE HandlerType'
  BY <1>3 DEF CountTenant, Check, Goto, rows, PCs
<1>4. ASSUME NEW r \in Reqs, CountGlobal(r) PROVE HandlerType'
  BY <1>4 DEF CountGlobal, Check, Goto, rows, PCs
<1>5. ASSUME NEW r \in Reqs, SumUsed(r) PROVE HandlerType'
  BY <1>5 DEF SumUsed, Goto, rows, PCs
<1>6. ASSUME NEW r \in Reqs, SumReserved(r) PROVE HandlerType'
  BY <1>6 DEF SumReserved, Check, Goto, rows, PCs
<1>7. ASSUME NEW r \in Reqs, RollBack(r) PROVE HandlerType'
  BY <1>0, <1>7 DEF RollBack, DeleteRow, Goto, PCs
<1>8. ASSUME NEW r \in Reqs, Submit(r) PROVE HandlerType'
  BY <1>8 DEF Submit, Goto, rows, PCs
<1>9. ASSUME NEW r \in Reqs, HandlerDies(r) PROVE HandlerType'
  BY <1>9 DEF HandlerDies, Goto, rows, PCs
<1>10. ASSUME NEW r \in Reqs, TaskEnds(r) PROVE HandlerType'
  BY <1>10 DEF TaskEnds, handlers
<1>11. ASSUME NEW r \in Reqs, TaskResumes(r) PROVE HandlerType'
  BY <1>11 DEF TaskResumes, handlers
<1>12. ASSUME NEW r \in Reqs, TaskDeleted(r) PROVE HandlerType'
  BY <1>0, <1>12 DEF TaskDeleted, DeleteRow, handlers
<1>13. CASE Midnight
  BY <1>13, Constants DEF Midnight, handlers, rows, Days
<1>14. CASE UNCHANGED vars
  BY <1>14 DEF vars, handlers, rows
<1> QED
  BY <1>1, <1>2, <1>3, <1>4, <1>5, <1>6, <1>7, <1>8, <1>9, <1>10, <1>11, <1>12, <1>13,
     <1>14 DEF Next, Handler

-----------------------------------------------------------------------------
(* The limit of a tenant.                                                  *)

\* Nobody is past the count of a tenant at the beginning.
LEMMA TenantInit == Init => TenantInv
<1> SUFFICES ASSUME Init, NEW k \in Tenants, NEW d \in Days
             PROVE  Cardinality(PastTenant(k, d)) <= TenantLimit
  BY DEF TenantInv
<1>1. PastTenant(k, d) = {}
  BY DEF Init, PastTenant, Holding
<1>2. Cardinality({}) = 0
  BY FS_EmptySet
<1> QED
  BY <1>1, <1>2, Constants

\* As long as nobody joins them, the requests past the count are not more.
LEMMA FewerPastTenant ==
    ASSUME TenantInv, NEW k \in Tenants, NEW d \in Days,
           PastTenant(k, d)' \subseteq PastTenant(k, d)
    PROVE  Cardinality(PastTenant(k, d)') <= TenantLimit
<1>1. IsFiniteSet(PastTenant(k, d))
  <2>1. PastTenant(k, d) \in SUBSET Reqs
    BY DEF PastTenant
  <2> QED
    BY <2>1, Constants, FS_Subset
<1>2. /\ IsFiniteSet(PastTenant(k, d)')
      /\ Cardinality(PastTenant(k, d)') <= Cardinality(PastTenant(k, d))
  BY <1>1, FS_Subset
<1>3. Cardinality(PastTenant(k, d)) <= TenantLimit
  BY DEF TenantInv
<1>4. Cardinality(PastTenant(k, d)) \in Nat /\ Cardinality(PastTenant(k, d)') \in Nat
  BY <1>1, <1>2, FS_CardinalityType
<1> QED
  BY <1>2, <1>3, <1>4, Constants

\* No step takes the requests past the count of a tenant over its limit.
LEMMA TenantStep == HandlerType /\ TenantInv /\ [Next]_vars => TenantInv'
<1> SUFFICES ASSUME HandlerType, TenantInv, [Next]_vars, NEW k \in Tenants, NEW d \in Days
             PROVE  Cardinality(PastTenant(k, d)') <= TenantLimit
  BY DEF TenantInv
<1>1. ASSUME NEW r \in Reqs, OnlyOf(r), Stays(r) \/ Outside(r) \/ PassesGlobal(r)
      PROVE  PastTenant(k, d)' \subseteq PastTenant(k, d)
  <2> SUFFICES ASSUME NEW q \in Reqs, q \in PastTenant(k, d)'
               PROVE  q \in PastTenant(k, d)
    BY DEF PastTenant
  <2>1. CASE q # r
    BY <1>1, <2>1 DEF OnlyOf, PastTenant, CheckedFor
  <2>2. CASE q = r /\ Stays(r)
    BY <2>2 DEF Stays, PastTenant
  <2>3. CASE q = r /\ Outside(r)
    BY <2>3 DEF Outside, PastTenant
  <2>4. CASE q = r /\ PassesGlobal(r)
    BY <2>4 DEF PassesGlobal, PastTenant, CheckedFor
  <2> QED
    BY <1>1, <2>1, <2>2, <2>3, <2>4
<1>2. ASSUME NEW r \in Reqs, OnlyOf(r), PassesTenant(r)
      PROVE  Cardinality(PastTenant(k, d)') <= TenantLimit
  <2>1. CASE TenantOf[r] = k /\ CheckedFor(r, d)
    <3>1. PastTenant(k, d)' \subseteq CountedOfTenant(r)
      <4> SUFFICES ASSUME NEW q \in Reqs, q \in PastTenant(k, d)'
                   PROVE  q \in CountedOfTenant(r)
        BY DEF PastTenant
      <4>1. row[q] # "absent" /\ created[q] = d /\ since[r] = d /\ TenantOf[q] = TenantOf[r]
        BY <1>2, <2>1 DEF PassesTenant, PastTenant, CheckedFor
      <4>2. created[q] >= since[r]
        BY <4>1, Constants DEF Days
      <4> QED
        BY <4>1, <4>2 DEF CountedOfTenant, Counted
    <3>2. CountedOfTenant(r) \in SUBSET Reqs
      BY DEF CountedOfTenant, Counted
    <3>3. IsFiniteSet(CountedOfTenant(r))
      BY <3>2, Constants, FS_Subset
    <3>4. /\ IsFiniteSet(PastTenant(k, d)')
          /\ Cardinality(PastTenant(k, d)') <= Cardinality(CountedOfTenant(r))
      BY <3>1, <3>3, FS_Subset
    <3>5. Cardinality(CountedOfTenant(r)) \in Nat /\ Cardinality(PastTenant(k, d)') \in Nat
      BY <3>3, <3>4, FS_CardinalityType
    <3>6. Cardinality(CountedOfTenant(r)) <= TenantLimit
      BY <1>2 DEF PassesTenant
    <3> QED
      BY <3>4, <3>5, <3>6, Constants
  <2>2. CASE ~(TenantOf[r] = k /\ CheckedFor(r, d))
    <3>1. PastTenant(k, d)' \subseteq PastTenant(k, d)
      <4> SUFFICES ASSUME NEW q \in Reqs, q \in PastTenant(k, d)'
                   PROVE  q \in PastTenant(k, d)
        BY DEF PastTenant
      <4>1. q # r
        BY <1>2, <2>2 DEF PassesTenant, PastTenant, CheckedFor
      <4> QED
        BY <1>2, <4>1 DEF OnlyOf, PastTenant, CheckedFor
    <3> QED
      BY <3>1, FewerPastTenant
  <2> QED
    BY <2>1, <2>2
<1>3. ASSUME NEW r \in Reqs,
             Handler(r) \/ TaskEnds(r) \/ TaskResumes(r) \/ TaskDeleted(r)
      PROVE  Cardinality(PastTenant(k, d)') <= TenantLimit
  <2>1. OnlyOf(r)
    BY <1>3, StepsAreLocal
  <2>2. Stays(r) \/ Outside(r) \/ PassesTenant(r) \/ PassesGlobal(r)
    BY <1>3, FormsOfSteps
  <2> QED
    BY <1>1, <1>2, <2>1, <2>2, FewerPastTenant
<1>4. CASE Midnight \/ UNCHANGED vars
  <2>1. PastTenant(k, d)' = PastTenant(k, d)
    BY <1>4 DEF Midnight, vars, handlers, rows, PastTenant, CheckedFor
  <2> QED
    BY <2>1, FewerPastTenant
<1> QED
  BY <1>3, <1>4 DEF Next

-----------------------------------------------------------------------------
(* The refinement.                                                         *)

\* DailyQuota and Admission mean the same by Cardinality.
LEMMA SameCardinality ==
    ASSUME NEW S PROVE Places!Cardinality(S) = Cardinality(S)
  BY DEF Places!Cardinality, Cardinality

\* Held is the set of pairs of which Holds is true.
LEMMA HeldPairs ==
    \A q \in Reqs, d \in Days : <<q, d>> \in Held <=> Holds(q, d)
  BY DEF Held, Holds, Holding

\* So it is in the next state.
LEMMA HeldPairsNext ==
    \A q \in Reqs, d \in Days : <<q, d>> \in Held' <=> Holds(q, d)'
  BY DEF Held, Holds, Holding

\* A request holds a place of one day only, that of its row.
LEMMA OnePlace ==
    ASSUME NEW r \in Reqs, NEW d \in Days, Holds(r, d) PROVE d = created[r]
  BY DEF Holds, CheckedFor

\* The step of a request that ends without a place is a stutter or a release.
LEMMA LosesPlace ==
    ASSUME HandlerType, NEW r \in Reqs, OnlyOf(r), \A d \in Days : ~Holds(r, d)'
    PROVE  Held' = Held \/ Places!Release(r, created[r])
<1>1. \A q \in Reqs \ {r}, d \in Days : Holds(q, d)' <=> Holds(q, d)
  BY DEF OnlyOf, Holds, CheckedFor
<1>2. Held \subseteq Reqs \X Days /\ Held' \subseteq Reqs \X Days
  BY DEF Held
<1>3. created[r] \in Days
  BY DEF HandlerType
<1>4. CASE Holds(r, created[r])
  <2>1. <<r, created[r]>> \in Held
    BY <1>3, <1>4, HeldPairs
  <2>2. ASSUME NEW q \in Reqs, NEW d \in Days
        PROVE  <<q, d>> \in Held' <=> <<q, d>> \in Held \ {<<r, created[r]>>}
    BY <1>1, <2>2, HeldPairs, HeldPairsNext, OnePlace
  <2>3. Held' = Held \ {<<r, created[r]>>}
    BY <1>2, <2>2
  <2> QED
    BY <2>1, <2>3 DEF Places!Release
<1>5. CASE ~Holds(r, created[r])
  <2>1. ASSUME NEW q \in Reqs, NEW d \in Days
        PROVE  <<q, d>> \in Held' <=> <<q, d>> \in Held
    BY <1>1, <1>5, <2>1, HeldPairs, HeldPairsNext, OnePlace
  <2> QED
    BY <1>2, <2>1
<1> QED
  BY <1>4, <1>5

\* The step that passes the count of all tenants takes a place within both limits,
\* or none if its row is not of the day it was checked for.
LEMMA TakesPlace ==
    ASSUME HandlerType, TenantInv, NEW r \in Reqs, OnlyOf(r), PassesGlobal(r)
    PROVE  Held' = Held \/ Places!Admit(r, created[r])
<1> DEFINE d == created[r]
<1>0. d \in Days
  BY DEF HandlerType
<1>1. \A q \in Reqs \ {r}, e \in Days : Holds(q, e)' <=> Holds(q, e)
  BY DEF OnlyOf, Holds, CheckedFor
<1>2. Held \subseteq Reqs \X Days /\ Held' \subseteq Reqs \X Days
  BY DEF Held
<1>3. \A e \in Days : ~Holds(r, e)
  BY DEF PassesGlobal, Holds, Holding
<1>4. \A e \in Days : Holds(r, e)' <=> CheckedFor(r, e)
  BY DEF PassesGlobal, Holds, Holding, CheckedFor
<1>5. CASE ~CheckedFor(r, d)
  <2>1. \A e \in Days : ~Holds(r, e)'
    BY <1>4, <1>5 DEF CheckedFor
  <2>2. ASSUME NEW q \in Reqs, NEW e \in Days
        PROVE  <<q, e>> \in Held' <=> <<q, e>> \in Held
    BY <1>1, <1>3, <2>1, HeldPairs, HeldPairsNext
  <2> QED
    BY <1>2, <2>2
<1>6. CASE CheckedFor(r, d)
  <2> DEFINE OfDay == {t \in Reqs : <<t, d>> \in Held}
             OfTenant == {u \in OfDay : TenantOf[u] = TenantOf[r]}
  <2>1. <<r, d>> \notin Held
    BY <1>0, <1>3, HeldPairs
  <2>2. Held' = Held \cup {<<r, d>>}
    <3>1. ASSUME NEW q \in Reqs, NEW e \in Days
          PROVE  <<q, e>> \in Held' <=> <<q, e>> \in Held \cup {<<r, d>>}
      BY <1>1, <1>3, <1>4, <1>6, HeldPairs, HeldPairsNext DEF CheckedFor
    <3> QED
      BY <1>0, <1>2, <3>1
  <2>3. r \notin OfDay
    BY <2>1
  <2>4. \A S \in SUBSET Reqs : IsFiniteSet(S) /\ Cardinality(S) \in Nat
    BY Constants, FS_Subset, FS_CardinalityType
  <2>5. Cardinality(OfDay) < GlobalLimit
    <3>1. OfDay \cup {r} \subseteq Counted(r)
      <4> SUFFICES ASSUME NEW q \in OfDay \cup {r} PROVE q \in Counted(r)
        OBVIOUS
      <4>1. row[q] # "absent" /\ created[q] = d /\ since[r] = d
        BY <1>0, <1>6, HeldPairs DEF Holds, CheckedFor
      <4> QED
        BY <1>0, <4>1, Constants DEF Counted, Days
    <3>2. Counted(r) \in SUBSET Reqs
      BY DEF Counted
    <3>3. Cardinality(OfDay \cup {r}) <= Cardinality(Counted(r))
      BY <2>4, <3>1, <3>2, FS_Subset
    <3>4. Cardinality(OfDay \cup {r}) = Cardinality(OfDay) + 1
      BY <2>3, <2>4, FS_AddElement
    <3>5. Cardinality(Counted(r)) <= GlobalLimit
      BY DEF PassesGlobal
    <3>6. Cardinality(OfDay) \in Nat /\ Cardinality(Counted(r)) \in Nat
      BY <2>4, <3>2
    <3> HIDE DEF OfDay
    <3> QED
      BY <3>3, <3>4, <3>5, <3>6, Constants
  <2>6. Cardinality(OfTenant) < TenantLimit
    <3> DEFINE Past == PastTenant(TenantOf[r], d)
    <3>1. OfTenant \cup {r} \subseteq Past
      <4> SUFFICES ASSUME NEW q \in OfTenant \cup {r} PROVE q \in Past
        OBVIOUS
      <4>1. CASE q = r
        BY <1>6, <4>1 DEF PassesGlobal, PastTenant
      <4>2. CASE q \in OfTenant
        BY <1>0, <4>2, HeldPairs DEF Holds, PastTenant
      <4> QED
        BY <4>1, <4>2
    <3>2. Past \in SUBSET Reqs
      BY DEF PastTenant
    <3>3. Cardinality(OfTenant \cup {r}) <= Cardinality(Past)
      BY <2>4, <3>1, <3>2, FS_Subset
    <3>4. Cardinality(OfTenant \cup {r}) = Cardinality(OfTenant) + 1
      BY <2>3, <2>4, FS_AddElement
    <3>5. Cardinality(Past) <= TenantLimit
      BY <1>0, Constants DEF TenantInv
    <3>6. Cardinality(OfTenant) \in Nat /\ Cardinality(Past) \in Nat
      BY <2>4, <3>2
    <3> HIDE DEF OfTenant, Past
    <3> QED
      BY <3>3, <3>4, <3>5, <3>6, Constants
  <2>7. OfDay = Places!OfDay(d) /\ OfTenant = Places!OfTenant(r, d)
    BY DEF Places!OfTenant, Places!OfDay
  <2> QED
    BY <2>1, <2>2, <2>5, <2>6, <2>7, SameCardinality DEF Places!Admit
<1> QED
  BY <1>5, <1>6

\* Every step is an Admit, a Release or a stutter of DailyQuota.
LEMMA StepRefines ==
    HandlerType /\ TenantInv /\ [Next]_vars => [Places!Next]_Held
<1> SUFFICES ASSUME HandlerType, TenantInv, [Next]_vars
             PROVE  Held' = Held \/ Places!Next
  OBVIOUS
<1>1. ASSUME NEW r \in Reqs,
             Handler(r) \/ TaskEnds(r) \/ TaskResumes(r) \/ TaskDeleted(r)
      PROVE  Held' = Held \/ Places!Next
  <2>1. OnlyOf(r)
    BY <1>1, StepsAreLocal
  <2>2. created[r] \in Days
    BY DEF HandlerType
  <2>3. CASE Stays(r)
    <3>1. ASSUME NEW q \in Reqs, NEW e \in Days
          PROVE  <<q, e>> \in Held' <=> <<q, e>> \in Held
      <4>1. Holds(q, e)' <=> Holds(q, e)
        BY <2>1, <2>3 DEF OnlyOf, Stays, Holds, CheckedFor
      <4> QED
        BY <4>1, HeldPairs, HeldPairsNext
    <3>2. Held \subseteq Reqs \X Days /\ Held' \subseteq Reqs \X Days
      BY DEF Held
    <3> QED
      BY <3>1, <3>2
  <2>4. CASE Outside(r) \/ PassesTenant(r)
    <3>1. \A e \in Days : ~Holds(r, e)'
      BY <2>4 DEF Outside, PassesTenant, Holds, Holding
    <3> QED
      BY <2>1, <2>2, <3>1, LosesPlace DEF Places!Next
  <2>5. CASE PassesGlobal(r)
    BY <2>1, <2>2, <2>5, TakesPlace DEF Places!Next
  <2> QED
    BY <1>1, <2>3, <2>4, <2>5, FormsOfSteps
<1>2. CASE Midnight \/ UNCHANGED vars
  BY <1>2 DEF Midnight, vars, handlers, rows, Held, CheckedFor
<1> QED
  BY <1>1, <1>2 DEF Next

\* Nobody holds a place at the beginning.
LEMMA InitRefines == Init => Places!Init
  BY DEF Init, Places!Init, Held

-----------------------------------------------------------------------------
(* The theorem.                                                            *)

\* create_task and _enforce_daily_quotas: with any number of requests between
\* insert, counts, rollback and deletion, over any number of days, the places of a
\* day are given out within the limit of each tenant and the limit of all.
THEOREM AdmissionImplementsDailyQuota == Spec => ImplementsDailyQuota
<1>1. Spec => [](HandlerType /\ TenantInv)
  BY TypeInit, TypeStep, TenantInit, TenantStep, PTL DEF Spec
<1> QED
  BY <1>1, InitRefines, StepRefines, PTL DEF Spec, ImplementsDailyQuota, Places!Spec
-----------------------------------------------------------------------------
(* Sums over finite sets.                                                  *)

\* A nonempty set of numbers has a smallest one.
LEMMA SmallestOf ==
    ASSUME NEW S \in SUBSET Nat, S # {}
    PROVE  \E m \in S : \A j \in S : m <= j
<1> DEFINE R == OpToRel(<, Nat)
<1>1. PICK m \in S : \A y \in S : ~ (<<y, m>> \in R)
  <2> HIDE DEF R
  <2>1. IsWellFoundedOn(R, Nat)
    BY NatLessThanWellFounded DEF R
  <2> QED
    BY <2>1, WFMin
<1>2. ASSUME NEW y \in S, ~(m <= y) PROVE FALSE
  <2>1. y \in Nat /\ m \in Nat /\ y < m
    BY <1>2
  <2> QED
    BY <1>1, <2>1 DEF OpToRel
<1> QED
  BY <1>2

\* Induction over the subsets of a finite set: what holds of a subset whenever it
\* holds of those with one element less holds of all.
LEMMA SubsetInduction ==
    ASSUME NEW S, IsFiniteSet(S), NEW G,
           \A T \in SUBSET S : (\A x \in T : T \ {x} \in G) => T \in G
    PROVE  SUBSET S \subseteq G
<1> SUFFICES ASSUME ~(SUBSET S \subseteq G) PROVE FALSE
  OBVIOUS
<1> DEFINE Sizes == {Cardinality(T) : T \in (SUBSET S) \ G}
<1>1. \A T \in SUBSET S : IsFiniteSet(T) /\ Cardinality(T) \in Nat
  BY FS_Subset, FS_CardinalityType
<1>2. Sizes \in SUBSET Nat /\ Sizes # {}
  BY <1>1
<1>3. PICK T \in (SUBSET S) \ G : \A U \in (SUBSET S) \ G : Cardinality(T) <= Cardinality(U)
  <2>1. PICK m \in Sizes : \A j \in Sizes : m <= j
    <3> HIDE DEF Sizes
    <3> QED
      BY <1>2, SmallestOf
  <2> QED
    BY <2>1
<1>4. ASSUME NEW x \in T PROVE T \ {x} \in G
  <2>1. Cardinality(T \ {x}) = Cardinality(T) - 1
    BY <1>1, FS_RemoveElement
  <2>2. T \ {x} \in SUBSET S
    OBVIOUS
  <2>3. Cardinality(T) \in Nat /\ Cardinality(T \ {x}) \in Nat
    BY <1>1, <2>2
  <2> QED
    BY <1>3, <2>1, <2>2, <2>3
<1> QED
  BY <1>3, <1>4

\* g sums f up over every subset of S, in the order of MapThenFoldSet.
First(T) == CHOOSE x \in T : TRUE
Sums(f, S, g) ==
    g = [T \in SUBSET S |-> IF T = {} THEN 0 ELSE f[First(T)] + g[T \ {First(T)}]]

\* What SumFunctionOnSet of the community modules stands for.
LEMMA SumIsFold ==
    ASSUME NEW f, NEW S
    PROVE  SumFunctionOnSet(f, S) = (CHOOSE g : Sums(f, S, g))[S]
  BY DEF SumFunctionOnSet, FoldFunctionOnSet, MapThenFoldSet, Sums, First

\* The members of a nonempty set include the one chosen.
LEMMA FirstIsMember == ASSUME NEW T, T # {} PROVE First(T) \in T
  BY DEF First

\* One step of the sum.
LEMMA SumsStep ==
    ASSUME NEW f, NEW S, NEW g, Sums(f, S, g), NEW T \in SUBSET S
    PROVE  /\ T = {} => g[T] = 0
           /\ T # {} => g[T] = f[First(T)] + g[T \ {First(T)}]
  BY DEF Sums

\* Two such functions agree where both are defined.
LEMMA SumsAgree ==
    ASSUME NEW f, NEW S, NEW g, Sums(f, S, g),
           NEW T \in SUBSET S, NEW h, Sums(f, T, h), IsFiniteSet(T)
    PROVE  \A U \in SUBSET T : g[U] = h[U]
<1> DEFINE G == {U \in SUBSET T : g[U] = h[U]}
<1>1. ASSUME NEW U \in SUBSET T, \A x \in U : U \ {x} \in G PROVE U \in G
  <2>1. CASE U = {}
    <3>1. U \in SUBSET S
      OBVIOUS
    <3>2. g[U] = 0
      BY <2>1, <3>1, SumsStep
    <3>3. h[U] = 0
      BY <2>1, SumsStep
    <3> QED
      BY <3>2, <3>3
  <2>2. CASE U # {}
    <3> DEFINE c == First(U)
    <3>1. U \in SUBSET S /\ c \in U
      BY <2>2, FirstIsMember
    <3>2. g[U] = f[c] + g[U \ {c}]
      BY <2>2, <3>1, SumsStep
    <3>3. h[U] = f[c] + h[U \ {c}]
      BY <2>2, SumsStep
    <3>4. g[U \ {c}] = h[U \ {c}]
      BY <1>1, <3>1
    <3> QED
      BY <3>2, <3>3, <3>4
  <2> QED
    BY <2>1, <2>2
<1> HIDE DEF G
<1>2. SUBSET T \subseteq G
  BY <1>1, SubsetInduction
<1> QED
  BY <1>2 DEF G

\* A function for S gives one for its subsets.
LEMMA SumsRestrict ==
    ASSUME NEW f, NEW S, NEW g, Sums(f, S, g), NEW T \in SUBSET S
    PROVE  Sums(f, T, [U \in SUBSET T |-> g[U]])
<1> DEFINE h == [U \in SUBSET T |-> g[U]]
           k == [U \in SUBSET T |-> IF U = {} THEN 0 ELSE f[First(U)] + h[U \ {First(U)}]]
<1>1. ASSUME NEW U \in SUBSET T PROVE h[U] = k[U]
  <2>1. U \in SUBSET S /\ U \ {First(U)} \in SUBSET T
    OBVIOUS
  <2>2. h[U] = g[U]
    OBVIOUS
  <2>3. ASSUME U = {} PROVE g[U] = 0 /\ k[U] = 0
    BY <2>1, <2>3, SumsStep
  <2>4. CASE U # {}
    BY <2>1, <2>4, SumsStep
  <2> QED
    BY <2>2, <2>3, <2>4
<1> QED
  BY <1>1 DEF Sums

\* There is such a function for every finite set.
LEMMA SumsExist ==
    ASSUME NEW f, NEW S, IsFiniteSet(S) PROVE \E g : Sums(f, S, g)
<1> DEFINE G == {T \in SUBSET S : \E g : Sums(f, T, g)}
           total(T) == (CHOOSE g : Sums(f, T, g))[T]
<1>1. ASSUME NEW T \in SUBSET S, \A x \in T : T \ {x} \in G PROVE T \in G
  <2> DEFINE g == [U \in SUBSET T |->
                     IF U = {} THEN 0 ELSE f[First(U)] + total(U \ {First(U)})]
             k == [U \in SUBSET T |->
                     IF U = {} THEN 0 ELSE f[First(U)] + g[U \ {First(U)}]]
  <2>1. ASSUME NEW x \in T, NEW V \in SUBSET (T \ {x})
        PROVE  g[V] = total(V)
    <3>1. PICK h : Sums(f, V, h)
      <4>1. PICK j : Sums(f, T \ {x}, j)
        BY <1>1
      <4> QED
        BY <4>1, SumsRestrict
    <3> DEFINE hV == CHOOSE j : Sums(f, V, j)
    <3>2. Sums(f, V, hV)
      BY <3>1
    <3>3. total(V) = hV[V] /\ V \in SUBSET T
      BY <2>1
    <3> HIDE DEF hV
    <3>4. CASE V = {}
      <4>1. hV[V] = 0
        BY <3>2, <3>4, SumsStep
      <4>2. g[V] = 0
        BY <3>3, <3>4
      <4> HIDE DEF g
      <4> QED
        BY <3>3, <4>1, <4>2
    <3>5. CASE V # {}
      <4> DEFINE W == V \ {First(V)}
      <4>1. hV[V] = f[First(V)] + hV[W]
        BY <3>2, <3>5, SumsStep
      <4>2. total(W) = hV[W]
        <5>1. W \in SUBSET V /\ IsFiniteSet(W) /\ W \in SUBSET W
          BY FS_Subset
        <5>2. Sums(f, W, [U \in SUBSET W |-> hV[U]])
          BY <3>2, <5>1, SumsRestrict
        <5> DEFINE hW == CHOOSE j : Sums(f, W, j)
        <5>3. Sums(f, W, hW)
          BY <5>2
        <5>4. total(W) = hW[W]
          OBVIOUS
        <5> HIDE DEF hW, W
        <5>5. hV[W] = hW[W]
          BY <3>2, <5>1, <5>3, SumsAgree
        <5> QED
          BY <5>4, <5>5
      <4>3. g[V] = f[First(V)] + total(W)
        BY <3>3, <3>5
      <4> HIDE DEF g, W
      <4> QED
        BY <3>3, <4>1, <4>2, <4>3
    <3> QED
      BY <3>4, <3>5
  <2>2. ASSUME NEW U \in SUBSET T PROVE g[U] = k[U]
    <3>1. ASSUME U = {} PROVE g[U] = 0 /\ k[U] = 0
      BY <3>1
    <3>2. CASE U # {}
      <4> DEFINE W == U \ {First(U)}
      <4>1. First(U) \in T /\ W \in SUBSET (T \ {First(U)})
        BY <3>2, FirstIsMember
      <4>2. g[W] = total(W)
        <5> HIDE DEF g, W, total
        <5> QED
          BY <2>1, <4>1
      <4>3. g[U] = f[First(U)] + total(W) /\ k[U] = f[First(U)] + g[W]
        BY <3>2
      <4> HIDE DEF g, k, W, total
      <4> QED
        BY <4>2, <4>3
    <3> HIDE DEF g, k, total
    <3> QED
      BY <3>1, <3>2
  <2>3. g = k
    <3> HIDE DEF total
    <3> QED
      BY <2>2
  <2>4. Sums(f, T, g)
    <3>1. k = [U \in SUBSET T |-> IF U = {} THEN 0 ELSE f[First(U)] + g[U \ {First(U)}]]
      OBVIOUS
    <3> HIDE DEF g, k
    <3> QED
      BY <2>3, <3>1 DEF Sums
  <2> QED
    BY <2>4
<1> HIDE DEF G
<1>2. SUBSET S \subseteq G
  BY <1>1, SubsetInduction
<1> QED
  BY <1>2 DEF G

\* One function on all subsets of S, whose values are the sums.
LEMMA SumsOnSubsets ==
    ASSUME NEW f, NEW S, IsFiniteSet(S)
    PROVE  \E g : Sums(f, S, g) /\ \A T \in SUBSET S : SumFunctionOnSet(f, T) = g[T]
<1>1. PICK g : Sums(f, S, g)
  BY SumsExist
<1>2. ASSUME NEW T \in SUBSET S PROVE SumFunctionOnSet(f, T) = g[T]
  <2> DEFINE h == CHOOSE j : Sums(f, T, j)
  <2>1. IsFiniteSet(T)
    BY FS_Subset
  <2>2. Sums(f, T, h)
    BY <2>1, SumsExist
  <2>3. SumFunctionOnSet(f, T) = h[T]
    BY SumIsFold
  <2> HIDE DEF h
  <2> QED
    BY <1>1, <2>1, <2>2, <2>3, SumsAgree
<1> QED
  BY <1>1, <1>2

\* The sum of numbers is one, and any element may be taken out first.
LEMMA SumRemove ==
    ASSUME NEW S, IsFiniteSet(S), NEW f \in [S -> Nat]
    PROVE  \A T \in SUBSET S :
             /\ SumFunctionOnSet(f, T) \in Nat
             /\ \A x \in T : SumFunctionOnSet(f, T) = f[x] + SumFunctionOnSet(f, T \ {x})
<1>1. PICK g : Sums(f, S, g) /\ \A T \in SUBSET S : SumFunctionOnSet(f, T) = g[T]
  BY SumsOnSubsets
<1> DEFINE N == {T \in SUBSET S : g[T] \in Nat}
<1>2. ASSUME NEW T \in SUBSET S, \A x \in T : T \ {x} \in N PROVE T \in N
  <2>1. CASE T = {}
    <3>1. g[T] = 0
      BY <1>1, <2>1, SumsStep
    <3> QED
      BY <3>1
  <2>2. CASE T # {}
    <3>1. First(T) \in T
      BY <2>2, FirstIsMember
    <3>2. g[T] = f[First(T)] + g[T \ {First(T)}]
      BY <1>1, <2>2, SumsStep
    <3> QED
      BY <1>2, <3>1, <3>2
  <2> QED
    BY <2>1, <2>2
<1>3. \A T \in SUBSET S : g[T] \in Nat
  <2> HIDE DEF N
  <2>1. SUBSET S \subseteq N
    BY <1>2, SubsetInduction
  <2> QED
    BY <2>1 DEF N
<1> DEFINE G == {T \in SUBSET S : \A x \in T : g[T] = f[x] + g[T \ {x}]}
<1>4. ASSUME NEW T \in SUBSET S, \A x \in T : T \ {x} \in G PROVE T \in G
  <2>2. ASSUME NEW x \in T PROVE g[T] = f[x] + g[T \ {x}]
    <3> DEFINE c == First(T)
    <3>1. c \in T /\ g[T] = f[c] + g[T \ {c}]
      BY <1>1, SumsStep, FirstIsMember
    <3> HIDE DEF c
    <3>2. CASE x = c
      BY <3>1, <3>2
    <3>3. CASE x # c
      <4> DEFINE rest == (T \ {c}) \ {x}
      <4>1. rest = (T \ {x}) \ {c} /\ rest \in SUBSET S
        OBVIOUS
      <4>2. g[T \ {c}] = f[x] + g[rest]
        BY <1>4, <3>1, <3>3
      <4>3. g[T \ {x}] = f[c] + g[(T \ {x}) \ {c}]
        BY <1>4, <3>1, <3>3
      <4>4. f[x] \in Nat /\ f[c] \in Nat /\ g[rest] \in Nat
        BY <1>3, <3>1, <4>1
      <4> HIDE DEF rest
      <4> QED
        BY <3>1, <4>1, <4>2, <4>3, <4>4
    <3> QED
      BY <3>2, <3>3
  <2> QED
    BY <2>2
<1> HIDE DEF G
<1>5. SUBSET S \subseteq G
  BY <1>4, SubsetInduction
<1>6. ASSUME NEW T \in SUBSET S
      PROVE  /\ SumFunctionOnSet(f, T) \in Nat
             /\ \A x \in T : SumFunctionOnSet(f, T) = f[x] + SumFunctionOnSet(f, T \ {x})
  <2>1. g[T] \in Nat /\ \A x \in T : g[T] = f[x] + g[T \ {x}]
    BY <1>3, <1>5 DEF G
  <2>2. \A x \in T : T \ {x} \in SUBSET S
    OBVIOUS
  <2> QED
    BY <1>1, <2>1, <2>2
<1> QED
  BY <1>6

\* Nothing to sum.
LEMMA SumEmpty == ASSUME NEW f PROVE SumFunctionOnSet(f, {}) = 0
<1>1. PICK g : Sums(f, {}, g) /\ \A T \in SUBSET {} : SumFunctionOnSet(f, T) = g[T]
  BY FS_EmptySet, SumsOnSubsets
<1>2. {} \in SUBSET {}
  OBVIOUS
<1>3. g[{}] = 0
  BY <1>1, <1>2, SumsStep
<1> QED
  BY <1>1, <1>2, <1>3

\* Fewer and smaller numbers have a smaller sum.
LEMMA SumMonotone ==
    ASSUME NEW S, IsFiniteSet(S), NEW f \in [S -> Nat], NEW g \in [S -> Nat],
           NEW A \in SUBSET S, NEW B \in SUBSET S, A \subseteq B, \A x \in A : f[x] <= g[x]
    PROVE  SumFunctionOnSet(f, A) <= SumFunctionOnSet(g, B)
<1> DEFINE Sf(T) == SumFunctionOnSet(f, T)
           Sg(T) == SumFunctionOnSet(g, T)
           G == {T \in SUBSET S : Sf(T \cap A) <= Sg(T)}
<1>1. \A T \in SUBSET S :
        /\ Sf(T) \in Nat /\ \A x \in T : Sf(T) = f[x] + Sf(T \ {x})
        /\ Sg(T) \in Nat /\ \A x \in T : Sg(T) = g[x] + Sg(T \ {x})
  BY SumRemove
<1>2. Sf({}) = 0 /\ Sg({}) = 0
  BY SumEmpty
<1> HIDE DEF Sf, Sg
<1>3. ASSUME NEW T \in SUBSET S, \A x \in T : T \ {x} \in G PROVE T \in G
  <2>1. CASE T = {}
    <3>1. T \cap A = {}
      BY <2>1
    <3> QED
      BY <1>2, <2>1, <3>1
  <2>2. CASE T # {}
    <3>1. PICK x \in T : TRUE
      BY <2>2
    <3>2. Sf((T \ {x}) \cap A) <= Sg(T \ {x}) /\ Sg(T) = g[x] + Sg(T \ {x})
      BY <1>1, <1>3
    <3>3. T \cap A \in SUBSET S /\ (T \ {x}) \cap A \in SUBSET S /\ T \ {x} \in SUBSET S
      OBVIOUS
    <3>4. Sf(T \cap A) \in Nat /\ Sf((T \ {x}) \cap A) \in Nat /\ Sg(T \ {x}) \in Nat
      BY <1>1, <3>3
    <3>5. f[x] \in Nat /\ g[x] \in Nat
      OBVIOUS
    <3>6. CASE x \in A
      <4>1. (T \cap A) \ {x} = (T \ {x}) \cap A /\ x \in T \cap A
        BY <3>6
      <4>2. Sf(T \cap A) = f[x] + Sf((T \ {x}) \cap A)
        BY <1>1, <3>3, <4>1
      <4>3. f[x] <= g[x]
        BY <3>6
      <4> QED
        BY <3>2, <3>4, <3>5, <4>2, <4>3
    <3>7. CASE x \notin A
      <4>1. T \cap A = (T \ {x}) \cap A
        BY <3>7
      <4> QED
        BY <3>2, <3>4, <3>5, <4>1
    <3> QED
      BY <3>6, <3>7
  <2> QED
    BY <2>1, <2>2
<1> HIDE DEF G
<1>4. SUBSET S \subseteq G
  BY <1>3, SubsetInduction
<1>5. Sf(B \cap A) <= Sg(B) /\ B \cap A = A
  BY <1>4 DEF G
<1> QED
  BY <1>5 DEF Sf, Sg

\* At most M for each element of A, and u for each of the others.
LEMMA SumBound ==
    ASSUME NEW S, IsFiniteSet(S), NEW f \in [S -> Nat], NEW u \in [S -> Nat],
           NEW A \in SUBSET S, NEW M \in Nat,
           \A x \in A : f[x] <= M, \A x \in S \ A : f[x] <= u[x]
    PROVE  \A T \in SUBSET S :
             SumFunctionOnSet(f, T) <= SumFunctionOnSet(u, T \ A) + M * Cardinality(T \cap A)
<1> DEFINE Sf(T) == SumFunctionOnSet(f, T)
           Su(T) == SumFunctionOnSet(u, T)
           G == {T \in SUBSET S : Sf(T) <= Su(T \ A) + M * Cardinality(T \cap A)}
<1>1. \A T \in SUBSET S :
        /\ Sf(T) \in Nat /\ \A x \in T : Sf(T) = f[x] + Sf(T \ {x})
        /\ Su(T) \in Nat /\ \A x \in T : Su(T) = u[x] + Su(T \ {x})
  BY SumRemove
<1>2. Sf({}) = 0 /\ Su({}) = 0
  BY SumEmpty
<1>3. \A T \in SUBSET S : IsFiniteSet(T) /\ Cardinality(T) \in Nat
  BY FS_Subset, FS_CardinalityType
<1> HIDE DEF Sf, Su
<1>4. ASSUME NEW T \in SUBSET S, \A x \in T : T \ {x} \in G PROVE T \in G
  <2>1. CASE T = {}
    <3>1. T \cap A = {} /\ T \ A = {} /\ Cardinality({}) = 0
      BY <2>1, FS_EmptySet
    <3> QED
      BY <1>2, <2>1, <3>1
  <2>2. CASE T # {}
    <3>1. PICK x \in T : TRUE
      BY <2>2
    <3> DEFINE R == T \ {x}
               n == Cardinality(R \cap A)
    <3>2. Sf(R) <= Su(R \ A) + M * n
      BY <1>4
    <3>3. Sf(T) = f[x] + Sf(R) /\ f[x] \in Nat /\ u[x] \in Nat
      BY <1>1
    <3>4. R \in SUBSET S /\ R \ A \in SUBSET S /\ R \cap A \in SUBSET S
           /\ T \ A \in SUBSET S /\ T \cap A \in SUBSET S
      OBVIOUS
    <3>5. Sf(R) \in Nat /\ Su(R \ A) \in Nat /\ n \in Nat /\ M * n \in Nat
      BY <1>1, <1>3, <3>4
    <3>6. CASE x \in A
      <4>1. T \ A = R \ A /\ (T \cap A) \ {x} = R \cap A /\ x \in T \cap A
        BY <3>6
      <4>2. Cardinality(T \cap A) = n + 1
        <5>1. Cardinality((T \cap A) \ {x}) = Cardinality(T \cap A) - 1
          BY <1>3, <3>4, <4>1, FS_RemoveElement
        <5>2. Cardinality(T \cap A) \in Nat
          BY <1>3, <3>4
        <5>3. n = Cardinality(T \cap A) - 1
          BY <4>1, <5>1
        <5> HIDE DEF n
        <5> QED
          BY <5>2, <5>3
      <4>3. f[x] <= M
        BY <3>6
      <4> HIDE DEF n, R
      <4>4. M * Cardinality(T \cap A) = M * n + M
        BY <3>5, <4>2
      <4>5. Sf(T) <= Su(T \ A) + M * Cardinality(T \cap A)
        <5> DEFINE p == M * n
                   t == M * Cardinality(T \cap A)
        <5>1. t = p + M /\ p \in Nat /\ Sf(R) <= Su(R \ A) + p /\ T \ A = R \ A
          BY <3>2, <3>5, <4>1, <4>4
        <5> HIDE DEF p, t
        <5>2. Sf(T) <= Su(T \ A) + t
          BY <3>3, <3>5, <4>3, <5>1
        <5> QED
          BY <5>2 DEF t
      <4> QED
        BY <4>5
    <3>7. CASE x \notin A
      <4>1. (T \ A) \ {x} = R \ A /\ T \cap A = R \cap A /\ x \in T \ A
        BY <3>7
      <4>2. Su(T \ A) = u[x] + Su(R \ A)
        BY <1>1, <3>4, <4>1
      <4>3. f[x] <= u[x]
        BY <3>7
      <4>4. Sf(T) <= Su(T \ A) + M * Cardinality(T \cap A)
        <5>1. n = Cardinality(T \cap A)
          BY <4>1
        <5> HIDE DEF n, R
        <5> QED
          BY <3>2, <3>3, <3>5, <4>2, <4>3, <5>1
      <4> QED
        BY <4>4
    <3> QED
      BY <3>6, <3>7
  <2> QED
    BY <2>1, <2>2
<1> HIDE DEF G
<1>5. SUBSET S \subseteq G
  BY <1>4, SubsetInduction
<1> QED
  BY <1>5 DEF G, Sf, Su

-----------------------------------------------------------------------------
(* The token quota.                                                        *)

\* The ended tasks that the checks of r count.
Over(r) == {q \in CountedOfTenant(r) : row[q] = "over"}

\* While nothing has torn the two sums apart, the first one covers the tasks that the
\* second one leaves out.
SumInv == \A r \in Reqs :
    pc[r] = "sumReserved" => SumFunctionOnSet(used, Over(r)) <= sum[r]

TokenInv == gaps = {} =>
    /\ SumInv
    /\ \A k \in Tenants, d \in Days : SumFunctionOnSet(Charge, Charged(k, d)) <= Quota

\* The charges are numbers up to MaxTokens, and of an ended task no more than it used.
LEMMA ChargeType ==
    ASSUME TypeOK
    PROVE  /\ Charge \in [Reqs -> Nat] /\ used \in [Reqs -> Nat]
           /\ \A r \in Reqs : Charge[r] <= MaxTokens /\ (row[r] # "active" => Charge[r] <= used[r])
           /\ MaxTokens \in Nat /\ Quota \in Nat
  BY AdmissionAssumption DEF AdmissionAssumption, TypeOK, Charge

\* What is summed is a set of requests, and the sum a number.
LEMMA SumsAreNat ==
    ASSUME TypeOK
    PROVE  /\ \A T \in SUBSET Reqs : /\ SumFunctionOnSet(used, T) \in Nat
                                     /\ SumFunctionOnSet(Charge, T) \in Nat
           /\ \A r \in Reqs : CountedOfTenant(r) \in SUBSET Reqs /\ Over(r) \in SUBSET Reqs
           /\ \A k, d : Charged(k, d) \in SUBSET Reqs
<1>1. \A T \in SUBSET Reqs : /\ SumFunctionOnSet(used, T) \in Nat
                             /\ SumFunctionOnSet(Charge, T) \in Nat
  BY ChargeType, Constants, SumRemove
<1> QED
  BY <1>1 DEF CountedOfTenant, Counted, Over, Charged

\* The types hold initially.
LEMMA AllTypesInit == Init => TypeOK
  BY AdmissionAssumption DEF AdmissionAssumption, Init, TypeOK, Days, PCs

\* Every step keeps the types.
LEMMA AllTypesStep == TypeOK /\ [Next]_vars => TypeOK'
<1> SUFFICES ASSUME TypeOK, [Next]_vars PROVE TypeOK'
  OBVIOUS
<1> USE DEF TypeOK, PCs
<1>0. LastDay \in Nat /\ MaxTokens \in Nat
  BY AdmissionAssumption DEF AdmissionAssumption
<1>1. CASE UNCHANGED vars
  BY <1>1 DEF vars, handlers, rows
<1>2. CASE Midnight
  BY <1>0, <1>2 DEF Midnight, Days, handlers, rows
<1>3. ASSUME NEW r \in Reqs, Handler(r) PROVE TypeOK'
  <2>1. CASE InsertRow(r)
    BY <2>1 DEF InsertRow, Goto
  <2>2. CASE BeginChecks(r)
    BY <2>2 DEF BeginChecks, Goto, rows
  <2>3. CASE CountTenant(r)
    BY <2>3 DEF CountTenant, Check, Goto, rows
  <2>4. CASE CountGlobal(r)
    BY <2>4 DEF CountGlobal, Check, Goto, rows
  <2>5. CASE SumUsed(r)
    <3>1. SumFunctionOnSet(used, CountedOfTenant(r)) \in Nat
      BY SumsAreNat
    <3> QED
      BY <2>5, <3>1 DEF SumUsed, Goto, rows
  <2>6. CASE SumReserved(r)
    BY <2>6 DEF SumReserved, Check, Goto, rows
  <2>7. CASE RollBack(r)
    BY <1>0, <2>7 DEF RollBack, DeleteRow, Goto, Days
  <2>8. CASE Submit(r)
    BY <2>8 DEF Submit, Goto, rows
  <2>9. CASE HandlerDies(r)
    BY <2>9 DEF HandlerDies, Goto, rows
  <2> QED
    BY <1>3, <2>1, <2>2, <2>3, <2>4, <2>5, <2>6, <2>7, <2>8, <2>9 DEF Handler
<1>4. ASSUME NEW r \in Reqs, TaskEnds(r) PROVE TypeOK'
  BY <1>4 DEF TaskEnds, handlers
<1>5. ASSUME NEW r \in Reqs, TaskResumes(r) PROVE TypeOK'
  BY <1>5 DEF TaskResumes, handlers
<1>6. ASSUME NEW r \in Reqs, TaskDeleted(r) PROVE TypeOK'
  BY <1>0, <1>6 DEF TaskDeleted, DeleteRow, handlers, Days
<1> QED
  BY <1>1, <1>2, <1>3, <1>4, <1>5, <1>6 DEF Next

\* A step that lets nobody pass, charges nobody more, and adds nothing to what a
\* second sum has to cover.
Calm ==
    /\ gaps' = {} => gaps = {}
    /\ \A q \in Reqs :
         /\ pc'[q] \in {"passed", "admitted"} =>
              /\ pc[q] \in {"passed", "admitted"} /\ since'[q] = since[q]
              /\ row'[q] # "absent" => /\ row[q] # "absent" /\ created'[q] = created[q]
                                       /\ gaps' = {} => Charge'[q] <= Charge[q]
    /\ gaps' = {} => \A r \in Reqs : pc'[r] = "sumReserved" =>
         /\ pc[r] = "sumReserved" /\ sum'[r] = sum[r]
         /\ Over(r)' \subseteq Over(r)
         /\ \A q \in Over(r)' : used'[q] = used[q]

\* A calm step keeps the invariant.
LEMMA CalmKeeps == TypeOK /\ TypeOK' /\ TokenInv /\ Calm => TokenInv'
<1> SUFFICES ASSUME TypeOK, TypeOK', TokenInv, Calm, gaps' = {}
             PROVE  /\ SumInv'
                    /\ \A k \in Tenants, d \in Days :
                         SumFunctionOnSet(Charge', Charged(k, d)') <= Quota
  BY DEF TokenInv
<1>1. gaps = {}
  BY DEF Calm
<1>2. ASSUME NEW r \in Reqs, pc'[r] = "sumReserved"
      PROVE  SumFunctionOnSet(used', Over(r)') <= sum'[r]
  <2>1. /\ pc[r] = "sumReserved" /\ sum'[r] = sum[r] /\ Over(r)' \subseteq Over(r)
        /\ \A q \in Over(r)' : used'[q] = used[q]
    BY <1>2 DEF Calm
  <2>2. SumFunctionOnSet(used, Over(r)) <= sum[r]
    BY <1>1, <2>1 DEF TokenInv, SumInv
  <2>3. Over(r) \in SUBSET Reqs /\ Over(r)' \in SUBSET Reqs
    BY DEF Over, CountedOfTenant, Counted
  <2>4. used \in [Reqs -> Nat] /\ used' \in [Reqs -> Nat] /\ sum[r] \in Nat
    BY AdmissionAssumption DEF AdmissionAssumption, TypeOK
  <2>5. \A q \in Over(r)' : used'[q] <= used[q]
    BY <2>1, <2>3, <2>4
  <2>6. SumFunctionOnSet(used', Over(r)') <= SumFunctionOnSet(used, Over(r))
    BY <2>1, <2>3, <2>4, <2>5, Constants, SumMonotone
  <2>7. SumFunctionOnSet(used', Over(r)') \in Nat /\ SumFunctionOnSet(used, Over(r)) \in Nat
    BY <2>3, <2>4, Constants, SumRemove
  <2> QED
    BY <2>1, <2>2, <2>4, <2>6, <2>7
<1>3. ASSUME NEW k \in Tenants, NEW d \in Days
      PROVE  SumFunctionOnSet(Charge', Charged(k, d)') <= Quota
  <2>1. SumFunctionOnSet(Charge, Charged(k, d)) <= Quota
    BY <1>1 DEF TokenInv
  <2>2. Charged(k, d) \in SUBSET Reqs /\ Charged(k, d)' \in SUBSET Reqs
    BY DEF Charged
  <2>3. Charge \in [Reqs -> Nat] /\ Charge' \in [Reqs -> Nat] /\ Quota \in Nat
    BY AdmissionAssumption DEF AdmissionAssumption, TypeOK, Charge
  <2>4. Charged(k, d)' \subseteq Charged(k, d)
    BY DEF Calm, Charged, CheckedFor
  <2>5. \A q \in Charged(k, d)' : Charge'[q] <= Charge[q]
    BY DEF Calm, Charged, CheckedFor
  <2>6. SumFunctionOnSet(Charge', Charged(k, d)') <= SumFunctionOnSet(Charge, Charged(k, d))
    BY <2>2, <2>3, <2>4, <2>5, Constants, SumMonotone
  <2>7. /\ SumFunctionOnSet(Charge', Charged(k, d)') \in Nat
        /\ SumFunctionOnSet(Charge, Charged(k, d)) \in Nat
    BY <2>2, <2>3, Constants, SumRemove
  <2> QED
    BY <2>1, <2>3, <2>6, <2>7
<1> QED
  BY <1>2, <1>3 DEF SumInv

\* Every step but the two sums is calm.
LEMMA StepsAreCalm ==
    ASSUME TypeOK, TypeOK', [Next]_vars, \A r \in Reqs : ~SumUsed(r) /\ ~SumReserved(r)
    PROVE  Calm
<1> USE DEF TypeOK, Calm, Over, CountedOfTenant, Counted
<1>0. /\ MaxTokens \in Nat /\ LastDay \in Nat
      /\ \A n \in Nat : ~(n > MaxTokens) => n <= MaxTokens
  BY AdmissionAssumption DEF AdmissionAssumption
<1>1. CASE UNCHANGED vars
  BY <1>0, <1>1 DEF vars, handlers, rows, Charge
<1>2. CASE Midnight
  BY <1>0, <1>2 DEF Midnight, handlers, rows, Charge
<1>3. ASSUME NEW r \in Reqs, InsertRow(r) PROVE Calm
  BY <1>0, <1>3 DEF InsertRow, Goto, Charge
<1>4. ASSUME NEW r \in Reqs, BeginChecks(r) PROVE Calm
  BY <1>0, <1>4 DEF BeginChecks, Goto, rows, Charge
<1>5. ASSUME NEW r \in Reqs, CountTenant(r) PROVE Calm
  BY <1>0, <1>5 DEF CountTenant, Check, Goto, rows, Charge
<1>6. ASSUME NEW r \in Reqs, CountGlobal(r) PROVE Calm
  BY <1>0, <1>6 DEF CountGlobal, Check, Goto, rows, Charge
<1>7. ASSUME NEW r \in Reqs, RollBack(r) PROVE Calm
  BY <1>0, <1>7 DEF RollBack, DeleteRow, Goto, Charge
<1>8. ASSUME NEW r \in Reqs, Submit(r) PROVE Calm
  BY <1>0, <1>8 DEF Submit, Goto, rows, Charge
<1>9. ASSUME NEW r \in Reqs, HandlerDies(r) PROVE Calm
  BY <1>0, <1>9 DEF HandlerDies, Goto, rows, Charge
<1>10. ASSUME NEW r \in Reqs, TaskEnds(r) PROVE Calm
  BY <1>0, <1>10 DEF TaskEnds, Settled, handlers, Charge
<1>11. ASSUME NEW r \in Reqs, TaskResumes(r) PROVE Calm
  BY <1>0, <1>11 DEF TaskResumes, Settled, handlers, Charge
<1>12. ASSUME NEW r \in Reqs, TaskDeleted(r) PROVE Calm
  BY <1>0, <1>12 DEF TaskDeleted, DeleteRow, Settled, handlers, Charge
<1> QED
  BY <1>1, <1>2, <1>3, <1>4, <1>5, <1>6, <1>7, <1>8, <1>9, <1>10, <1>11, <1>12
  DEF Next, Handler

\* tenant_token_usage, the first statement: it sums up all tasks that count.
LEMMA SumUsedKeeps ==
    ASSUME TypeOK, TokenInv, NEW r \in Reqs, SumUsed(r) PROVE TokenInv'
<1> SUFFICES ASSUME gaps = {}
             PROVE  /\ SumInv'
                    /\ \A k \in Tenants, d \in Days :
                         SumFunctionOnSet(Charge', Charged(k, d)') <= Quota
  BY DEF SumUsed, TokenInv
<1>1. row' = row /\ created' = created /\ used' = used /\ since' = since
  BY DEF SumUsed, rows
<1>2. ASSUME NEW q \in Reqs, pc'[q] = "sumReserved"
      PROVE  SumFunctionOnSet(used', Over(q)') <= sum'[q]
  <2>1. Over(q)' = Over(q)
    BY <1>1 DEF Over, CountedOfTenant, Counted
  <2>2. CASE q = r
    <3>1. sum'[r] = SumFunctionOnSet(used, CountedOfTenant(r))
      BY DEF SumUsed, TypeOK
    <3>2. Over(r) \subseteq CountedOfTenant(r) /\ CountedOfTenant(r) \in SUBSET Reqs
      BY DEF Over, CountedOfTenant, Counted
    <3>3. \A x \in Over(r) : used[x] <= used[x]
      BY <3>2, ChargeType
    <3>4. SumFunctionOnSet(used, Over(r)) <= SumFunctionOnSet(used, CountedOfTenant(r))
      BY <3>2, <3>3, ChargeType, Constants, SumMonotone
    <3> QED
      BY <1>1, <2>1, <2>2, <3>1, <3>4
  <2>3. CASE q # r
    <3>1. pc[q] = "sumReserved" /\ sum'[q] = sum[q]
      BY <1>2, <2>3 DEF SumUsed, Goto, TypeOK
    <3> QED
      BY <1>1, <2>1, <3>1 DEF TokenInv, SumInv
  <2> QED
    BY <2>2, <2>3
<1>3. ASSUME NEW k \in Tenants, NEW d \in Days
      PROVE  Charge' = Charge /\ Charged(k, d)' = Charged(k, d)
  BY <1>1 DEF SumUsed, Goto, TypeOK, Charge, Charged, CheckedFor
<1> QED
  BY <1>2, <1>3 DEF TokenInv, SumInv

\* tenant_token_usage, the second statement, and the comparison: what was used by
\* the tasks that have ended is in the first sum, the others are reserved in full.
LEMMA SumReservedKeeps ==
    ASSUME TypeOK, TokenInv, NEW r \in Reqs, SumReserved(r) PROVE TokenInv'
<1> SUFFICES ASSUME gaps = {}
             PROVE  /\ SumInv'
                    /\ \A k \in Tenants, d \in Days :
                         SumFunctionOnSet(Charge', Charged(k, d)') <= Quota
  BY DEF SumReserved, TokenInv
<1> DEFINE active == {q \in Reqs : row[q] = "active"}
           reserving == {q \in CountedOfTenant(r) : row[q] = "active"}
<1>1. row' = row /\ created' = created /\ used' = used /\ since' = since
  BY DEF SumReserved, rows
<1>2. \A q \in Reqs : q # r => pc'[q] = pc[q] /\ sum'[q] = sum[q]
  BY DEF SumReserved, Check, Goto, TypeOK
<1>3. pc'[r] = IF sum[r] + MaxTokens * Cardinality(reserving) <= Quota
               THEN "passed" ELSE "rollback"
  BY DEF SumReserved, Check, Goto, TypeOK
<1>4. SumInv'
  <2> SUFFICES ASSUME NEW q \in Reqs, pc'[q] = "sumReserved"
               PROVE  SumFunctionOnSet(used', Over(q)') <= sum'[q]
    BY DEF SumInv
  <2>1. q # r
    BY <1>3
  <2>2. Over(q)' = Over(q)
    BY <1>1 DEF Over, CountedOfTenant, Counted
  <2> QED
    BY <1>1, <1>2, <2>1, <2>2 DEF TokenInv, SumInv
<1>5. ASSUME NEW k \in Tenants, NEW d \in Days
      PROVE  SumFunctionOnSet(Charge', Charged(k, d)') <= Quota
  <2>1. Charge' = Charge
    BY <1>1 DEF Charge
  <2>2. SumFunctionOnSet(Charge, Charged(k, d)) <= Quota
    BY DEF TokenInv
  <2>3. pc[r] = "sumReserved"
    BY DEF SumReserved
  <2>4. CASE r \notin Charged(k, d)'
    <3>1. Charged(k, d)' = Charged(k, d)
      BY <1>1, <1>2, <2>3, <2>4 DEF Charged, CheckedFor
    <3> QED
      BY <2>1, <2>2, <3>1
  <2>5. CASE r \in Charged(k, d)'
    <3> DEFINE T == Charged(k, d)'
    <3>1. /\ sum[r] + MaxTokens * Cardinality(reserving) <= Quota
          /\ TenantOf[r] = k /\ since[r] = d
      BY <1>1, <1>3, <2>5 DEF Charged, CheckedFor
    <3>2. T \subseteq CountedOfTenant(r) /\ T \in SUBSET Reqs
      BY <1>1, <3>1, Constants DEF Charged, CheckedFor, CountedOfTenant, Counted, Days
    <3>3. SumFunctionOnSet(Charge, T)
            <= SumFunctionOnSet(used, T \ active) + MaxTokens * Cardinality(T \cap active)
      <4>1. \A x \in active : Charge[x] <= MaxTokens
        BY ChargeType
      <4>2. \A x \in Reqs \ active : Charge[x] <= used[x]
        BY ChargeType DEF Charge
      <4>3. active \in SUBSET Reqs
        OBVIOUS
      <4> HIDE DEF active, T
      <4> QED
        BY <3>2, <4>1, <4>2, <4>3, ChargeType, Constants, SumBound
    <3>4. SumFunctionOnSet(used, T \ active) <= sum[r]
      <4>1. T \ active \subseteq Over(r) /\ Over(r) \in SUBSET Reqs
            /\ T \ active \in SUBSET Reqs
        BY <1>1, <3>2 DEF Over, Charged, CheckedFor, CountedOfTenant, Counted, TypeOK
      <4>2. \A x \in T \ active : used[x] <= used[x]
        BY <4>1, ChargeType
      <4> HIDE DEF T, active
      <4>3. SumFunctionOnSet(used, T \ active) <= SumFunctionOnSet(used, Over(r))
        BY <4>1, <4>2, ChargeType, Constants, SumMonotone
      <4>4. SumFunctionOnSet(used, Over(r)) <= sum[r] /\ sum[r] \in Nat
        BY <2>3 DEF TokenInv, SumInv, TypeOK
      <4>5. /\ SumFunctionOnSet(used, T \ active) \in Nat
            /\ SumFunctionOnSet(used, Over(r)) \in Nat
        BY <4>1, SumsAreNat
      <4> QED
        BY <4>3, <4>4, <4>5
    <3>5. /\ MaxTokens * Cardinality(T \cap active) <= MaxTokens * Cardinality(reserving)
          /\ MaxTokens * Cardinality(T \cap active) \in Nat
          /\ MaxTokens * Cardinality(reserving) \in Nat
      <4>1. T \cap active \subseteq reserving /\ reserving \in SUBSET Reqs
        BY <3>2 DEF CountedOfTenant, Counted
      <4> HIDE DEF T, active, reserving
      <4>2. IsFiniteSet(reserving)
        BY <4>1, Constants, FS_Subset
      <4>3. IsFiniteSet(T \cap active) /\ Cardinality(T \cap active) <= Cardinality(reserving)
        BY <4>1, <4>2, FS_Subset
      <4>4. Cardinality(T \cap active) \in Nat /\ Cardinality(reserving) \in Nat
        BY <4>2, <4>3, FS_CardinalityType
      <4>5. \A m, n, M \in Nat : m <= n => M * m <= M * n /\ M * m \in Nat /\ M * n \in Nat
        OBVIOUS
      <4> QED
        BY <4>3, <4>4, <4>5, ChargeType
    <3>6. /\ SumFunctionOnSet(Charge, T) \in Nat
          /\ SumFunctionOnSet(used, T \ active) \in Nat /\ sum[r] \in Nat /\ Quota \in Nat
      <4>1. T \ active \in SUBSET Reqs
        BY <3>2
      <4> HIDE DEF T, active
      <4> QED
        BY <3>2, <4>1, SumsAreNat, ChargeType DEF TypeOK
    <3>7. SumFunctionOnSet(Charge, T) <= Quota
      <4> DEFINE p == MaxTokens * Cardinality(T \cap active)
                 t == MaxTokens * Cardinality(reserving)
                 u == SumFunctionOnSet(used, T \ active)
      <4>1. /\ SumFunctionOnSet(Charge, T) <= u + p /\ u <= sum[r] /\ p <= t
            /\ sum[r] + t <= Quota /\ p \in Nat /\ t \in Nat /\ u \in Nat
        BY <3>1, <3>3, <3>4, <3>5, <3>6
      <4> HIDE DEF p, t, u, T
      <4> QED
        BY <3>6, <4>1
    <3> QED
      BY <2>1, <3>7
  <2> QED
    BY <2>4, <2>5
<1> QED
  BY <1>4, <1>5

\* Nothing is charged at the beginning.
LEMMA TokenInit == Init => TokenInv
<1> SUFFICES ASSUME Init PROVE TokenInv
  OBVIOUS
<1>1. \A k \in Tenants, d \in Days : Charged(k, d) = {}
  BY DEF Init, Charged
<1>2. SumFunctionOnSet(Charge, {}) = 0 /\ Quota \in Nat
  BY SumEmpty, AdmissionAssumption DEF AdmissionAssumption
<1>3. SumInv
  BY DEF Init, SumInv
<1> QED
  BY <1>1, <1>2, <1>3 DEF TokenInv

\* Every step keeps the invariant.
LEMMA TokenStep == TypeOK /\ TypeOK' /\ TokenInv /\ [Next]_vars => TokenInv'
  BY StepsAreCalm, CalmKeeps, SumUsedKeeps, SumReservedKeeps

\* Every reachable state is well typed, for any requests and limits.
THEOREM TypeCorrect == Spec => []TypeOK
  BY AllTypesInit, AllTypesStep, PTL DEF Spec

\* tenant_token_usage and the check of the quota: what the admitted tasks of a
\* tenant and a day have used or may still use exceeds daily_token_quota by no more
\* than what single tasks used beyond their own max_tokens, as long as no task ends
\* between the two sums of a check and none is resumed.
THEOREM TokensStayWithinQuota == Spec => []TokensWithinQuota
<1>1. TokenInv => TokensWithinQuota
  BY DEF TokenInv, TokensWithinQuota
<1> QED
  BY <1>1, TypeCorrect, TokenInit, TokenStep, PTL DEF Spec
=============================================================================
